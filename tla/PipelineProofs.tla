--------------------------- MODULE PipelineProofs ---------------------------
(***************************************************************************)
(* Theorems about RequestPipeline and RateLimiter, for every number of      *)
(* requests served at once, set of addresses, tokens, permissions and       *)
(* inputs, and size of the buckets.                                         *)
(***************************************************************************)
EXTENDS RequestPipeline, TLAPS

Labels   == {"idle", "csrf", "limit", "validate", "decode", "exchange", "check",
             "handle", "error", "panic"}
Statuses == {200, 400, 401, 403, 404, 405, 429, 500}
Faults   == Error \cup {NoError}

(* The errors that are ever on their way up. *)
Raised == {HTTPError(s) : s \in {400, 403, 404, 405}}
          \cup {Plain(t) : t \in {"words", "other"}}

(* What request r's route asks for has been true while r was in progress. *)
Cleared(r) == rq[r].auth => /\ "live" \in seen[r]
                            /\ rq[r].perm # None => "allowed" \in seen[r]

(* The layer a request is in tells what it has seen. *)
Journey(r) ==
  /\ InProgress(r) => /\ rq[r] \in Inputs
                      /\ answers[r] = <<>>
                      /\ Facts(rq[r]) \subseteq seen[r]
  /\ pc[r] \in {"validate", "decode", "exchange", "check"} => rq[r].auth
  /\ pc[r] \in {"exchange", "check"} => rq[r].perm # None
  /\ pc[r] \in {"decode", "exchange", "check"} => "live" \in seen[r]
  /\ pc[r] = "check" /\ rq[r].perm \in rpt[r] => "allowed" \in seen[r]
  /\ pc[r] = "handle" \/ ran[r] => Cleared(r)
  /\ pc[r] = "error" => /\ fault[r] \in Raised
                        /\ ErrorStatus(fault[r]) = 500 => gone[r]
  /\ pc[r] = "panic" => ran[r]

(* What an answer says of the request. *)
Reply(r) ==
  /\ answers[r] = <<>> \/ \E s \in Statuses : answers[r] = <<s>>
  /\ ~InProgress(r) /\ rq[r] \in Inputs /\ ~gone[r] => answers[r] # <<>>
  /\ answers[r] = <<500>> => ran[r] \/ ~rq[r].body

(* A bucket has earned what it can since its address was last seen. *)
Earned == \A a \in Addresses : tokens[a] = Burst \/ tokens[a] >= idle[a]

PInv == TypeOK /\ Earned /\ \A r \in Requests : Journey(r) /\ Reply(r)

-----------------------------------------------------------------------------

(* What processError makes of them. *)
LEMMA RaisedFacts ==
  \A e \in Raised : /\ e \in Error
                    /\ ErrorStatus(e) \in {400, 403, 404, 405, 500}
                    /\ ErrorStatus(e) = 500 => e.kind = "plain"
  <1>1. ASSUME NEW s \in {400, 403, 404, 405}
        PROVE  HTTPError(s) \in Error /\ ErrorStatus(HTTPError(s)) = s
               /\ HTTPError(s).kind = "echo"
    BY DEF HTTPError, Error, ErrorStatus, processError, FromHTTPError, WrapError,
           NewAppError, HTTPStatus
  <1>2. ASSUME NEW t \in {"words", "other"}
        PROVE  Plain(t) \in Error /\ ErrorStatus(Plain(t)) = 500 /\ Plain(t).kind = "plain"
    BY DEF Plain, Error, PlainTypes, ErrorStatus, processError, FromPlain, handleGORMError,
           handleContextError, isGORMError, WrapError, NewAppError, HTTPStatus
  <1> QED BY <1>1, <1>2 DEF Raised

LEMMA HandlerFacts == \A e \in HandlerErrors : ErrorStatus(e) \in {400, 404, 500}
  <1>1. ASSUME NEW t \in {"validation", "not_found", "database", "internal"}
        PROVE  ErrorStatus(WrapError(t)) \in {400, 404, 500}
    BY DEF ErrorStatus, processError, WrapError, NewAppError, HTTPStatus
  <1>2. ASSUME NEW t \in {"words", "other"} PROVE ErrorStatus(Plain(t)) = 500
    BY DEF Plain, ErrorStatus, processError, FromPlain, handleGORMError,
           handleContextError, isGORMError, WrapError, NewAppError, HTTPStatus
  <1> QED BY <1>1, <1>2 DEF HandlerErrors

LEMMA InitInv == Init => PInv
  <1> SUFFICES ASSUME Init PROVE PInv
    OBVIOUS
  <1>1. LimiterTypeOK /\ Earned
    BY LimitPositive DEF Init, LimiterInit, LimiterTypeOK, Earned, Burst, ExpiresIn
  <1>2. TypeOK
    BY <1>1 DEF Init, TypeOK
  <1>3. NoInput \notin Inputs
    <2> SUFFICES ASSUME NoInput \in Inputs PROVE FALSE
      OBVIOUS
    <2>1. NoInput \in Input
      BY InputsOK
    <2>2. "auth" \in DOMAIN NoInput
      BY <2>1 DEF Input
    <2> QED BY <2>2 DEF NoInput
  <1>4. ASSUME NEW r \in Requests PROVE Journey(r) /\ Reply(r)
    BY <1>3 DEF Init, Journey, Reply, InProgress
  <1> QED BY <1>1, <1>2, <1>4 DEF PInv

(* The limiter's steps keep its types and what the buckets have earned, and  *)
(* forget only full ones.                                                    *)
LEMMA TickFacts ==
  ASSUME LimiterTypeOK, Earned, Tick
  PROVE  LimiterTypeOK' /\ Earned' /\ visitors' = visitors
  <1> USE LimitPositive DEF LimiterTypeOK, Earned, Tick, Later, Burst, ExpiresIn
  <1>1. ASSUME NEW a \in Addresses
        PROVE  /\ tokens'[a] \in 0 .. Burst /\ idle'[a] \in 0 .. ExpiresIn + 1
               /\ tokens'[a] = Burst \/ tokens'[a] >= idle'[a]
    <2>1. tokens[a] \in 0 .. RateLimit /\ idle[a] \in 0 .. RateLimit + 1
      OBVIOUS
    <2>2. tokens'[a] = IF a \in visitors /\ tokens[a] < Burst THEN tokens[a] + 1 ELSE tokens[a]
      OBVIOUS
    <2>3. idle'[a] = IF a \in visitors THEN Later(idle[a]) ELSE idle[a]
      OBVIOUS
    <2>4. tokens[a] = Burst \/ tokens[a] >= idle[a]
      OBVIOUS
    <2> QED BY <2>1, <2>2, <2>3, <2>4
  <1>2. uncleaned' \in 0 .. ExpiresIn + 1
    OBVIOUS
  <1>3. tokens' \in [Addresses -> 0 .. Burst]
    BY <1>1
  <1>4. idle' \in [Addresses -> 0 .. ExpiresIn + 1]
    BY <1>1
  <1> QED BY <1>1, <1>2, <1>3, <1>4

LEMMA AllowFacts ==
  ASSUME LimiterTypeOK, Earned, NEW a \in Addresses, NEW ok \in BOOLEAN, Allow(a, ok)
  PROVE  /\ LimiterTypeOK' /\ Earned'
         /\ \A v \in visitors \ visitors' : tokens[v] = Burst
  <1> DEFINE cleaning  == uncleaned > ExpiresIn
             forgotten == IF cleaning THEN {v \in Addresses \ {a} : Stale(v)} ELSE {}
  <1>1. /\ ok <=> tokens[a] > 0
        /\ visitors' = (visitors \cup {a}) \ forgotten
        /\ tokens' = [v \in Addresses |->
                        IF v \in forgotten THEN Burst
                        ELSE IF v = a /\ ok THEN tokens[v] - 1 ELSE tokens[v]]
        /\ idle' = [v \in Addresses |-> IF v \in forgotten \cup {a} THEN 0 ELSE idle[v]]
        /\ uncleaned' = IF cleaning THEN 0 ELSE uncleaned
    BY DEF Allow
  <1>2. \A v \in forgotten : v \in Addresses /\ idle[v] > ExpiresIn
    BY DEF Stale
  <1> HIDE DEF forgotten
  <1>3. ASSUME NEW v \in Addresses
        PROVE  /\ tokens'[v] \in 0 .. Burst /\ idle'[v] \in 0 .. ExpiresIn + 1
               /\ tokens'[v] = Burst \/ tokens'[v] >= idle'[v]
    <2>1. tokens[v] \in 0 .. Burst /\ idle[v] \in 0 .. ExpiresIn + 1 /\ Burst \in Nat
          /\ (tokens[v] = Burst \/ tokens[v] >= idle[v])
      BY LimitPositive DEF LimiterTypeOK, Earned, Burst
    <2>2. tokens'[v] = IF v \in forgotten THEN Burst
                       ELSE IF v = a /\ ok THEN tokens[v] - 1 ELSE tokens[v]
      BY <1>1
    <2>3. idle'[v] = IF v \in forgotten \cup {a} THEN 0 ELSE idle[v]
      BY <1>1
    <2> QED BY <1>1, <2>1, <2>2, <2>3, LimitPositive DEF ExpiresIn
  <1>4. tokens' \in [Addresses -> 0 .. Burst]
    BY <1>1, <1>3
  <1>5. idle' \in [Addresses -> 0 .. ExpiresIn + 1]
    BY <1>1, <1>3
  <1>6. visitors' \subseteq Addresses /\ uncleaned' \in 0 .. ExpiresIn + 1
    BY <1>1, LimitPositive DEF LimiterTypeOK, ExpiresIn
  <1>7. ASSUME NEW v \in visitors \ visitors' PROVE tokens[v] = Burst
    <2>1. v \in forgotten /\ v \in Addresses /\ idle[v] > ExpiresIn
      BY <1>1, <1>2
    <2>2. tokens[v] \in 0 .. Burst /\ (tokens[v] = Burst \/ tokens[v] >= idle[v])
          /\ idle[v] \in 0 .. ExpiresIn + 1
      BY <2>1 DEF LimiterTypeOK, Earned
    <2> QED BY <2>1, <2>2, LimitPositive DEF Burst, ExpiresIn
  <1> QED BY <1>3, <1>4, <1>5, <1>6, <1>7 DEF LimiterTypeOK, Earned

-----------------------------------------------------------------------------
(* What is recorded of a request. *)

LEMMA FactsSay ==
  ASSUME NEW q, q.auth
  PROVE  /\ "live" \in Facts(q) <=> q.bearer \in live
         /\ "allowed" \in Facts(q) <=> Allowed(q)
  BY DEF Facts

LEMMA Recorded ==
  ASSUME TypeOK, Record, NEW r \in Requests
  PROVE  /\ InProgress(r)' => Facts(rq[r])' \subseteq seen'[r]
         /\ InProgress(r) /\ InProgress(r)' => seen[r] \subseteq seen'[r]
         /\ ~InProgress(r)' => seen'[r] = seen[r]
         /\ seen'[r] \subseteq {"live", "allowed"}
  <1>1. seen'[r] = IF ~InProgress(r)' THEN seen[r]
                   ELSE (IF InProgress(r) THEN seen[r] ELSE {}) \cup Facts(rq[r])'
    BY DEF Record
  <1>2. Facts(rq[r])' \subseteq {"live", "allowed"}
    BY DEF Facts
  <1>3. seen[r] \subseteq {"live", "allowed"}
    BY DEF TypeOK
  <1> QED BY <1>1, <1>2, <1>3

LEMMA RecordTyped ==
  ASSUME TypeOK, Record
  PROVE  seen' \in [Requests -> SUBSET {"live", "allowed"}]
  <1>1. \A r \in Requests : seen'[r] \subseteq {"live", "allowed"}
    BY Recorded
  <1>2. seen' = [r \in Requests |-> seen'[r]]
    BY DEF Record
  <1> QED BY <1>1, <1>2

(* A step that leaves a request alone, whatever it does to the others, to    *)
(* Keycloak or to the store. *)
Kept(r) ==
  /\ pc'[r] = pc[r] /\ rq'[r] = rq[r] /\ rpt'[r] = rpt[r] /\ fault'[r] = fault[r]
  /\ ran'[r] = ran[r] /\ answers'[r] = answers[r] /\ gone'[r] = gone[r]

LEMMA KeptIntact ==
  ASSUME TypeOK, Record, NEW r \in Requests, Journey(r), Reply(r), Kept(r)
  PROVE  Journey(r)' /\ Reply(r)'
  <1>1. /\ InProgress(r)' => Facts(rq[r])' \subseteq seen'[r]
        /\ seen[r] \subseteq seen'[r]
        /\ ~InProgress(r)' => seen'[r] = seen[r]
    BY Recorded DEF Kept, InProgress
  <1>2. Journey(r)'
    BY <1>1 DEF Journey, Kept, InProgress, Cleared
  <1>3. Reply(r)'
    BY <1>1 DEF Reply, Kept, InProgress
  <1> QED BY <1>2, <1>3

(* The parts of a request its answer or its error changes. *)
Typed ==
  /\ pc \in [Requests -> Labels]
  /\ fault \in [Requests -> Faults]
  /\ answers \in [Requests -> Seq(Statuses)]
  /\ gone \in [Requests -> BOOLEAN]

OthersKept(r) ==
  \A s \in Requests \ {r} : /\ pc'[s] = pc[s] /\ fault'[s] = fault[s]
                            /\ answers'[s] = answers[s] /\ gone'[s] = gone[s]

LEMMA GotoFacts ==
  ASSUME Typed, NEW r \in Requests, NEW label \in Labels, Goto(r, label)
  PROVE  /\ Typed' /\ OthersKept(r)
         /\ pc'[r] = label /\ fault'[r] = fault[r]
         /\ answers'[r] = answers[r] /\ gone'[r] = gone[r]
  BY DEF Typed, OthersKept, Goto

LEMMA RaiseFacts ==
  ASSUME Typed, NEW r \in Requests, NEW e \in Raised, Raise(r, e)
  PROVE  /\ Typed' /\ OthersKept(r)
         /\ pc'[r] = "error" /\ fault'[r] = e
         /\ answers'[r] = answers[r] /\ gone'[r] = gone[r]
  <1>1. e \in Faults
    BY RaisedFacts DEF Faults
  <1> QED BY <1>1 DEF Typed, OthersKept, Raise, Labels

(* What a failed write leaves. *)
WriteFailed(r) == fault[r] \in Raised /\ ErrorStatus(fault[r]) = 500 /\ gone[r]

LEMMA WriteFacts ==
  ASSUME Typed, NEW r \in Requests, NEW status \in Statuses, answers[r] = <<>>,
         Write(r, status)
  PROVE  /\ Typed' /\ OthersKept(r)
         /\ \/ pc'[r] = "idle" /\ answers'[r] = <<status>>
            \/ pc'[r] = "error" /\ answers'[r] = <<>> /\ WriteFailed(r)'
  <1>1. Append(answers[r], status) = <<status>>
    OBVIOUS
  <1>2. <<status>> \in Seq(Statuses)
    OBVIOUS
  <1>3. CASE /\ answers' = [answers EXCEPT ![r] = <<status>>]
             /\ pc' = [pc EXCEPT ![r] = "idle"]
             /\ UNCHANGED <<fault, gone>>
    BY <1>2, <1>3 DEF Typed, OthersKept, Labels
  <1>4. CASE /\ gone' = [gone EXCEPT ![r] = TRUE]
             /\ pc' = [pc EXCEPT ![r] = "error"]
             /\ \E type \in {"words", "other"} : fault' = [fault EXCEPT ![r] = Plain(type)]
             /\ UNCHANGED answers
    <2>1. PICK type \in {"words", "other"} : fault' = [fault EXCEPT ![r] = Plain(type)]
      BY <1>4
    <2>2. Plain(type) \in Raised
      BY DEF Raised
    <2>3. Plain(type) \in Faults
      BY <2>2, RaisedFacts DEF Faults
    <2>4. ErrorStatus(Plain(type)) = 500
      BY DEF Plain, ErrorStatus, processError, FromPlain, handleGORMError,
         handleContextError, isGORMError, WrapError, NewAppError, HTTPStatus
    <2>5. Typed' /\ OthersKept(r) /\ fault'[r] = Plain(type) /\ gone'[r]
      BY <1>4, <2>1, <2>3 DEF Typed, OthersKept, Labels
    <2> QED BY <1>4, <2>2, <2>4, <2>5 DEF WriteFailed, Typed
  <1> QED BY <1>1, <1>3, <1>4 DEF Write

LEMMA WriteLastFacts ==
  ASSUME Typed, NEW r \in Requests, NEW status \in Statuses, answers[r] = <<>>,
         WriteLast(r, status)
  PROVE  /\ Typed' /\ OthersKept(r)
         /\ pc'[r] = "idle"
         /\ (~gone[r] /\ answers'[r] = <<status>>) \/ (answers'[r] = <<>> /\ gone'[r])
  <1>1. Append(answers[r], status) = <<status>>
    OBVIOUS
  <1>2. <<status>> \in Seq(Statuses)
    OBVIOUS
  <1>3. pc' = [pc EXCEPT ![r] = "idle"] /\ fault' = [fault EXCEPT ![r] = NoError]
    BY DEF WriteLast
  <1>4. CASE ~gone[r] /\ answers' = [answers EXCEPT ![r] = <<status>>] /\ UNCHANGED gone
    BY <1>2, <1>3, <1>4 DEF Typed, OthersKept, Labels, Faults
  <1>5. CASE gone' = [gone EXCEPT ![r] = TRUE] /\ UNCHANGED answers
    BY <1>3, <1>5 DEF Typed, OthersKept, Labels, Faults
  <1> QED BY <1>1, <1>4, <1>5 DEF WriteLast

-----------------------------------------------------------------------------
(* A step of one request: what it does to the request decides.              *)
LEMMA Served ==
  ASSUME PInv, Record, NEW r \in Requests, UNCHANGED <<keycloak, rq>>,
         LimiterTypeOK', Earned', Typed', OthersKept(r),
         rpt' \in [Requests -> SUBSET Permissions],
         ran' \in [Requests -> BOOLEAN],
         \A s \in Requests \ {r} : rpt'[s] = rpt[s] /\ ran'[s] = ran[s],
         Journey(r)', Reply(r)'
  PROVE  PInv'
  <1>1. TypeOK'
    BY RecordTyped DEF PInv, TypeOK, Typed, keycloak, Labels, Faults, Statuses
  <1>2. ASSUME NEW s \in Requests PROVE Journey(s)' /\ Reply(s)'
    <2>1. CASE s = r
      BY <2>1
    <2>2. CASE s # r
      <3>1. Kept(s)
        BY <2>2 DEF OthersKept, Kept
      <3> QED BY <3>1, KeptIntact DEF PInv
    <2> QED BY <2>1, <2>2
  <1> QED BY <1>1, <1>2 DEF PInv

(* A step that concerns no request. *)
LEMMA Elsewhere ==
  ASSUME PInv, Record, UNCHANGED <<pc, rq, rpt, fault, ran, answers, gone>>,
         LimiterTypeOK', Earned',
         live' \subseteq Tokens,
         granted' \subseteq Tokens \X Permissions
  PROVE  PInv'
  <1>1. TypeOK'
    BY RecordTyped DEF PInv, TypeOK
  <1>2. ASSUME NEW s \in Requests PROVE Journey(s)' /\ Reply(s)'
    <2>1. Kept(s)
      BY DEF Kept
    <2> QED BY <2>1, KeptIntact DEF PInv
  <1> QED BY <1>1, <1>2 DEF PInv

(* What the invariant and the record say of the request that steps.         *)
LEMMA Stepping ==
  ASSUME PInv, Record, NEW r \in Requests, InProgress(r)
  PROVE  /\ Typed /\ LimiterTypeOK /\ Earned
         /\ Journey(r) /\ Reply(r) /\ rq[r] \in Inputs /\ answers[r] = <<>>
         /\ seen[r] \subseteq seen'[r]
         /\ InProgress(r)' => Facts(rq[r])' \subseteq seen'[r]
         /\ ~InProgress(r)' => seen'[r] = seen[r]
  <1>1. TypeOK
    BY DEF PInv
  <1>2. Typed /\ LimiterTypeOK /\ Earned
    BY DEF PInv, TypeOK, Typed, Labels, Faults, Statuses
  <1>3. Journey(r) /\ Reply(r)
    BY DEF PInv
  <1>4. rq[r] \in Inputs /\ answers[r] = <<>>
    BY <1>3 DEF Journey
  <1> QED BY <1>1, <1>2, <1>3, <1>4, Recorded

LEMMA Singleton == \A s, t : /\ <<s>> = <<t>> => s = t
                             /\ <<s>> # <<>>
                             /\ Len(<<s>>) = 1
  <1> TAKE s, t
  <1>1. <<s>>[1] = s /\ <<t>>[1] = t
    OBVIOUS
  <1>2. Len(<<s>>) = 1 /\ Len(<<>>) = 0
    OBVIOUS
  <1> QED BY <1>1, <1>2

LEMMA OneReply ==
  ASSUME NEW r \in Requests, NEW s \in Statuses, answers'[r] = <<s>>,
         s = 500 => ran'[r] \/ ~rq'[r].body
  PROVE  Reply(r)'
  <1>1. answers'[r] # <<>> /\ (answers'[r] = <<500>> => s = 500)
    BY Singleton
  <1> QED BY <1>1 DEF Reply

LEMMA NoReply ==
  ASSUME NEW r \in Requests, answers'[r] = <<>>, InProgress(r)' \/ gone'[r]
  PROVE  Reply(r)'
  <1>1. answers'[r] # <<500>>
    BY Singleton
  <1> QED BY <1>1 DEF Reply

LEMMA StoreKept ==
  ASSUME LimiterTypeOK, Earned, UNCHANGED store
  PROVE  LimiterTypeOK' /\ Earned'
  BY DEF store, LimiterTypeOK, Earned, Burst, ExpiresIn

LEMMA CSRFStep ==
  ASSUME PInv, Record, NEW r \in Requests, CSRF(r)
  PROVE  PInv'
  <1>1. pc[r] = "csrf" /\ InProgress(r) /\ UNCHANGED <<store, keycloak, rq, rpt, ran>>
    BY DEF CSRF, InProgress
  <1>2. /\ Typed' /\ OthersKept(r) /\ answers'[r] = answers[r]
        /\ \/ pc'[r] = "limit"
           \/ /\ pc'[r] = "error"
              /\ fault'[r] \in Raised /\ ErrorStatus(fault'[r]) # 500
    <2>1. CASE (rq[r].unsafe => rq[r].csrf) /\ Goto(r, "limit")
      BY <1>1, <2>1, GotoFacts, Stepping DEF Labels
    <2>2. CASE rq[r].unsafe /\ ~rq[r].csrf /\ \E s \in {400, 403} : Raise(r, HTTPError(s))
      <3>1. PICK s \in {400, 403} : Raise(r, HTTPError(s))
        BY <2>2
      <3>2. HTTPError(s) \in Raised
        BY DEF Raised
      <3>3. ErrorStatus(HTTPError(s)) # 500
        BY <3>2, RaisedFacts DEF HTTPError
      <3> QED BY <1>1, <2>2, <3>1, <3>2, <3>3, RaiseFacts, Stepping
    <2> QED BY <2>1, <2>2 DEF CSRF
  <1>3. Journey(r)' /\ Reply(r)'
    BY <1>1, <1>2, Stepping DEF Journey, Reply, InProgress, Cleared
  <1> QED BY <1>1, <1>2, <1>3, Served, Stepping, StoreKept DEF PInv, TypeOK

LEMMA LimitStep ==
  ASSUME PInv, Record, NEW r \in Requests, DefaultRateLimit(r)
  PROVE  PInv'
  <1>1. pc[r] = "limit" /\ InProgress(r) /\ UNCHANGED <<keycloak, rq, rpt, ran>>
    BY DEF DefaultRateLimit, InProgress
  <1>2. LimiterTypeOK' /\ Earned'
    <2>1. rq[r].from \in Addresses
      BY <1>1, Stepping, InputsOK DEF Input
    <2> QED BY <1>1, <2>1, AllowFacts, Stepping DEF DefaultRateLimit
  <1>3. /\ Typed' /\ OthersKept(r)
        /\ \/ /\ pc'[r] = IF rq[r].auth THEN "validate" ELSE "handle"
              /\ answers'[r] = answers[r]
           \/ pc'[r] = "idle" /\ answers'[r] = <<429>>
           \/ pc'[r] = "error" /\ answers'[r] = <<>> /\ WriteFailed(r)'
    <2>1. CASE Goto(r, IF rq[r].auth THEN "validate" ELSE "handle")
      BY <1>1, <2>1, GotoFacts, Stepping DEF Labels
    <2>2. CASE Write(r, 429)
      BY <1>1, <2>2, WriteFacts, Stepping DEF Statuses
    <2> QED BY <2>1, <2>2 DEF DefaultRateLimit
  <1>4. Journey(r)' /\ Reply(r)'
    <2>1. Journey(r)'
      BY <1>1, <1>3, Stepping DEF Journey, InProgress, Cleared, WriteFailed
    <2>2. Reply(r)'
      BY <1>1, <1>3, Stepping DEF Journey, Reply, InProgress, Statuses, WriteFailed
    <2> QED BY <2>1, <2>2
  <1> QED BY <1>1, <1>2, <1>3, <1>4, Served DEF PInv, TypeOK

(* The three layers that ask Keycloak: while the request is in progress what *)
(* Keycloak says now is among what has been seen.                            *)
LEMMA ValidateStep ==
  ASSUME PInv, Record, NEW r \in Requests, ValidateToken(r)
  PROVE  PInv'
  <1>1. /\ pc[r] = "validate" /\ InProgress(r) /\ rq[r].auth
        /\ UNCHANGED <<store, keycloak, rq, rpt, ran>>
    BY Stepping DEF ValidateToken, InProgress, Journey
  <1>2. Facts(rq[r]) \subseteq seen[r]
    BY <1>1, Stepping DEF Journey
  <1>3. /\ Typed' /\ OthersKept(r)
        /\ \/ pc'[r] = "decode" /\ answers'[r] = answers[r] /\ "live" \in seen[r]
           \/ pc'[r] = "idle" /\ answers'[r] = <<401>>
           \/ pc'[r] = "error" /\ answers'[r] = <<>> /\ WriteFailed(r)'
    <2>1. CASE rq[r].bearer \in live /\ Goto(r, "decode")
      BY <1>1, <1>2, <2>1, GotoFacts, Stepping, FactsSay DEF Labels
    <2>2. CASE Write(r, 401)
      BY <1>1, <2>2, WriteFacts, Stepping DEF Statuses
    <2> QED BY <2>1, <2>2 DEF ValidateToken
  <1>4. Journey(r)' /\ Reply(r)'
    <2>1. Journey(r)'
      BY <1>1, <1>3, Stepping DEF Journey, InProgress, Cleared, WriteFailed
    <2>2. Reply(r)'
      BY <1>1, <1>3, Stepping DEF Journey, Reply, InProgress, Statuses, WriteFailed
    <2> QED BY <2>1, <2>2
  <1> QED BY <1>1, <1>3, <1>4, Served, Stepping, StoreKept DEF PInv, TypeOK

LEMMA DecodeStep ==
  ASSUME PInv, Record, NEW r \in Requests, DecodeAccessToken(r)
  PROVE  PInv'
  <1>1. /\ pc[r] = "decode" /\ InProgress(r) /\ rq[r].auth /\ "live" \in seen[r]
        /\ UNCHANGED <<store, keycloak, rq, rpt, ran>>
    BY Stepping DEF DecodeAccessToken, InProgress, Journey
  <1>2. /\ Typed' /\ OthersKept(r)
        /\ \/ /\ pc'[r] = IF rq[r].perm = None THEN "handle" ELSE "exchange"
              /\ answers'[r] = answers[r]
           \/ pc'[r] = "idle" /\ answers'[r] = <<401>>
           \/ pc'[r] = "error" /\ answers'[r] = <<>> /\ WriteFailed(r)'
    <2>1. CASE Goto(r, IF rq[r].perm = None THEN "handle" ELSE "exchange")
      BY <1>1, <2>1, GotoFacts, Stepping DEF Labels
    <2>2. CASE Write(r, 401)
      BY <1>1, <2>2, WriteFacts, Stepping DEF Statuses
    <2> QED BY <2>1, <2>2 DEF DecodeAccessToken
  <1>3. Journey(r)' /\ Reply(r)'
    <2>1. Journey(r)'
      BY <1>1, <1>2, Stepping DEF Journey, InProgress, Cleared, WriteFailed
    <2>2. Reply(r)'
      BY <1>1, <1>2, Stepping DEF Journey, Reply, InProgress, Statuses, WriteFailed
    <2> QED BY <2>1, <2>2
  <1> QED BY <1>1, <1>2, <1>3, Served, Stepping, StoreKept DEF PInv, TypeOK

LEMMA ExchangeStep ==
  ASSUME PInv, Record, NEW r \in Requests, GetRequestingPartyToken(r)
  PROVE  PInv'
  <1> DEFINE q   == rq[r]
             has == {p \in Permissions : <<q.bearer, p>> \in granted}
  <1>1. /\ pc[r] = "exchange" /\ InProgress(r) /\ q.auth /\ q.perm # None
        /\ "live" \in seen[r]
        /\ UNCHANGED <<store, keycloak, rq, ran>>
    BY Stepping DEF GetRequestingPartyToken, InProgress, Journey
  <1>2. Facts(q) \subseteq seen[r] /\ q.perm \in Permissions
    BY <1>1, Stepping, InputsOK DEF Journey, Input
  <1>3. rpt \in [Requests -> SUBSET Permissions]
    BY DEF PInv, TypeOK
  <1>4. /\ Typed' /\ OthersKept(r)
        /\ rpt' \in [Requests -> SUBSET Permissions]
        /\ \A s \in Requests \ {r} : rpt'[s] = rpt[s]
        /\ \/ /\ pc'[r] = "check" /\ answers'[r] = answers[r]
              /\ q.perm \in rpt'[r] => "allowed" \in seen[r]
           \/ pc'[r] = "idle" /\ answers'[r] = <<403>>
           \/ pc'[r] = "error" /\ answers'[r] = <<>> /\ WriteFailed(r)'
    <2>1. CASE /\ q.bearer \in live
               /\ \E ps \in SUBSET has : /\ q.perm \in has => q.perm \in ps
                                         /\ rpt' = [rpt EXCEPT ![r] = ps]
               /\ Goto(r, "check")
      <3>1. PICK ps \in SUBSET has : /\ q.perm \in has => q.perm \in ps
                                     /\ rpt' = [rpt EXCEPT ![r] = ps]
        BY <2>1
      <3>2. /\ rpt' \in [Requests -> SUBSET Permissions] /\ rpt'[r] = ps
            /\ \A s \in Requests \ {r} : rpt'[s] = rpt[s]
        BY <1>3, <3>1
      <3>3. q.perm \in ps => Allowed(q)
        BY <1>1, <1>2, <2>1, <3>1 DEF Allowed
      <3>4. q.perm \in rpt'[r] => "allowed" \in seen[r]
        BY <1>1, <1>2, <3>2, <3>3, FactsSay
      <3> QED BY <1>1, <2>1, <3>2, <3>4, GotoFacts, Stepping DEF Labels
    <2>2. CASE Write(r, 403) /\ UNCHANGED rpt
      BY <1>1, <1>3, <2>2, WriteFacts, Stepping DEF Statuses
    <2> QED BY <2>1, <2>2 DEF GetRequestingPartyToken, RPTs
  <1>5. Journey(r)' /\ Reply(r)'
    <2>1. Journey(r)'
      BY <1>1, <1>4, Stepping DEF Journey, InProgress, Cleared, WriteFailed
    <2>2. Reply(r)'
      BY <1>1, <1>4, Stepping DEF Journey, Reply, InProgress, Statuses, WriteFailed
    <2> QED BY <2>1, <2>2
  <1>6. ran' \in [Requests -> BOOLEAN] /\ LimiterTypeOK' /\ Earned'
    BY <1>1, Stepping, StoreKept DEF PInv, TypeOK
  <1> QED BY <1>1, <1>4, <1>5, <1>6, Served

LEMMA CheckStep ==
  ASSUME PInv, Record, NEW r \in Requests, CheckPermissions(r)
  PROVE  PInv'
  <1>1. /\ pc[r] = "check" /\ InProgress(r) /\ rq[r].auth /\ rq[r].perm # None
        /\ "live" \in seen[r]
        /\ rq[r].perm \in rpt[r] => "allowed" \in seen[r]
        /\ UNCHANGED <<store, keycloak, rq, ran>>
    BY Stepping DEF CheckPermissions, InProgress, Journey
  <1>2. /\ rpt' \in [Requests -> SUBSET Permissions]
        /\ \A s \in Requests \ {r} : rpt'[s] = rpt[s]
    BY DEF PInv, TypeOK, CheckPermissions
  <1>3. /\ Typed' /\ OthersKept(r)
        /\ \/ pc'[r] = "handle" /\ answers'[r] = answers[r] /\ "allowed" \in seen[r]
           \/ pc'[r] = "idle" /\ answers'[r] = <<403>>
           \/ pc'[r] = "error" /\ answers'[r] = <<>> /\ WriteFailed(r)'
    <2>1. CASE rq[r].perm \in rpt[r] /\ Goto(r, "handle")
      BY <1>1, <2>1, GotoFacts, Stepping DEF Labels
    <2>2. CASE Write(r, 403)
      BY <1>1, <2>2, WriteFacts, Stepping DEF Statuses
    <2> QED BY <2>1, <2>2 DEF CheckPermissions
  <1>4. Journey(r)' /\ Reply(r)'
    <2>1. Journey(r)'
      BY <1>1, <1>3, Stepping DEF Journey, InProgress, Cleared, WriteFailed
    <2>2. Reply(r)'
      <3>1. CASE answers'[r] = <<>>
        BY <1>1, <1>3, <3>1, NoReply, Stepping, Singleton DEF InProgress, WriteFailed
      <3>2. CASE answers'[r] = <<403>>
        BY <3>2, OneReply DEF Statuses
      <3> QED BY <1>1, <1>3, <3>1, <3>2, Stepping
    <2> QED BY <2>1, <2>2
  <1>5. ran' \in [Requests -> BOOLEAN] /\ LimiterTypeOK' /\ Earned'
    BY <1>1, Stepping, StoreKept DEF PInv, TypeOK
  <1> QED BY <1>1, <1>2, <1>3, <1>4, <1>5, Served

LEMMA HandleStep ==
  ASSUME PInv, Record, NEW r \in Requests, Handle(r)
  PROVE  PInv'
  <1>1. /\ pc[r] = "handle" /\ InProgress(r) /\ Cleared(r)
        /\ UNCHANGED <<store, keycloak, rq, rpt>>
    BY Stepping DEF Handle, InProgress, Journey
  <1>2. rq[r].known \in BOOLEAN
    BY <1>1, Stepping, InputsOK DEF Input
  <1>3. /\ ran' \in [Requests -> BOOLEAN]
        /\ \A s \in Requests \ {r} : ran'[s] = ran[s]
    BY <1>2 DEF PInv, TypeOK, Handle
  <1>4. /\ Typed' /\ OthersKept(r)
        /\ \/ /\ pc'[r] = "idle" /\ ran'[r]
              /\ \E s \in {200, 400, 404, 500} : answers'[r] = <<s>>
           \/ pc'[r] = "error" /\ answers'[r] = <<>> /\ WriteFailed(r)'
           \/ /\ pc'[r] = "error" /\ answers'[r] = <<>>
              /\ fault'[r] \in Raised /\ ErrorStatus(fault'[r]) \in {404, 405}
           \/ pc'[r] = "panic" /\ answers'[r] = <<>> /\ ran'[r]
    <2>1. ran'[r] = rq[r].known
      BY <1>1 DEF Handle, PInv, TypeOK
    <2>2. ASSUME NEW s \in {200, 400, 404, 500}, rq[r].known, Write(r, s)
          PROVE  /\ Typed' /\ OthersKept(r)
                 /\ \/ pc'[r] = "idle" /\ ran'[r] /\ answers'[r] = <<s>>
                    \/ pc'[r] = "error" /\ answers'[r] = <<>> /\ WriteFailed(r)'
      <3>1. s \in Statuses
        BY DEF Statuses
      <3> QED BY <1>1, <2>1, <2>2, <3>1, WriteFacts, Stepping
    <2>3. CASE rq[r].known /\ Write(r, 200)
      BY <2>2, <2>3
    <2>4. CASE rq[r].known /\ \E e \in HandlerErrors : Write(r, ErrorStatus(e))
      <3>1. PICK e \in HandlerErrors : Write(r, ErrorStatus(e))
        BY <2>4
      <3> QED BY <2>2, <2>4, <3>1, HandlerFacts
    <2>5. CASE rq[r].known /\ Goto(r, "panic")
      BY <1>1, <2>1, <2>5, GotoFacts, Stepping DEF Labels
    <2>6. CASE ~rq[r].known /\ \E s \in {404, 405} : Raise(r, HTTPError(s))
      <3>1. PICK s \in {404, 405} : Raise(r, HTTPError(s))
        BY <2>6
      <3>2. HTTPError(s) \in Raised
        BY DEF Raised
      <3>3. ErrorStatus(HTTPError(s)) \in {404, 405}
        BY DEF HTTPError, ErrorStatus, processError, FromHTTPError, WrapError,
               NewAppError, HTTPStatus
      <3> QED BY <1>1, <3>1, <3>2, <3>3, RaiseFacts, Stepping
    <2> QED BY <2>3, <2>4, <2>5, <2>6 DEF Handle
  <1>5. Cleared(r)'
    BY <1>1, Stepping DEF Cleared
  <1>6. Journey(r)'
    BY <1>1, <1>4, <1>5, Stepping DEF Journey, InProgress, WriteFailed
  <1>7. Reply(r)'
    BY <1>4, OneReply, NoReply DEF InProgress, Statuses
  <1> QED BY <1>1, <1>3, <1>4, <1>6, <1>7, Served, Stepping, StoreKept DEF PInv, TypeOK

(* The ways out. *)
LEMMA ErrorStep ==
  ASSUME PInv, Record, NEW r \in Requests, ErrorMiddleware(r)
  PROVE  PInv'
  <1> DEFINE status == ErrorStatus(fault[r])
  <1>1. /\ pc[r] = "error" /\ InProgress(r) /\ fault[r] \in Raised
        /\ status = 500 => gone[r]
        /\ UNCHANGED <<store, keycloak, rq, rpt, ran>>
        /\ WriteLast(r, status)
    BY Stepping DEF ErrorMiddleware, InProgress, Journey
  <1>2. status \in {400, 403, 404, 405, 500}
    BY <1>1, RaisedFacts
  <1> HIDE DEF status
  <1>3. /\ Typed' /\ OthersKept(r) /\ pc'[r] = "idle"
        /\ (~gone[r] /\ answers'[r] = <<status>>) \/ (answers'[r] = <<>> /\ gone'[r])
    <2>1. status \in Statuses
      BY <1>2 DEF Statuses
    <2> QED BY <1>1, <2>1, WriteLastFacts, Stepping
  <1>4. Journey(r)'
    BY <1>1, <1>3, Stepping DEF Journey, InProgress, Cleared
  <1>5. Reply(r)'
    <2>1. CASE answers'[r] = <<status>> /\ status \in {400, 403, 404, 405}
      BY <1>2, <2>1, OneReply DEF Statuses
    <2>2. CASE answers'[r] = <<>> /\ gone'[r]
      BY <2>2, NoReply
    <2> QED BY <1>1, <1>2, <1>3, <2>1, <2>2
  <1> QED BY <1>1, <1>3, <1>4, <1>5, Served, Stepping, StoreKept DEF PInv, TypeOK

LEMMA RecoveryStep ==
  ASSUME PInv, Record, NEW r \in Requests, RecoveryMiddleware(r)
  PROVE  PInv'
  <1>1. /\ pc[r] = "panic" /\ InProgress(r) /\ ran[r]
        /\ UNCHANGED <<store, keycloak, rq, rpt, ran>>
        /\ WriteLast(r, 500)
    BY Stepping DEF RecoveryMiddleware, InProgress, Journey, ErrorStatus, processError,
       WrapError, NewAppError, HTTPStatus
  <1>2. /\ Typed' /\ OthersKept(r) /\ pc'[r] = "idle"
        /\ answers'[r] = <<500>> \/ (answers'[r] = <<>> /\ gone'[r])
    BY <1>1, WriteLastFacts, Stepping DEF Statuses
  <1>3. Journey(r)'
    BY <1>1, <1>2, Stepping DEF Journey, InProgress, Cleared
  <1>4. Reply(r)'
    BY <1>1, <1>2, OneReply, NoReply DEF Statuses
  <1> QED BY <1>1, <1>2, <1>3, <1>4, Served, Stepping, StoreKept DEF PInv, TypeOK

(* A new request: nothing of the one before it is left. *)
LEMMA LogBodyStep ==
  ASSUME PInv, Record, NEW r \in Requests, LogBody(r)
  PROVE  PInv'
  <1>1. PICK q \in Inputs :
          /\ rq' = [rq EXCEPT ![r] = q]
          /\ \/ pc' = [pc EXCEPT ![r] = "csrf"] /\ answers' = [answers EXCEPT ![r] = <<>>]
             \/ ~q.body /\ UNCHANGED pc /\ answers' = [answers EXCEPT ![r] = <<500>>]
    BY DEF LogBody
  <1>2. /\ pc[r] = "idle"
        /\ ran' = [ran EXCEPT ![r] = FALSE]
        /\ gone' = [gone EXCEPT ![r] = FALSE]
        /\ UNCHANGED <<store, keycloak, rpt, fault>>
    BY DEF LogBody
  <1>3. TypeOK
    BY DEF PInv
  <1>4. answers' \in [Requests -> Seq(Statuses)] /\ pc' \in [Requests -> Labels]
    <2>1. <<>> \in Seq(Statuses) /\ <<500>> \in Seq(Statuses)
      BY DEF Statuses
    <2>2. pc \in [Requests -> Labels] /\ answers \in [Requests -> Seq(Statuses)]
      BY <1>3 DEF TypeOK, Statuses, Labels
    <2>3. pc' \in [Requests -> Labels]
      BY <1>1, <2>2 DEF Labels
    <2> QED BY <1>1, <2>1, <2>2, <2>3
  <1>5. rq' \in [Requests -> Inputs \cup {NoInput}]
    BY <1>1, <1>3 DEF TypeOK
  <1>6. LimiterTypeOK' /\ Earned'
    BY <1>2, <1>3, StoreKept DEF PInv, TypeOK
  <1>7. TypeOK'
    BY <1>2, <1>3, <1>4, <1>5, <1>6, RecordTyped DEF TypeOK, keycloak, Labels, Statuses
  <1>8. rq'[r] = q /\ ran'[r] = FALSE /\ gone'[r] = FALSE
    BY <1>1, <1>2, <1>3 DEF TypeOK
  <1>9. \/ pc'[r] = "csrf" /\ answers'[r] = <<>>
        \/ pc'[r] = "idle" /\ answers'[r] = <<500>> /\ ~q.body
    BY <1>1, <1>2, <1>3 DEF TypeOK
  <1>10. Journey(r)'
    BY <1>3, <1>8, <1>9, Recorded DEF Journey, InProgress, Cleared
  <1>11. Reply(r)'
    BY <1>8, <1>9, OneReply, NoReply DEF InProgress, Statuses
  <1>12. ASSUME NEW s \in Requests, s # r PROVE Journey(s)' /\ Reply(s)'
    <2>1. Kept(s)
      BY <1>1, <1>2, <1>3, <1>12 DEF Kept, TypeOK
    <2> QED BY <2>1, <1>3, KeptIntact DEF PInv
  <1> QED BY <1>6, <1>7, <1>10, <1>11, <1>12 DEF PInv

LEMMA ElsewhereSteps ==
  ASSUME PInv, Record, EndSession \/ Regrant \/ Time
  PROVE  PInv'
  <1>1. TypeOK /\ LimiterTypeOK /\ Earned
    BY DEF PInv, TypeOK
  <1>2. CASE EndSession
    BY <1>1, <1>2, Elsewhere, StoreKept DEF EndSession, TypeOK
  <1>3. CASE Regrant
    <2>1. PICK t \in Tokens, p \in Permissions :
            granted' = IF <<t, p>> \in granted THEN granted \ {<<t, p>>}
                       ELSE granted \cup {<<t, p>>}
      BY <1>3 DEF Regrant
    <2>2. granted' \subseteq Tokens \X Permissions
      BY <1>1, <2>1 DEF TypeOK
    <2> QED BY <1>1, <1>3, <2>2, Elsewhere, StoreKept DEF Regrant, TypeOK
  <1>4. CASE Time
    BY <1>1, <1>4, Elsewhere, TickFacts DEF Time, TypeOK, keycloak
  <1> QED BY <1>2, <1>3, <1>4

-----------------------------------------------------------------------------

LEMMA StepKeeps == PInv /\ [Next]_vars => PInv'
  <1> SUFFICES ASSUME PInv, [Next]_vars PROVE PInv'
    OBVIOUS
  <1>1. ASSUME NEW r \in Requests, LogBody(r), Record PROVE PInv'
    BY <1>1, LogBodyStep
  <1>2. ASSUME NEW r \in Requests, Step(r), Record PROVE PInv'
    BY <1>2, CSRFStep, LimitStep, ValidateStep, DecodeStep, ExchangeStep, CheckStep,
       HandleStep, ErrorStep, RecoveryStep DEF Step
  <1>3. CASE (EndSession \/ Regrant \/ Time) /\ Record
    BY <1>3, ElsewhereSteps
  <1>4. CASE UNCHANGED vars
    <2>1. UNCHANGED <<store, keycloak, pc, rq, rpt, fault, ran, answers, gone, seen>>
      BY <1>4 DEF vars
    <2>2. TypeOK'
      BY <2>1 DEF store, keycloak, PInv, TypeOK, LimiterTypeOK, Burst, ExpiresIn
    <2>3. Earned'
      BY <2>1 DEF store, PInv, Earned, Burst
    <2>4. ASSUME NEW r \in Requests PROVE Journey(r)' /\ Reply(r)'
      <3>1. Facts(rq[r])' = Facts(rq[r])
        BY <2>1 DEF keycloak, Facts, Allowed
      <3>2. Journey(r)'
        BY <2>1, <3>1 DEF PInv, Journey, InProgress, Cleared
      <3>3. Reply(r)'
        BY <2>1 DEF PInv, Reply, InProgress
      <3> QED BY <3>2, <3>3
    <2> QED BY <2>2, <2>3, <2>4 DEF PInv
  <1> QED BY <1>1, <1>2, <1>3, <1>4 DEF Next

(* PInv is an inductive invariant of RequestPipeline: the layer a request    *)
(* has reached tells which of Keycloak's answers it has met.                 *)
THEOREM Invariance == Spec => []PInv
  <1>1. Init => PInv
    BY InitInv
  <1>2. PInv /\ [Next]_vars => PInv'
    BY StepKeeps
  <1> QED BY <1>1, <1>2, PTL DEF Spec

(* Types: no address ever has more than the burst, config.RateLimit, to      *)
(* spend, and the store's clocks stay within its expiry.                     *)
THEOREM TypeCorrect == Spec => []TypeOK
  <1>1. PInv => TypeOK
    BY DEF PInv
  <1> QED BY <1>1, Invariance, PTL

(* A client that stays gets exactly one answer, whichever middleware,        *)
(* handler, error or panic it comes from.                                    *)
THEOREM AnswersOnce == Spec => []AnsweredOnce
  <1>1. PInv => AnsweredOnce
    <2> SUFFICES ASSUME PInv, NEW r \in Requests
                 PROVE  /\ Len(answers[r]) <= 1
                        /\ ~InProgress(r) /\ rq[r] \in Inputs /\ ~gone[r] => answers[r] # <<>>
      BY DEF AnsweredOnce
    <2>1. Reply(r)
      BY DEF PInv
    <2>2. CASE answers[r] = <<>>
      <3>1. Len(answers[r]) = 0
        BY <2>2
      <3> QED BY <2>1, <3>1 DEF Reply
    <2>3. ASSUME NEW s \in Statuses, answers[r] = <<s>> PROVE Len(answers[r]) <= 1
      BY <2>3, Singleton
    <2>4. answers[r] # <<>> => Len(answers[r]) <= 1
      BY <2>1, <2>3 DEF Reply
    <2>5. ~InProgress(r) /\ rq[r] \in Inputs /\ ~gone[r] => answers[r] # <<>>
      BY <2>1 DEF Reply
    <2> QED BY <2>2, <2>4, <2>5
  <1> QED BY <1>1, Invariance, PTL

(* AuthMiddleware and RequirePermission let a handler run only for a session *)
(* and a permission that held while the request was in progress.             *)
THEOREM AuthorisedOnly == Spec => []OnlyAuthorisedRun
  <1>1. PInv => OnlyAuthorisedRun
    BY DEF PInv, Journey, Cleared, OnlyAuthorisedRun
  <1> QED BY <1>1, Invariance, PTL

(* No 500 for what the layers before the handlers refuse.                    *)
THEOREM ServerErrors == Spec => []ServerErrorsFromHandlers
  <1>1. PInv => ServerErrorsFromHandlers
    BY DEF PInv, Reply, ServerErrorsFromHandlers
  <1> QED BY <1>1, Invariance, PTL

(* The rate limiter's store forgets full buckets only: an address it is old  *)
(* enough to forget has had the time to fill its bucket.                     *)
THEOREM ForgetsFull == Spec => ForgottenOnlyWhenFull
  <1>1. PInv /\ [Next]_vars => [\A a \in visitors \ visitors' : tokens[a] = Burst]_vars
    <2> SUFFICES ASSUME PInv, Next PROVE \A a \in visitors \ visitors' : tokens[a] = Burst
      OBVIOUS
    <2>1. LimiterTypeOK /\ Earned
      BY DEF PInv, TypeOK
    <2>2. CASE UNCHANGED visitors
      BY <2>2
    <2>3. ASSUME NEW r \in Requests, DefaultRateLimit(r), Record
          PROVE  \A a \in visitors \ visitors' : tokens[a] = Burst
      <3>1. rq[r].from \in Addresses
        BY <2>3, Stepping, InputsOK DEF Input, DefaultRateLimit, InProgress
      <3> QED BY <2>1, <2>3, <3>1, AllowFacts DEF DefaultRateLimit
    <2>4. CASE Time
      BY <2>1, <2>4, TickFacts DEF Time
    <2> QED BY <2>2, <2>3, <2>4 DEF Next, Step, LogBody, CSRF, ValidateToken,
               DecodeAccessToken, GetRequestingPartyToken, CheckPermissions, Handle,
               ErrorMiddleware, RecoveryMiddleware, EndSession, Regrant, store
  <1> QED BY <1>1, Invariance, PTL DEF Spec, ForgottenOnlyWhenFull
============================================================================
