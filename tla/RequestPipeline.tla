--------------------------- MODULE RequestPipeline ---------------------------
(***************************************************************************)
(* What a request passes on its way to a handler, and what its answer or    *)
(* its error passes on the way back: LogBody, Recovery, ErrorMiddleware,    *)
(* CSRF, the rate limiter, AuthMiddleware and RequirePermission.  The last  *)
(* two ask Keycloak, where sessions end and permissions change meanwhile.   *)
(*                                                                         *)
(* Abstractions.  Headers and cookies are what the middlewares make of      *)
(* them: the csrf token matches or does not, the bearer is a token or       *)
(* None.  A handler's claims are those AuthMiddleware has stored.  Of a call *)
(* of Keycloak the model keeps what it is answered or that it fails, which  *)
(* any may at any time; one that never returns is a request that takes no   *)
(* further step.  Security headers, logging and Sentry leave the request    *)
(* alone; a preflight request, which CORS answers itself, gets no further.  *)
(***************************************************************************)
EXTENDS RateLimiter, Errors, Sequences, FiniteSets

CONSTANTS
  Requests,      \* goroutines of the HTTP server: each serves one after another
  Tokens,        \* access tokens Keycloak has issued
  Permissions,   \* resource#scope
  None,
  Inputs         \* the requests clients may send

Input == [known  : BOOLEAN,                \* the router has the route
          body   : BOOLEAN,                \* its body arrives whole
          unsafe : BOOLEAN,                \* POST, PUT or DELETE
          csrf   : BOOLEAN,                \* header and cookie match
          auth   : BOOLEAN,                \* the route has AuthMiddleware
          perm   : Permissions \cup {None},  \* what RequirePermission asks for
          bearer : Tokens \cup {None},
          from   : Addresses]

ASSUME NoneNew  == None \notin Tokens \cup Permissions
ASSUME InputsOK == /\ Inputs \subseteq Input
                   /\ \A q \in Inputs : q.perm # None => q.auth

VARIABLES
  live, granted,              \* Keycloak: sessions, permissions
  pc, rq,                     \* per request: where it is, what was sent
  rpt,                        \* per request: permissions listed in its RPT
  fault,                      \* per request: the error on its way up
  ran,                        \* per request: its handler has run
  answers, gone,              \* per request: answers delivered; client hung up
  seen                        \* history: what was so while it was in progress

keycloak == <<live, granted>>
vars == <<store, keycloak, pc, rq, rpt, fault, ran, answers, gone, seen>>

InProgress(r) == pc[r] # "idle"

NoInput == [known |-> FALSE]

Init ==
  /\ LimiterInit
  /\ live = Tokens /\ granted \in SUBSET (Tokens \X Permissions)
  /\ pc  = [r \in Requests |-> "idle"]
  /\ rq  = [r \in Requests |-> NoInput]
  /\ rpt = [r \in Requests |-> {}]
  /\ fault = [r \in Requests |-> NoError]
  /\ ran = [r \in Requests |-> FALSE]
  /\ answers = [r \in Requests |-> <<>>]
  /\ gone = [r \in Requests |-> FALSE]
  /\ seen = [r \in Requests |-> {}]

(* What Keycloak says of a request's token and permission now. *)
Allowed(q) == q.bearer \in live /\ (q.perm # None => <<q.bearer, q.perm>> \in granted)

Facts(q) == IF ~q.auth THEN {} ELSE
              (IF q.bearer \in live THEN {"live"} ELSE {}) \cup
              (IF Allowed(q) THEN {"allowed"} ELSE {})

Record ==
  seen' = [r \in Requests |->
             IF ~InProgress(r)' THEN seen[r]
             ELSE (IF InProgress(r) THEN seen[r] ELSE {}) \cup Facts(rq[r])']

-----------------------------------------------------------------------------
(* Answers and errors. *)

Goto(r, label) == pc' = [pc EXCEPT ![r] = label] /\ UNCHANGED <<fault, answers, gone>>

(* A layer returns an error and writes nothing. *)
Raise(r, e) ==
  /\ pc' = [pc EXCEPT ![r] = "error"]
  /\ fault' = [fault EXCEPT ![r] = e]
  /\ UNCHANGED <<answers, gone>>

(* c.JSON: the answer is written, or the client has hung up; the write's     *)
(* error is then what the layer returns.                                     *)
Write(r, status) ==
  \/ /\ ~gone[r]
     /\ answers' = [answers EXCEPT ![r] = Append(@, status)]
     /\ pc' = [pc EXCEPT ![r] = "idle"]
     /\ UNCHANGED <<fault, gone>>
  \/ /\ gone' = [gone EXCEPT ![r] = TRUE]
     /\ pc' = [pc EXCEPT ![r] = "error"]
     /\ \E type \in {"words", "other"} : fault' = [fault EXCEPT ![r] = Plain(type)]
     /\ UNCHANGED answers

(* The last write of a request: nobody handles its error. *)
WriteLast(r, status) ==
  /\ \/ ~gone[r] /\ answers' = [answers EXCEPT ![r] = Append(@, status)] /\ UNCHANGED gone
     \/ gone' = [gone EXCEPT ![r] = TRUE] /\ UNCHANGED answers
  /\ pc' = [pc EXCEPT ![r] = "idle"]
  /\ fault' = [fault EXCEPT ![r] = NoError]

(* Swagger's and favicon's paths leave the answer to echo: the same status.  *)
ErrorMiddleware(r) ==
  /\ pc[r] = "error"
  /\ WriteLast(r, ErrorStatus(fault[r]))
  /\ UNCHANGED <<store, keycloak, rq, rpt, ran>>

RecoveryMiddleware(r) ==
  /\ pc[r] = "panic"
  /\ WriteLast(r, ErrorStatus(WrapError("internal")))
  /\ UNCHANGED <<store, keycloak, rq, rpt, ran>>

-----------------------------------------------------------------------------
(* The way in. *)

(* LogBody reads the body; it is outside ErrorMiddleware, so that echo's own *)
(* handler answers its error, 500 for one it does not know.                  *)
LogBody(r) ==
  /\ pc[r] = "idle"
  /\ \E q \in Inputs :
       /\ rq' = [rq EXCEPT ![r] = q]
       /\ \/ /\ q.body
             /\ pc' = [pc EXCEPT ![r] = "csrf"] /\ answers' = [answers EXCEPT ![r] = <<>>]
          \/ /\ ~q.body
             /\ UNCHANGED pc /\ answers' = [answers EXCEPT ![r] = <<500>>]
  /\ ran' = [ran EXCEPT ![r] = FALSE]
  /\ gone' = [gone EXCEPT ![r] = FALSE]
  /\ UNCHANGED <<store, keycloak, rpt, fault>>

(* echo's CSRF: 400 for a missing token, 403 for another one. *)
CSRF(r) ==
  /\ pc[r] = "csrf"
  /\ \/ (rq[r].unsafe => rq[r].csrf) /\ Goto(r, "limit")
     \/ rq[r].unsafe /\ ~rq[r].csrf /\ \E s \in {400, 403} : Raise(r, HTTPError(s))
  /\ UNCHANGED <<store, keycloak, rq, rpt, ran>>

DefaultRateLimit(r) ==
  /\ pc[r] = "limit"
  /\ \/ Allow(rq[r].from, TRUE) /\ Goto(r, IF rq[r].auth THEN "validate" ELSE "handle")
     \/ Allow(rq[r].from, FALSE) /\ Write(r, 429)
  /\ UNCHANGED <<keycloak, rq, rpt, ran>>

(* AuthMiddleware: the header, the introspection of its token, its Active.   *)
ValidateToken(r) ==
  /\ pc[r] = "validate"
  /\ \/ rq[r].bearer \in live /\ Goto(r, "decode")
     \/ Write(r, 401)
  /\ UNCHANGED <<store, keycloak, rq, rpt, ran>>

(* The signature and the times of an active token are checked against        *)
(* Keycloak's keys, which gocloak may have cached, and the clock here: that  *)
(* fails without the keys, after a rotation, or where the clocks differ.     *)
DecodeAccessToken(r) ==
  /\ pc[r] = "decode"
  /\ \/ Goto(r, IF rq[r].perm = None THEN "handle" ELSE "exchange")
     \/ Write(r, 401)
  /\ UNCHANGED <<store, keycloak, rq, rpt, ran>>

(* KeycloakAuth.GetRequestingPartyToken: the permissions an RPT may list are *)
(* granted ones, and the one asked for is among them if it is granted.       *)
RPTs(q) ==
  LET has == {p \in Permissions : <<q.bearer, p>> \in granted}
  IN IF q.bearer \in live
     THEN {ps \in SUBSET has : q.perm \in has => q.perm \in ps} ELSE {}

(* RequirePermission: the token is exchanged for an RPT.                     *)
GetRequestingPartyToken(r) ==
  /\ pc[r] = "exchange"
  /\ \/ /\ \E ps \in RPTs(rq[r]) : rpt' = [rpt EXCEPT ![r] = ps]
        /\ Goto(r, "check")
     \/ Write(r, 403) /\ UNCHANGED rpt
  /\ UNCHANGED <<store, keycloak, rq, ran>>

(* Mutant: an RPT of any content is enough. *)
AcceptAnyRPT(r) ==
  /\ pc[r] = "check"
  /\ \/ Goto(r, "handle")
     \/ Write(r, 403)
  /\ rpt' = [rpt EXCEPT ![r] = {}]
  /\ UNCHANGED <<store, keycloak, rq, ran>>

(* The RPT is decoded, which fails as above, and searched. *)
CheckPermissions(r) ==
  /\ pc[r] = "check"
  /\ \/ rq[r].perm \in rpt[r] /\ Goto(r, "handle")
     \/ Write(r, 403)
  /\ rpt' = [rpt EXCEPT ![r] = {}]
  /\ UNCHANGED <<store, keycloak, rq, ran>>

(* Mutant: the error is answered and returned as well. *)
HandleAndReturn(r) ==
  /\ pc[r] = "handle"
  /\ ran' = [ran EXCEPT ![r] = TRUE]
  /\ answers' = [answers EXCEPT ![r] = Append(@, 500)]
  /\ pc' = [pc EXCEPT ![r] = "error"]
  /\ fault' = [fault EXCEPT ![r] = Plain("other")]
  /\ UNCHANGED <<store, keycloak, rq, rpt, gone>>

(* What handlers hand to HandleError: errors of their own and of the         *)
(* services, and what a RestClient returns.                                  *)
HandlerErrors ==
  {WrapError(t) : t \in {"validation", "not_found", "database", "internal"}}
  \cup {Plain("words"), Plain("other")}

(* The handler answers a success or its own error, or panics; a request      *)
(* without a route, or with another method's, gets echo's error.             *)
Handle(r) ==
  /\ pc[r] = "handle"
  /\ ran' = [ran EXCEPT ![r] = rq[r].known]
  /\ \/ rq[r].known /\ Write(r, 200)
     \/ rq[r].known /\ \E e \in HandlerErrors : Write(r, ErrorStatus(e))
     \/ rq[r].known /\ Goto(r, "panic")
     \/ ~rq[r].known /\ \E s \in {404, 405} : Raise(r, HTTPError(s))
  /\ UNCHANGED <<store, keycloak, rq, rpt>>

-----------------------------------------------------------------------------
(* Keycloak: sessions end, permissions are given and taken.                  *)

EndSession ==
  /\ \E t \in live : live' = live \ {t}
  /\ UNCHANGED <<store, granted, pc, rq, rpt, fault, ran, answers, gone>>

Regrant ==
  /\ \E t \in Tokens, p \in Permissions :
       granted' = IF <<t, p>> \in granted THEN granted \ {<<t, p>>}
                  ELSE granted \cup {<<t, p>>}
  /\ UNCHANGED <<store, live, pc, rq, rpt, fault, ran, answers, gone>>

Time == Tick /\ UNCHANGED <<keycloak, pc, rq, rpt, fault, ran, answers, gone>>

Step(r) ==
  \/ CSRF(r) \/ DefaultRateLimit(r) \/ ValidateToken(r) \/ DecodeAccessToken(r)
  \/ GetRequestingPartyToken(r) \/ CheckPermissions(r) \/ Handle(r)
  \/ ErrorMiddleware(r) \/ RecoveryMiddleware(r)

Next ==
  \/ \E r \in Requests : (LogBody(r) /\ Record) \/ (Step(r) /\ Record)
  \/ (EndSession /\ Record) \/ (Regrant /\ Record) \/ (Time /\ Record)

Spec == Init /\ [][Next]_vars

-----------------------------------------------------------------------------
(* Properties. *)

(* Types; no bucket holds more than the burst. *)
TypeOK ==
  /\ LimiterTypeOK
  /\ live \subseteq Tokens
  /\ granted \subseteq Tokens \X Permissions
  /\ pc \in [Requests -> {"idle", "csrf", "limit", "validate", "decode", "exchange",
                          "check", "handle", "error", "panic"}]
  /\ rq \in [Requests -> Inputs \cup {NoInput}]
  /\ rpt \in [Requests -> SUBSET Permissions]
  /\ fault \in [Requests -> Error \cup {NoError}]
  /\ ran \in [Requests -> BOOLEAN]
  /\ answers \in [Requests -> Seq({200, 400, 401, 403, 404, 405, 429, 500})]
  /\ gone \in [Requests -> BOOLEAN]
  /\ seen \in [Requests -> SUBSET {"live", "allowed"}]

(* Whatever layer refuses, fails or panics, a client that stays gets exactly *)
(* one answer: each layer either writes or returns an error, never both.     *)
AnsweredOnce ==
  \A r \in Requests :
    /\ Len(answers[r]) <= 1
    /\ ~InProgress(r) /\ rq[r] \in Inputs /\ ~gone[r] => answers[r] # <<>>

(* A handler behind AuthMiddleware only runs if its token was active, and    *)
(* one behind RequirePermission only if the permission was granted to a      *)
(* live session, at some time while the request was in progress: what was    *)
(* revoked before it came does not count.                                    *)
OnlyAuthorisedRun ==
  \A r \in Requests : ran[r] /\ rq[r].auth =>
    /\ "live" \in seen[r]
    /\ rq[r].perm # None => "allowed" \in seen[r]

(* The server takes the blame only for what a handler did, or for a body it  *)
(* could not read: what the layers before it refuse, echo's errors included, *)
(* keeps its class on the way back through the error layers.                 *)
ServerErrorsFromHandlers ==
  \A r \in Requests : answers[r] = <<500>> => ran[r] \/ ~rq[r].body

(* The store forgets an address only when its bucket is full again, so that  *)
(* being forgotten never gains a client a request.                           *)
ForgottenOnlyWhenFull ==
  [][\A a \in visitors \ visitors' : tokens[a] = Burst]_vars
============================================================================
