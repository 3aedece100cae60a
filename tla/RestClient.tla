------------------------------ MODULE RestClient ------------------------------
(***************************************************************************)
(* How a call reaches another service over HTTP and what becomes of its     *)
(* attempts: resty as ProvideRestClient configures it, with a timeout and   *)
(* retries, and beside it the clients inside gocloak and the AWS SDK, which *)
(* the adapters use as they come.                                           *)
(*                                                                         *)
(* An attempt that the client has given up may still be carried out.  What  *)
(* a service answers is its class: "ok" (2xx), "conflict" (409), "refused"  *)
(* (another 4xx) or "busy" (429 and 5xx); "error" is no answer at all.      *)
(***************************************************************************)
EXTENDS Naturals

CONSTANTS
  Calls,        \* the calls that are ever made; each is made once
  RetryCount,   \* HTTP_CLIENT_RETRY_COUNT
  SdkRetries    \* external: how often the AWS SDK tries again

ASSUME RetriesNat == RetryCount \in Nat /\ SdkRetries \in Nat

Steps == {"login", "userinfo", "create", "clients", "role", "grant", "password",
          "verify", "update", "organization", "fetch", "email"}

(* Mutant: gocloak is given the RestClient's timeout and retries. *)
TimedAll == Steps

(* The requests made with the RestClient: it sets a timeout and retries.     *)
Timed == {"organization", "fetch"}

Attempts(s) == IF s \in Timed THEN RetryCount + 1
               ELSE IF s = "email" THEN SdkRetries + 1 ELSE 1

Answers == {"ok", "conflict", "refused", "busy"}

VARIABLES
  wire,    \* attempts on their way or being served: <<call, step, number>>
  at,      \* per call: the request it is making
  tries,   \* per call: the number of its latest attempt
  reply    \* per call: what that attempt came to, "none" while it waits

transport == <<wire, at, tries, reply>>

Messages == {m \in Calls \X Steps \X Nat : m[3] \in 1 .. Attempts(m[2])}

RestInit ==
  /\ wire = {}
  /\ at    = [k \in Calls |-> "none"]
  /\ tries = [k \in Calls |-> 0]
  /\ reply = [k \in Calls |-> "none"]

Awaits(k) == at[k] # "none" /\ reply[k] = "none"

Awaited(m) == Awaits(m[1]) /\ m[2] = at[m[1]] /\ m[3] = tries[m[1]]

Execute(k, s, n) ==
  /\ wire' = wire \cup {<<k, s, n>>}
  /\ at'    = [at    EXCEPT ![k] = s]
  /\ tries' = [tries EXCEPT ![k] = n]
  /\ reply' = [reply EXCEPT ![k] = "none"]

(* An answer reaches the attempt it is for, if that is still waited for.     *)
Deliver(m, answer) ==
  /\ m \in wire
  /\ wire' = wire \ {m}
  /\ reply' = IF Awaited(m) THEN [reply EXCEPT ![m[1]] = answer] ELSE reply
  /\ UNCHANGED <<at, tries>>

(* An attempt is lost on its way: nobody is told.                            *)
Lose(m) ==
  /\ m \in wire
  /\ wire' = wire \ {m}
  /\ UNCHANGED <<at, tries, reply>>

(* The client waits no longer: its timeout, a broken connection, an answer   *)
(* it cannot read, a context that is done.                                   *)
GiveUp(k) ==
  /\ Awaits(k)
  /\ reply' = [reply EXCEPT ![k] = "error"]
  /\ UNCHANGED <<wire, at, tries>>

(* Mutant: whatever is not 200 is tried again, 201 and 204 included. *)
RetryUnless200(k) == reply[k] \in {"error", "busy", "ok"}

RetryCondition(k) == reply[k] \in {"error", "busy"}

(* Mutant: the retries are counted from one. *)
AgainOnceMore(k) == RetryCondition(k) /\ tries[k] <= Attempts(at[k])

Again(k) == RetryCondition(k) /\ tries[k] < Attempts(at[k])

(* The call has returned: the client waits for none of its attempts.         *)
Close(k) ==
  /\ at'    = [at    EXCEPT ![k] = "none"]
  /\ tries' = [tries EXCEPT ![k] = 0]
  /\ reply' = [reply EXCEPT ![k] = "none"]
  /\ UNCHANGED wire

(* The request has its outcome: the latest answer or error.                  *)
Settled(k) == at[k] # "none" /\ reply[k] # "none" /\ ~Again(k)

RestTypeOK ==
  /\ wire \subseteq Messages
  /\ at \in [Calls -> Steps \cup {"none"}]
  /\ tries \in [Calls -> Nat]
  /\ reply \in [Calls -> Answers \cup {"none", "error"}]
============================================================================
