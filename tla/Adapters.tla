------------------------------- MODULE Adapters -------------------------------
(***************************************************************************)
(* The calls the program makes to other services: every operation of the    *)
(* Keycloak adapter, sending e-mail through SES, and the request of         *)
(* TestRestClient.  Calls run concurrently, against a realm that its        *)
(* administrators change meanwhile.                                         *)
(*                                                                         *)
(* Abstractions.  The realm has one organization and one client of the      *)
(* program's client id, with one role.  A service may refuse any request    *)
(* (the admin token has expired or lacks the right, the payload displeases  *)
(* it).  The callers, future handlers, pass any user of Users.              *)
(***************************************************************************)
EXTENDS RestClient

CONSTANTS
  Users,    \* Keycloak's user ids; CreateUser's answer carries one
  Offered,  \* per call: the operations it may be of
  None

(* AuthService and what the other adapters offer; AddClientRolesToUser alone *)
(* takes several requests.                                                   *)
Ops == (Steps \ {"clients", "role", "grant"}) \cup {"roles"}

ASSUME NoneNew   == None \notin Calls \cup Ops
ASSUME OfferedOK == Offered \in [Calls -> SUBSET Ops]

(* An account attribute is known by the call that last wrote it. *)
Written == {"update", "password"}

VARIABLES
  exists,      \* Keycloak: the users there are
  writer,      \* Keycloak: <<user, attribute>> -> the call whose value it has
  members,     \* Keycloak: the organization's members
  granted,     \* Keycloak: the users that hold the role
  client, role,  \* Keycloak: has the realm the client; the client the role
  state,       \* per call: new, open, ok, failed, panic
  call,        \* per call: its operation and user
  found,       \* per call: did getClients find the client?
  done,        \* history: attempts of a call's last request carried out
  doubt,       \* history: calls with an attempt of unknown outcome
  before       \* history: per call, the calls that had succeeded when it began

realm == <<exists, writer, members, granted, client, role>>
vars == <<transport, realm, state, call, found, done, doubt, before>>

NoCall == [op |-> None, user |-> None]

Init ==
  /\ RestInit
  /\ exists \in SUBSET Users
  /\ writer = [a \in Users \X Written |-> None]
  /\ members \in SUBSET exists /\ granted = {}
  /\ client \in BOOLEAN /\ role \in {client, FALSE}
  /\ state  = [k \in Calls |-> "new"]
  /\ call   = [k \in Calls |-> NoCall]
  /\ found  = [k \in Calls |-> FALSE]
  /\ done   = {}
  /\ doubt  = {}
  /\ before = [k \in Calls |-> {}]

(* The request by which an operation takes effect is its last one.           *)
LastStep(op) == IF op = "roles" THEN "grant" ELSE op

Lookup == {"clients", "role"}

(* A call is in doubt once an attempt of its last request has no answer, or  *)
(* one that does not tell whether it was carried out.                        *)
NoteDoubt(k) ==
  doubt' = IF reply'[k] \in {"error", "busy"} /\ at[k] \notin Lookup
           THEN doubt \cup {k} ELSE doubt

-----------------------------------------------------------------------------
(* The services. *)

(* Can the service do what message m asks for? *)
Possible(m) ==
  LET u == call[m[1]].user
  IN CASE m[2] = "create"       -> u \notin exists
       [] m[2] \in {"update", "password", "verify"} -> u \in exists
       [] m[2] = "role"         -> role
       [] m[2] = "grant"        -> role /\ u \in exists
       [] m[2] = "organization" -> u \in exists \ members
       [] OTHER                 -> TRUE

Clashes(m) ==
  \/ m[2] = "create" /\ call[m[1]].user \in exists
  \/ m[2] = "organization" /\ call[m[1]].user \in members

Change(m) ==
  LET u == call[m[1]].user
  IN /\ exists'  = IF m[2] = "create" THEN exists \cup {u} ELSE exists
     /\ writer'  = CASE m[2] = "create" ->
                          [writer EXCEPT ![<<u, "update">>] = m[1], ![<<u, "password">>] = None]
                     [] m[2] \in Written -> [writer EXCEPT ![<<u, m[2]>>] = m[1]]
                     [] OTHER -> writer
     /\ members' = IF m[2] = "organization" THEN members \cup {u} ELSE members
     /\ granted' = IF m[2] = "grant" THEN granted \cup {u} ELSE granted
     /\ UNCHANGED <<client, role>>

(* A gateway may answer 5xx for a request that was carried out.              *)
CarryOut(m) ==
  /\ Possible(m)
  /\ \E a \in {"ok", "busy"} : Deliver(m, a)
  /\ Change(m)
  /\ done' = IF m[2] \in Lookup THEN done ELSE done \cup {m}
  /\ found' = IF m[2] = "clients" /\ Awaited(m)
              THEN [found EXCEPT ![m[1]] = client] ELSE found
  /\ NoteDoubt(m[1])
  /\ UNCHANGED <<state, call, before>>

TurnDown(m) ==
  /\ \E a \in {"refused", "busy"} \cup (IF Clashes(m) THEN {"conflict"} ELSE {}) :
       Deliver(m, a)
  /\ NoteDoubt(m[1])
  /\ UNCHANGED <<realm, state, call, found, done, before>>

Vanish(m) == Lose(m) /\ UNCHANGED <<realm, state, call, found, done, doubt, before>>

DeleteUser(u) ==
  /\ u \in exists
  /\ exists' = exists \ {u} /\ members' = members \ {u} /\ granted' = granted \ {u}
  /\ writer' = [a \in Users \X Written |-> IF a[1] = u THEN None ELSE writer[a]]
  /\ UNCHANGED <<transport, client, role, state, call, found, done, doubt, before>>

RemoveMember(u) ==
  /\ u \in members
  /\ members' = members \ {u}
  /\ UNCHANGED <<transport, exists, writer, granted, client, role, state, call,
                 found, done, doubt, before>>

(* The client or its role is deleted, which takes it from its users, or made. *)
ChangeRole ==
  /\ client' \in BOOLEAN /\ role' \in {client', FALSE}
  /\ <<client, role>>' # <<client, role>>
  /\ granted' = IF role' THEN granted ELSE {}
  /\ UNCHANGED <<transport, exists, writer, members, state, call, found, done,
                 doubt, before>>

-----------------------------------------------------------------------------
(* The adapters. *)

(* An operation begins with its first request.                               *)
Invoke(k, op, s) ==
  /\ state[k] = "new" /\ op \in Offered[k]
  /\ \E u \in Users : call' = [call EXCEPT ![k] = [op |-> op, user |-> u]]
  /\ Execute(k, s, 1)
  /\ state' = [state EXCEPT ![k] = "open"]
  /\ before' = [before EXCEPT ![k] = {j \in Calls : state[j] = "ok"}]
  /\ UNCHANGED <<realm, found, done, doubt>>

ClientLogin(k)           == Invoke(k, "login", "login")
GetUserInfo(k)           == Invoke(k, "userinfo", "userinfo")
CreateUser(k)            == Invoke(k, "create", "create")
getClients(k)            == Invoke(k, "roles", "clients")
SetPassword(k)           == Invoke(k, "password", "password")
SendVerificationMail(k)  == Invoke(k, "verify", "verify")
AddUserToOrganization(k) == Invoke(k, "organization", "organization")
UpdateUser(k)            == Invoke(k, "update", "update")
SendEmail(k)             == Invoke(k, "email", "email")
SendRawEmail(k)          == Invoke(k, "email", "email")
TestRestClient(k)        == Invoke(k, "fetch", "fetch")

(* SendEmail of a message with neither HTML nor text fails at once.          *)
SendNothing(k) ==
  /\ state[k] = "new" /\ "email" \in Offered[k]
  /\ \E u \in Users : call' = [call EXCEPT ![k] = [op |-> "email", user |-> u]]
  /\ state' = [state EXCEPT ![k] = "failed"]
  /\ before' = [before EXCEPT ![k] = {j \in Calls : state[j] = "ok"}]
  /\ UNCHANGED <<transport, realm, found, done, doubt>>

Begin(k) ==
  \/ ClientLogin(k) \/ GetUserInfo(k) \/ CreateUser(k) \/ getClients(k)
  \/ SetPassword(k) \/ SendVerificationMail(k) \/ AddUserToOrganization(k)
  \/ UpdateUser(k) \/ SendEmail(k) \/ SendNothing(k) \/ SendRawEmail(k)
  \/ TestRestClient(k)

Retry(k) ==
  /\ state[k] = "open" /\ Again(k)
  /\ Execute(k, at[k], tries[k] + 1)
  /\ UNCHANGED <<realm, state, call, found, done, doubt, before>>

(* AddClientRolesToUser: the client by its client id, the role by its name   *)
(* at that client, then the grant.                                           *)
Follow(k, s) ==
  /\ state[k] = "open" /\ Settled(k) /\ reply[k] = "ok"
  /\ Execute(k, s, 1)
  /\ UNCHANGED <<realm, state, call, found, done, doubt, before>>

Missing(k) == at[k] = "clients" /\ ~found[k]

getClientRole(k)        == at[k] = "clients" /\ found[k] /\ Follow(k, "role")
AddClientRolesToUser(k) == at[k] = "role" /\ Follow(k, "grant")

(* resty reports an answer of any status without an error, and these callers *)
(* look at the error only.                                                   *)
Unchecked(s) == s \in {"organization", "fetch"}

(* Mutant: gocloak's answers are not looked at either. *)
AnyReply(k) == reply[k] # "error"

(* Mutant: only 200 is a success, the 201 of a created user is not. *)
Only200(k) == \/ reply[k] = "ok" /\ at[k] # "create"
              \/ Unchecked(at[k]) /\ reply[k] # "error"

Succeeds(k) == reply[k] = "ok" \/ (Unchecked(at[k]) /\ reply[k] # "error")

(* GetUserInfo dereferences every field of the answer, present or not.       *)
Return(k) ==
  /\ state[k] = "open" /\ Settled(k)
  /\ \/ /\ Succeeds(k) /\ at[k] \notin Lookup
        /\ \/ state' = [state EXCEPT ![k] = "ok"]
           \/ at[k] = "userinfo" /\ state' = [state EXCEPT ![k] = "panic"]
     \/ /\ ~Succeeds(k) \/ Missing(k)
        /\ state' = [state EXCEPT ![k] = "failed"]
  /\ Close(k)
  /\ UNCHANGED <<realm, call, found, done, doubt, before>>

(* ClientLogin and GetUserInfo ask with context.Background(), the RestClient *)
(* with none; the other callers' context may be done.                        *)
Cancel(k) ==
  /\ state[k] = "open" /\ at[k] \notin {"login", "userinfo"} \cup Timed
  /\ Awaits(k) /\ Close(k)
  /\ state' = [state EXCEPT ![k] = "failed"]
  /\ doubt' = IF at[k] \in Lookup THEN doubt ELSE doubt \cup {k}
  /\ UNCHANGED <<realm, call, found, done, before>>

(* The connection breaks, or the RestClient's timeout passes.                *)
Break(k) ==
  /\ state[k] = "open" /\ GiveUp(k)
  /\ NoteDoubt(k)
  /\ UNCHANGED <<realm, state, call, found, done, before>>

(* Mutant: the timeout is given with the GET request only. *)
TimeoutOfGet(k) == at[k] = "fetch" /\ Break(k)

Timeout(k) == at[k] \in Timed /\ Break(k)

Advance(k) == Retry(k) \/ getClientRole(k) \/ AddClientRolesToUser(k) \/ Return(k)

Serve(m) == CarryOut(m) \/ TurnDown(m)

Next ==
  \/ \E k \in Calls : Begin(k) \/ Advance(k) \/ Cancel(k) \/ Break(k)
  \/ \E m \in wire : Serve(m) \/ Vanish(m)
  \/ \E u \in Users : DeleteUser(u) \/ RemoveMember(u)
  \/ ChangeRole

Spec == Init /\ [][Next]_vars

(* Goroutines run and timers fire; nothing is assumed of other services.     *)
FairSpec == Spec /\ \A k \in Calls : WF_vars(Advance(k)) /\ WF_vars(Timeout(k))

-----------------------------------------------------------------------------
(* Properties. *)

(* Types. *)
TypeOK ==
  /\ RestTypeOK
  /\ exists \subseteq Users
  /\ writer \in [Users \X Written -> Calls \cup {None}]
  /\ members \subseteq exists /\ granted \subseteq exists
  /\ client \in BOOLEAN /\ role \in {client, FALSE}
  /\ state \in [Calls -> {"new", "open", "ok", "failed", "panic"}]
  /\ call \in [Calls -> [op : Ops, user : Users] \cup {NoCall}]
  /\ found \in [Calls -> BOOLEAN]
  /\ done \subseteq Messages
  /\ doubt \subseteq Calls
  /\ before \in [Calls -> SUBSET Calls]

(* The attempts of call k that took effect. *)
Effects(k) == {m[3] : m \in {d \in done : d[1] = k}}

(* A call to Keycloak or SES that reports success has been carried out, also *)
(* when attempts were lost, answers came late, or an earlier step of it was  *)
(* overtaken by a change of the realm.                                       *)
SuccessMeansDone ==
  \A k \in Calls : state[k] = "ok" /\ ~Unchecked(LastStep(call[k].op)) => Effects(k) # {}

(* A call that failed although every attempt was answered for certain has    *)
(* not had its effect and will not have it: the caller may compensate.       *)
FailureMeansNothing ==
  \A k \in Calls : state[k] = "failed" /\ k \notin doubt =>
    Effects(k) = {} /\ \A m \in wire : m[1] = k => m[2] \in Lookup

(* Two updates of one account one after the other, both successful, stay in  *)
(* that order: the earlier never overwrites the later, not by an attempt     *)
(* that was still on its way.                                                *)
OkUpdatesInOrder ==
  \A a \in Users \X Written, k \in Calls :
    state[k] = "ok" /\ call[k] = [op |-> a[2], user |-> a[1]] =>
      writer[a] \notin before[k] \ {None}

(* Whatever the other side does or fails to do, a call comes to its end, the *)
(* retries being bounded in number and time, or it is one for which no       *)
(* timeout is set and waits forever for an answer.                           *)
ReturnsOrHangs ==
  \A k \in Calls :
    state[k] = "open" ~> state[k] # "open" \/ [](Awaits(k) /\ at[k] \notin Timed)

(* What AddUserToOrganization reports as a success made the user a member,   *)
(* or found it to be one (keycloak.go:483).                                  *)
JoinedWhenReported ==
  [][\A k \in Calls :
       state[k] = "open" /\ state'[k] = "ok" /\ call[k].op = "organization" =>
         Effects(k) # {} \/ reply[k] = "conflict"]_vars

(* What a caller sees of a call, and what it may expect of it. *)
Public(k) == IF state[k] = "panic" THEN "ok" ELSE state[k]

TermsOf(k) ==
  IF state[k] = "new" THEN [most |-> 0, checked |-> TRUE]
  ELSE [most |-> Attempts(LastStep(call[k].op)), checked |-> ~Unchecked(LastStep(call[k].op))]

Contract == INSTANCE RemoteCall WITH
  Limit   <- RetryCount + SdkRetries + 1,
  state   <- [k \in Calls |-> Public(k)],
  terms   <- [k \in Calls |-> TermsOf(k)],
  effects <- [k \in Calls |-> Effects(k)]

(* The calls keep the contract of RemoteCall: whatever is lost, delayed or   *)
(* repeated, how often and how late one takes effect is bounded, and it is   *)
(* more than once, or after its return, only if an attempt was in doubt.     *)
KeepsContract == Contract!Spec
============================================================================
