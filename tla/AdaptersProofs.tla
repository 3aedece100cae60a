---------------------------- MODULE AdaptersProofs ----------------------------
(***************************************************************************)
(* Theorems about Adapters and RestClient, for every set of calls, users    *)
(* and operations offered, and every number of retries.                     *)
(***************************************************************************)
EXTENDS Adapters, TLAPS

StepsOf(op) == IF op = "roles" THEN Lookup \cup {"grant"} ELSE {op}

(* A message belongs to the call that has sent it, which has not sent later  *)
(* ones yet.                                                                 *)
Sent(m) ==
  /\ state[m[1]] # "new"
  /\ m[2] \in StepsOf(call[m[1]].op)
  /\ state[m[1]] = "open" /\ m[2] = at[m[1]] => m[3] <= tries[m[1]]
  /\ state[m[1]] = "open" /\ at[m[1]] \in Lookup => m[2] # "grant"

(* An attempt is carried out once, and leaves the wire by that. *)
Traffic ==
  /\ \A m \in wire : Sent(m) /\ m \notin done
  /\ \A m \in done : Sent(m) /\ m[2] \notin Lookup

(* What a call has on its way, and what it has done. *)
Quiet(k)    == \A m \in wire : m[1] = k => m[2] \in Lookup
NoEffect(k) == \A m \in done : m[1] # k

Shape(k) ==
  /\ state[k] = "new" <=> call[k] = NoCall
  /\ state[k] = "open" => /\ at[k] \in StepsOf(call[k].op)
                          /\ tries[k] \in 1 .. Attempts(at[k])
  /\ state[k] # "open" => at[k] = "none" /\ reply[k] = "none"

(* What is known of a call's last request, unless it is in doubt. *)
Outcome(k) ==
  /\ state[k] = "open" /\ at[k] \notin Lookup /\ reply[k] = "ok" =>
       <<k, at[k], tries[k]>> \in done
  /\ state[k] = "open" /\ at[k] \notin Lookup /\ k \notin doubt =>
       /\ tries[k] = 1 /\ reply[k] \notin {"error", "busy"}
       /\ reply[k] # "ok" => NoEffect(k)
       /\ reply[k] # "none" => Quiet(k)
  /\ state[k] \notin {"new", "open"} /\ k \notin doubt => Quiet(k)
  /\ state[k] = "failed" /\ k \notin doubt => NoEffect(k)
  /\ state[k] \in {"ok", "panic"} /\ ~Unchecked(LastStep(call[k].op)) => ~NoEffect(k)

(* The calls that had succeeded before call k have no update on its way that *)
(* could follow its own.                                                     *)
Order(k) ==
  /\ \A j \in before[k] : j \in Calls \ {k} /\ state[j] = "ok"
  /\ \A u \in Users, w \in Written :
       call[k] = [op |-> w, user |-> u] /\ ~NoEffect(k) => writer[<<u, w>>] \notin before[k]

AInv == TypeOK /\ Traffic /\ \A k \in Calls : Shape(k) /\ Outcome(k) /\ Order(k)
-----------------------------------------------------------------------------

LEMMA AttemptsFacts ==
  \A s \in Steps : /\ Attempts(s) \in Nat /\ 1 <= Attempts(s)
                   /\ Attempts(s) <= RetryCount + SdkRetries + 1
                   /\ s \notin Timed \cup {"email"} => Attempts(s) = 1
  BY RetriesNat DEF Attempts, Timed

LEMMA StepsFacts ==
  \A op \in Ops : /\ StepsOf(op) \subseteq Steps
                  /\ LastStep(op) \in StepsOf(op) \ Lookup
                  /\ \A s \in StepsOf(op) : s = LastStep(op) \/ s \in Lookup
                  /\ \A s \in StepsOf(op) : s \in Lookup => op = "roles"
  BY DEF Ops, Steps, StepsOf, LastStep, Lookup

LEMMA MessageFacts ==
  /\ \A m \in Messages : /\ m[1] \in Calls /\ m[2] \in Steps /\ m[3] \in 1 .. Attempts(m[2])
                         /\ m = <<m[1], m[2], m[3]>>
  /\ \A k \in Calls, s \in Steps : \A n \in 1 .. Attempts(s) : <<k, s, n>> \in Messages
  <1>1. ASSUME NEW m \in Messages
        PROVE  /\ m[1] \in Calls /\ m[2] \in Steps /\ m[3] \in 1 .. Attempts(m[2])
               /\ m = <<m[1], m[2], m[3]>>
    BY DEF Messages
  <1>2. ASSUME NEW k \in Calls, NEW s \in Steps, NEW n \in 1 .. Attempts(s)
        PROVE  <<k, s, n>> \in Messages
    <2>1. n \in Nat
      BY AttemptsFacts
    <2> QED BY <2>1 DEF Messages
  <1> QED BY <1>1, <1>2

(* What a message of a call says of the call. *)
LEMMA SentFacts ==
  ASSUME AInv, NEW m \in wire \cup done
  PROVE  /\ m \in Messages /\ m[1] \in Calls /\ m[2] \in Steps
         /\ m[3] \in 1 .. Attempts(m[2]) /\ m = <<m[1], m[2], m[3]>>
         /\ state[m[1]] # "new" /\ call[m[1]] \in [op : Ops, user : Users]
         /\ m[2] \in StepsOf(call[m[1]].op)
         /\ m[2] \notin Lookup => m[2] = LastStep(call[m[1]].op)
  <1>1. m \in Messages
    BY DEF AInv, TypeOK, RestTypeOK
  <1>2. m[1] \in Calls
    BY <1>1, MessageFacts
  <1>3. Sent(m) /\ Shape(m[1])
    BY <1>2 DEF AInv, Traffic
  <1>4. call[m[1]] \in [op : Ops, user : Users]
    BY <1>2, <1>3 DEF AInv, TypeOK, Sent, Shape
  <1> QED BY <1>1, <1>3, <1>4, MessageFacts, StepsFacts DEF Sent

(* A call that is open asks for what its operation takes. *)
LEMMA OpenFacts ==
  ASSUME AInv, NEW k \in Calls, state[k] = "open"
  PROVE  /\ call[k] \in [op : Ops, user : Users]
         /\ at[k] \in Steps /\ at[k] # "none" /\ at[k] \in StepsOf(call[k].op)
         /\ at[k] \notin Lookup => at[k] = LastStep(call[k].op)
         /\ at[k] \in Lookup => call[k].op = "roles"
         /\ tries[k] \in 1 .. Attempts(at[k]) /\ tries[k] \in Nat
  <1>1. Shape(k)
    BY DEF AInv
  <1>2. call[k] \in [op : Ops, user : Users]
    BY <1>1 DEF AInv, TypeOK, Shape
  <1>3. at[k] \in StepsOf(call[k].op) /\ tries[k] \in 1 .. Attempts(at[k])
    BY <1>1 DEF Shape
  <1>4. at[k] \in Steps /\ at[k] # "none"
    <2>1. at[k] \in Steps
      BY <1>2, <1>3, StepsFacts
    <2> QED BY <2>1 DEF Steps
  <1> QED BY <1>2, <1>3, <1>4, StepsFacts, AttemptsFacts

LEMMA InitInv == Init => AInv
  <1> SUFFICES ASSUME Init PROVE AInv
    OBVIOUS
  <1>1. TypeOK
    BY DEF Init, TypeOK, RestInit, RestTypeOK, NoCall
  <1>2. Traffic
    BY DEF Init, RestInit, Traffic
  <1>3. ASSUME NEW k \in Calls PROVE Shape(k) /\ Outcome(k) /\ Order(k)
    BY DEF Init, RestInit, Shape, Outcome, Order, NoEffect
  <1> QED BY <1>1, <1>2, <1>3 DEF AInv

(* A step of call k, or of one of its messages, leaves the other calls alone. *)
Elsewhere(k) ==
  /\ \A j \in Calls \ {k} :
       /\ state'[j] = state[j] /\ call'[j] = call[j] /\ at'[j] = at[j]
       /\ tries'[j] = tries[j] /\ reply'[j] = reply[j]
       /\ j \in doubt' <=> j \in doubt
  /\ \A m \in wire' : m[1] # k => m \in wire
  /\ \A m : m[1] # k => (m \in done' <=> m \in done)

LEMMA Frame ==
  ASSUME AInv, TypeOK', NEW k \in Calls, Elsewhere(k)
  PROVE  /\ \A j \in Calls \ {k} : Shape(j)' /\ Outcome(j)'
         /\ \A m \in wire' : m[1] # k => Sent(m)' /\ m \notin done'
         /\ \A m \in done' : m[1] # k => Sent(m)' /\ m[2] \notin Lookup
  <1>1. ASSUME NEW j \in Calls \ {k} PROVE Shape(j)'
    BY DEF AInv, Shape, Elsewhere
  <1>2. ASSUME NEW j \in Calls \ {k} PROVE Outcome(j)'
    <2>1. Outcome(j)
      BY DEF AInv
    <2>2. NoEffect(j)' <=> NoEffect(j)
      BY DEF NoEffect, Elsewhere
    <2>3. Quiet(j) => Quiet(j)'
      BY DEF Quiet, Elsewhere
    <2>4. <<j, at[j], tries[j]>> \in done <=> <<j, at[j], tries[j]>> \in done'
      <3>1. <<j, at[j], tries[j]>>[1] # k
        OBVIOUS
      <3> QED BY <3>1 DEF Elsewhere
    <2>5. UNCHANGED <<state[j], call[j], at[j], tries[j], reply[j]>> /\ (j \in doubt' <=> j \in doubt)
      BY DEF Elsewhere
    <2> QED BY <2>1, <2>2, <2>3, <2>4, <2>5 DEF Outcome
  <1>3. ASSUME NEW m \in wire', m[1] # k PROVE Sent(m)' /\ m \notin done'
    <2>1. m \in wire /\ m \notin done /\ m \notin done'
      BY <1>3 DEF AInv, Traffic, Elsewhere
    <2>2. m[1] \in Calls \ {k}
      BY <1>3, <2>1, SentFacts
    <2> QED BY <2>1, <2>2 DEF AInv, Traffic, Sent, Elsewhere
  <1>4. ASSUME NEW m \in done', m[1] # k PROVE Sent(m)' /\ m[2] \notin Lookup
    <2>1. m \in done
      BY <1>4 DEF Elsewhere
    <2>2. m[1] \in Calls \ {k}
      BY <1>4, <2>1, SentFacts
    <2> QED BY <2>1, <2>2 DEF AInv, Traffic, Sent, Elsewhere
  <1> QED BY <1>1, <1>2, <1>3, <1>4

(* The order of updates only depends on what is carried out. *)
LEMMA OrderKept ==
  ASSUME AInv, UNCHANGED <<call, done, before>>,
         \A j \in Calls : state[j] = "ok" => state'[j] = "ok",
         \A u \in Users, w \in Written : writer'[<<u, w>>] \in {None, writer[<<u, w>>]}
  PROVE  \A k \in Calls : Order(k)'
  <1> SUFFICES ASSUME NEW k \in Calls PROVE Order(k)'
    OBVIOUS
  <1>1. Order(k)
    BY DEF AInv
  <1>2. None \notin before[k]
    BY <1>1, NoneNew DEF Order
  <1> QED BY <1>1, <1>2 DEF Order, NoEffect

(* What is to be shown of the call that acts, and of its messages. *)
Mine(k) ==
  /\ Shape(k) /\ Outcome(k)
  /\ \A m \in wire : m[1] = k => Sent(m) /\ m \notin done
  /\ \A m \in done : m[1] = k => Sent(m) /\ m[2] \notin Lookup

LEMMA Combine ==
  ASSUME AInv, TypeOK', NEW k \in Calls, Elsewhere(k), Mine(k)', \A j \in Calls : Order(j)'
  PROVE  AInv'
  <1>1. Traffic'
    BY Frame DEF Traffic, Mine
  <1>2. \A j \in Calls : Shape(j)' /\ Outcome(j)'
    BY Frame DEF Mine
  <1> QED BY <1>1, <1>2 DEF AInv

(* A call that has not begun has sent nothing. *)
LEMMA NewFacts ==
  ASSUME AInv, NEW k \in Calls, state[k] = "new"
  PROVE  \A m \in wire \cup done : m[1] # k
  BY SentFacts

LEMMA BeginOrder ==
  ASSUME AInv, NEW k \in Calls, state[k] = "new", UNCHANGED <<writer, done>>,
         \A j \in Calls \ {k} : state'[j] = state[j] /\ call'[j] = call[j],
         before' = [before EXCEPT ![k] = {j \in Calls : state[j] = "ok"}]
  PROVE  \A i \in Calls : Order(i)'
  <1>1. ASSUME NEW i \in Calls \ {k} PROVE Order(i)'
    <2>1. Order(i) /\ before'[i] = before[i] /\ call'[i] = call[i]
      BY DEF AInv
    <2> QED BY <2>1 DEF Order, NoEffect
  <1>2. Order(k)'
    <2>1. before'[k] = {j \in Calls : state[j] = "ok"}
      BY DEF AInv, TypeOK
    <2>2. NoEffect(k)'
      BY NewFacts DEF NoEffect
    <2>3. \A j \in before'[k] : j \in Calls \ {k} /\ state'[j] = "ok"
      BY <2>1
    <2> QED BY <2>2, <2>3 DEF Order
  <1> QED BY <1>1, <1>2

LEMMA InvokeStep ==
  ASSUME AInv, NEW k \in Calls, NEW op \in Ops, NEW s \in StepsOf(op), s # "grant",
         Invoke(k, op, s)
  PROVE  AInv'
  <1>1. s \in Steps /\ 1 \in 1 .. Attempts(s) /\ <<k, s, 1>> \in Messages /\ s # "none"
    <2>1. s \in Steps
      BY StepsFacts
    <2>2. Attempts(s) \in Nat /\ 1 <= Attempts(s)
      BY <2>1, AttemptsFacts
    <2> QED BY <2>1, <2>2, MessageFacts DEF Steps
  <1>2. /\ state[k] = "new" /\ wire' = wire \cup {<<k, s, 1>>}
        /\ at' = [at EXCEPT ![k] = s] /\ tries' = [tries EXCEPT ![k] = 1]
        /\ reply' = [reply EXCEPT ![k] = "none"] /\ state' = [state EXCEPT ![k] = "open"]
        /\ before' = [before EXCEPT ![k] = {j \in Calls : state[j] = "ok"}]
        /\ UNCHANGED <<realm, found, done, doubt>>
    BY DEF Invoke, Execute
  <1>3. PICK u \in Users : call' = [call EXCEPT ![k] = [op |-> op, user |-> u]]
    BY DEF Invoke
  <1>4. TypeOK'
    BY <1>1, <1>2, <1>3 DEF AInv, TypeOK, RestTypeOK, realm
  <1>5. /\ state'[k] = "open" /\ at'[k] = s /\ tries'[k] = 1 /\ reply'[k] = "none"
        /\ call'[k] = [op |-> op, user |-> u] /\ done' = done
    BY <1>2, <1>3 DEF AInv, TypeOK, RestTypeOK
  <1>6. Elsewhere(k)
    BY <1>2, <1>3 DEF Elsewhere, AInv, TypeOK, RestTypeOK
  <1>7. Mine(k)'
    <2>1. \A m \in wire \cup done : m[1] # k
      BY <1>2, NewFacts
    <2>2. NoEffect(k)'
      BY <1>5, <2>1 DEF NoEffect
    <2>3. call'[k] # NoCall
      BY <1>5, NoneNew DEF NoCall
    <2>4. Shape(k)'
      BY <1>1, <1>5, <2>3 DEF Shape
    <2>5. Outcome(k)'
      BY <1>5, <2>2 DEF Outcome
    <2>6. <<k, s, 1>>[1] = k /\ <<k, s, 1>>[2] = s /\ <<k, s, 1>>[3] = 1
      OBVIOUS
    <2>7. Sent(<<k, s, 1>>)'
      BY <1>5, <2>6 DEF Sent
    <2>8. \A m \in wire' : m[1] = k => m = <<k, s, 1>>
      BY <1>2, <2>1
    <2> QED BY <1>5, <2>1, <2>4, <2>5, <2>6, <2>7, <2>8 DEF Mine
  <1>8. \A i \in Calls : Order(i)'
    BY <1>2, <1>3, BeginOrder DEF AInv, TypeOK, realm
  <1> QED BY <1>4, <1>6, <1>7, <1>8, Combine

LEMMA SendNothingStep ==
  ASSUME AInv, NEW k \in Calls, SendNothing(k)
  PROVE  AInv'
  <1>1. /\ state[k] = "new" /\ state' = [state EXCEPT ![k] = "failed"]
        /\ before' = [before EXCEPT ![k] = {j \in Calls : state[j] = "ok"}]
        /\ UNCHANGED <<transport, realm, found, done, doubt>>
    BY DEF SendNothing
  <1>2. PICK u \in Users : call' = [call EXCEPT ![k] = [op |-> "email", user |-> u]]
    BY DEF SendNothing
  <1>3. TypeOK'
    BY <1>1, <1>2 DEF AInv, TypeOK, RestTypeOK, realm, transport, Ops, Steps
  <1>4. state'[k] = "failed" /\ call'[k] = [op |-> "email", user |-> u]
    BY <1>1, <1>2 DEF AInv, TypeOK
  <1>5. Elsewhere(k)
    BY <1>1, <1>2 DEF Elsewhere, AInv, TypeOK, transport
  <1>6. Mine(k)'
    <2>1. \A m \in wire \cup done : m[1] # k
      BY <1>1, NewFacts
    <2>2. call'[k] # NoCall
      <3>1. "email" \in Ops
        BY DEF Ops, Steps
      <3> QED BY <1>4, <3>1, NoneNew DEF NoCall
    <2>3. Shape(k)
      BY DEF AInv
    <2>4. Shape(k)'
      BY <1>1, <1>4, <2>2, <2>3 DEF Shape, transport
    <2>5. Outcome(k)'
      BY <1>1, <1>4, <2>1 DEF Outcome, Quiet, NoEffect, transport
    <2> QED BY <1>1, <2>1, <2>4, <2>5 DEF Mine, transport
  <1>7. \A i \in Calls : Order(i)'
    BY <1>1, <1>2, BeginOrder DEF AInv, TypeOK, realm
  <1> QED BY <1>3, <1>5, <1>6, <1>7, Combine

LEMMA BeginStep ==
  ASSUME AInv, NEW k \in Calls, Begin(k)
  PROVE  AInv'
  <1>1. /\ {"login", "userinfo", "create", "password", "verify", "organization", "update",
            "email", "fetch", "roles"} \subseteq Ops
        /\ \A op \in Ops \ {"roles"} : StepsOf(op) = {op}
        /\ "clients" \in StepsOf("roles")
    BY DEF Ops, Steps, StepsOf, Lookup
  <1>2. CASE ClientLogin(k)
    BY <1>1, <1>2, InvokeStep DEF ClientLogin
  <1>3. CASE GetUserInfo(k)
    BY <1>1, <1>3, InvokeStep DEF GetUserInfo
  <1>4. CASE CreateUser(k)
    BY <1>1, <1>4, InvokeStep DEF CreateUser
  <1>5. CASE getClients(k)
    BY <1>1, <1>5, InvokeStep DEF getClients
  <1>6. CASE SetPassword(k)
    BY <1>1, <1>6, InvokeStep DEF SetPassword
  <1>7. CASE SendVerificationMail(k)
    BY <1>1, <1>7, InvokeStep DEF SendVerificationMail
  <1>8. CASE AddUserToOrganization(k)
    BY <1>1, <1>8, InvokeStep DEF AddUserToOrganization
  <1>9. CASE UpdateUser(k)
    BY <1>1, <1>9, InvokeStep DEF UpdateUser
  <1>10. CASE SendEmail(k)
    BY <1>1, <1>10, InvokeStep DEF SendEmail
  <1>11. CASE TestRestClient(k)
    BY <1>1, <1>11, InvokeStep DEF TestRestClient
  <1>12. CASE SendRawEmail(k)
    BY <1>1, <1>12, InvokeStep DEF SendRawEmail
  <1> QED BY <1>2, <1>3, <1>4, <1>5, <1>6, <1>7, <1>8, <1>9, <1>10, <1>11, <1>12,
             SendNothingStep DEF Begin

-----------------------------------------------------------------------------

(* A step of a call that is open sends its next attempt or request. *)
LEMMA SendStep ==
  ASSUME AInv, NEW k \in Calls, state[k] = "open", NEW s \in Steps, NEW n \in 1 .. Attempts(s),
         Execute(k, s, n), UNCHANGED <<realm, state, call, found, done, doubt, before>>,
         s \in StepsOf(call[k].op),
         <<k, s, n>> \notin done,
         \A m \in wire \cup done : m[1] = k /\ m[2] = s => m[3] <= n,
         s \in Lookup => at[k] \in Lookup,
         s \notin Lookup /\ k \notin doubt => n = 1 /\ NoEffect(k)
  PROVE  AInv'
  <1>1. /\ wire' = wire \cup {<<k, s, n>>}
        /\ at' = [at EXCEPT ![k] = s] /\ tries' = [tries EXCEPT ![k] = n]
        /\ reply' = [reply EXCEPT ![k] = "none"]
    BY DEF Execute
  <1>2. <<k, s, n>> \in Messages /\ n \in Nat /\ s # "none"
    BY MessageFacts, AttemptsFacts DEF Steps
  <1>3. TypeOK'
    BY <1>1, <1>2 DEF AInv, TypeOK, RestTypeOK, realm
  <1>4. at'[k] = s /\ tries'[k] = n /\ reply'[k] = "none"
    BY <1>1 DEF AInv, TypeOK, RestTypeOK
  <1>5. Elsewhere(k)
    BY <1>1 DEF Elsewhere, AInv, TypeOK, RestTypeOK
  <1>6. Mine(k)'
    <2>1. Shape(k)'
      BY <1>4 DEF AInv, Shape
    <2>2. Outcome(k)'
      BY <1>4 DEF Outcome, NoEffect
    <2>3. <<k, s, n>>[1] = k /\ <<k, s, n>>[2] = s /\ <<k, s, n>>[3] = n
      OBVIOUS
    <2>4. Sent(<<k, s, n>>)'
      BY <1>4, <2>3 DEF Sent, Lookup
    <2>5. ASSUME NEW m \in wire \cup done, m[1] = k PROVE Sent(m)'
      <3>1. Sent(m)
        BY DEF AInv, Traffic
      <3> QED BY <1>4, <2>5, <3>1 DEF Sent
    <2> QED BY <1>1, <2>1, <2>2, <2>4, <2>5 DEF Mine, AInv, Traffic
  <1>7. \A i \in Calls : Order(i)'
    BY OrderKept DEF realm
  <1> QED BY <1>3, <1>5, <1>6, <1>7, Combine

LEMMA RetryStep ==
  ASSUME AInv, NEW k \in Calls, Retry(k)
  PROVE  AInv'
  <1>1. /\ state[k] = "open" /\ reply[k] \in {"error", "busy"} /\ tries[k] < Attempts(at[k])
        /\ Execute(k, at[k], tries[k] + 1)
        /\ UNCHANGED <<realm, state, call, found, done, doubt, before>>
    BY DEF Retry, Again, RetryCondition
  <1>2. /\ at[k] \in Steps /\ at[k] \in StepsOf(call[k].op) /\ tries[k] \in Nat
        /\ tries[k] + 1 \in 1 .. Attempts(at[k])
    BY <1>1, OpenFacts, AttemptsFacts
  <1>3. \A m \in wire \cup done : m[1] = k /\ m[2] = at[k] => m[3] <= tries[k] /\ m[3] \in Nat
    <2> SUFFICES ASSUME NEW m \in wire \cup done, m[1] = k, m[2] = at[k]
                 PROVE  m[3] <= tries[k] /\ m[3] \in Nat
      OBVIOUS
    <2>1. Sent(m) /\ m[3] \in 1 .. Attempts(m[2])
      BY SentFacts DEF AInv, Traffic
    <2> QED BY <1>1, <1>2, <2>1, AttemptsFacts DEF Sent
  <1>4. <<k, at[k], tries[k] + 1>> \notin done
    <2> SUFFICES ASSUME <<k, at[k], tries[k] + 1>> \in done PROVE FALSE
      OBVIOUS
    <2>1. tries[k] + 1 <= tries[k]
      BY <1>3
    <2> QED BY <1>2, <2>1
  <1>5. \A m \in wire \cup done : m[1] = k /\ m[2] = at[k] => m[3] <= tries[k] + 1
    BY <1>2, <1>3
  <1>6. at[k] \notin Lookup => k \in doubt
    BY <1>1 DEF AInv, Outcome
  <1> QED BY <1>1, <1>2, <1>4, <1>5, <1>6, SendStep

LEMMA FollowStep ==
  ASSUME AInv, NEW k \in Calls, NEW s \in {"role", "grant"}, at[k] \in Lookup, Follow(k, s)
  PROVE  AInv'
  <1>1. /\ state[k] = "open" /\ Execute(k, s, 1)
        /\ UNCHANGED <<realm, state, call, found, done, doubt, before>>
    BY DEF Follow
  <1>2. call[k].op = "roles"
    BY <1>1, OpenFacts
  <1>3. s \in Steps /\ s \in StepsOf(call[k].op) /\ Attempts(s) = 1
    BY <1>2, AttemptsFacts DEF Steps, StepsOf, Lookup, Timed
  <1>4. NoEffect(k)
    <2> SUFFICES ASSUME NEW m \in done, m[1] = k PROVE FALSE
      BY DEF NoEffect
    <2>1. Sent(m) /\ m[2] \notin Lookup
      BY DEF AInv, Traffic
    <2> QED BY <1>1, <1>2, <2>1 DEF Sent, StepsOf
  <1>5. \A m \in wire \cup done : m[1] = k /\ m[2] = s => m[3] <= 1
    BY <1>3, SentFacts
  <1>6. <<k, s, 1>> \notin done
    BY <1>4 DEF NoEffect
  <1> QED BY <1>1, <1>3, <1>4, <1>5, <1>6, SendStep

(* A step by which an open call ends. *)
LEMMA EndStep ==
  ASSUME AInv, NEW k \in Calls, state[k] = "open", Close(k),
         NEW end \in {"ok", "failed", "panic"}, state' = [state EXCEPT ![k] = end],
         UNCHANGED <<realm, call, found, done, before>>,
         doubt' = doubt \/ doubt' = doubt \cup {k},
         k \notin doubt' => Quiet(k),
         end = "failed" /\ k \notin doubt' => NoEffect(k),
         end # "failed" /\ ~Unchecked(LastStep(call[k].op)) => ~NoEffect(k)
  PROVE  AInv'
  <1>1. /\ at' = [at EXCEPT ![k] = "none"] /\ tries' = [tries EXCEPT ![k] = 0]
        /\ reply' = [reply EXCEPT ![k] = "none"] /\ wire' = wire
    BY DEF Close
  <1>2. TypeOK'
    BY <1>1 DEF AInv, TypeOK, RestTypeOK, realm
  <1>3. at'[k] = "none" /\ reply'[k] = "none" /\ state'[k] = end
    BY <1>1 DEF AInv, TypeOK, RestTypeOK
  <1>4. Elsewhere(k)
    BY <1>1 DEF Elsewhere, AInv, TypeOK, RestTypeOK
  <1>5. Mine(k)'
    <2>1. Shape(k)'
      BY <1>3 DEF AInv, Shape
    <2>2. Outcome(k)'
      BY <1>1, <1>3 DEF Outcome, NoEffect, Quiet
    <2>3. ASSUME NEW m \in wire \cup done, m[1] = k PROVE Sent(m)'
      <3>1. Sent(m)
        BY DEF AInv, Traffic
      <3> QED BY <1>3, <2>3, <3>1 DEF Sent
    <2> QED BY <1>1, <2>1, <2>2, <2>3 DEF Mine, AInv, Traffic
  <1>6. \A i \in Calls : Order(i)'
    <2>1. \A j \in Calls : state[j] = "ok" => state'[j] = "ok"
      BY DEF AInv, TypeOK
    <2> QED BY <2>1, OrderKept DEF realm
  <1> QED BY <1>2, <1>4, <1>5, <1>6, Combine

(* While it looks up the client and the role, a call has nothing on its way. *)
LEMMA LookupFacts ==
  ASSUME AInv, NEW k \in Calls, state[k] = "open", at[k] \in Lookup
  PROVE  Quiet(k) /\ NoEffect(k)
  <1>1. call[k].op = "roles"
    BY OpenFacts
  <1>2. ASSUME NEW m \in wire \cup done, m[1] = k PROVE m[2] \in Lookup
    <2>1. Sent(m)
      BY DEF AInv, Traffic
    <2> QED BY <1>1, <1>2, <2>1 DEF Sent, StepsOf
  <1> QED BY <1>2 DEF Quiet, NoEffect, AInv, Traffic

LEMMA ReturnStep ==
  ASSUME AInv, NEW k \in Calls, Return(k)
  PROVE  AInv'
  <1>1. /\ state[k] = "open" /\ reply[k] # "none" /\ Close(k)
        /\ UNCHANGED <<realm, call, found, done, doubt, before>>
    BY DEF Return, Settled
  <1>2. Outcome(k)
    BY DEF AInv
  <1>3. PICK end \in {"ok", "failed", "panic"} :
          /\ state' = [state EXCEPT ![k] = end]
          /\ end # "failed" => Succeeds(k) /\ at[k] \notin Lookup
          /\ end = "failed" => ~Succeeds(k) \/ Missing(k)
    BY DEF Return
  <1>4. k \notin doubt => Quiet(k)
    BY <1>1, <1>2, LookupFacts DEF Outcome
  <1>5. end = "failed" /\ k \notin doubt => NoEffect(k)
    BY <1>1, <1>2, <1>3, LookupFacts DEF Outcome, Succeeds, Missing, Lookup
  <1>6. end # "failed" /\ ~Unchecked(LastStep(call[k].op)) => ~NoEffect(k)
    <2> SUFFICES ASSUME end # "failed", ~Unchecked(LastStep(call[k].op)) PROVE ~NoEffect(k)
      OBVIOUS
    <2>1. at[k] \notin Lookup /\ at[k] = LastStep(call[k].op) /\ Succeeds(k)
      BY <1>1, <1>3, OpenFacts
    <2>2. <<k, at[k], tries[k]>> \in done
      BY <1>1, <1>2, <2>1 DEF Outcome, Succeeds
    <2> QED BY <2>2 DEF NoEffect
  <1> QED BY <1>1, <1>3, <1>4, <1>5, <1>6, EndStep

LEMMA CancelStep ==
  ASSUME AInv, NEW k \in Calls, Cancel(k)
  PROVE  AInv'
  <1>1. /\ state[k] = "open" /\ Close(k) /\ state' = [state EXCEPT ![k] = "failed"]
        /\ UNCHANGED <<realm, call, found, done, before>>
        /\ doubt' = IF at[k] \in Lookup THEN doubt ELSE doubt \cup {k}
    BY DEF Cancel
  <1>2. k \notin doubt' => Quiet(k) /\ NoEffect(k)
    BY <1>1, LookupFacts
  <1> QED BY <1>1, <1>2, EndStep

LEMMA BreakStep ==
  ASSUME AInv, NEW k \in Calls, Break(k)
  PROVE  AInv'
  <1>1. /\ state[k] = "open" /\ reply' = [reply EXCEPT ![k] = "error"]
        /\ UNCHANGED <<wire, at, tries, realm, state, call, found, done, before>>
    BY DEF Break, GiveUp
  <1>2. reply'[k] = "error"
    BY <1>1 DEF AInv, TypeOK, RestTypeOK
  <1>3. doubt' = IF at[k] \notin Lookup THEN doubt \cup {k} ELSE doubt
    BY <1>2 DEF Break, NoteDoubt
  <1>4. TypeOK'
    BY <1>1, <1>3 DEF AInv, TypeOK, RestTypeOK, realm
  <1>5. Elsewhere(k)
    BY <1>1, <1>3 DEF Elsewhere, AInv, TypeOK, RestTypeOK
  <1>6. Mine(k)'
    <2>1. Shape(k)' /\ Outcome(k)'
      BY <1>1, <1>2, <1>3 DEF AInv, Shape, Outcome
    <2>2. ASSUME NEW m \in wire \cup done PROVE Sent(m)'
      <3>1. Sent(m)
        BY DEF AInv, Traffic
      <3> QED BY <1>1, <3>1 DEF Sent
    <2> QED BY <1>1, <2>1, <2>2 DEF Mine, AInv, Traffic
  <1>7. \A i \in Calls : Order(i)'
    BY <1>1, OrderKept DEF realm
  <1> QED BY <1>4, <1>5, <1>6, <1>7, Combine

-----------------------------------------------------------------------------

(* An answer to message m of call k: if it is not the attempt that k waits   *)
(* for, k does not hear of it.                                               *)
LEMMA AnswerFacts ==
  ASSUME AInv, NEW m \in wire, NEW a \in Answers, Deliver(m, a), NoteDoubt(m[1]),
         UNCHANGED state
  PROVE  /\ wire' = wire \ {m} /\ UNCHANGED <<at, tries>>
         /\ IF Awaited(m) THEN reply' = [reply EXCEPT ![m[1]] = a] ELSE reply' = reply
         /\ m[1] \in Calls /\ reply' \in [Calls -> Answers \cup {"none", "error"}]
         /\ Awaited(m) => state[m[1]] = "open" /\ reply'[m[1]] = a
                          /\ m = <<m[1], at[m[1]], tries[m[1]]>>
         /\ doubt' = doubt \/ (state[m[1]] = "open" /\ doubt' = doubt \cup {m[1]})
         /\ Awaited(m) /\ m[2] \notin Lookup /\ a = "busy" => m[1] \in doubt'
  <1>1. /\ wire' = wire \ {m} /\ UNCHANGED <<at, tries>>
        /\ reply' = IF Awaited(m) THEN [reply EXCEPT ![m[1]] = a] ELSE reply
    BY DEF Deliver
  <1>2. m[1] \in Calls /\ m = <<m[1], m[2], m[3]>>
    BY SentFacts
  <1>3. reply' \in [Calls -> Answers \cup {"none", "error"}]
    BY <1>1, <1>2 DEF AInv, TypeOK, RestTypeOK
  <1>4. Shape(m[1])
    BY <1>2 DEF AInv
  <1>5. Awaited(m) => state[m[1]] = "open" /\ reply'[m[1]] = a
                      /\ m = <<m[1], at[m[1]], tries[m[1]]>>
    BY <1>1, <1>2, <1>4 DEF AInv, TypeOK, RestTypeOK, Awaited, Awaits, Shape
  <1>6. doubt' = doubt \/ (state[m[1]] = "open" /\ doubt' = doubt \cup {m[1]})
    <2>1. CASE state[m[1]] = "open"
      BY <2>1 DEF NoteDoubt
    <2>2. CASE state[m[1]] # "open"
      BY <1>1, <1>4, <1>5, <2>2 DEF NoteDoubt, Shape
    <2> QED BY <2>1, <2>2
  <1>7. Awaited(m) /\ m[2] \notin Lookup /\ a = "busy" => m[1] \in doubt'
    BY <1>1, <1>5 DEF NoteDoubt, Awaited
  <1> QED BY <1>1, <1>2, <1>3, <1>5, <1>6, <1>7

(* If its last request is on its way, a call that is not in doubt waits for  *)
(* just that attempt, has no other, and has not had its effect.              *)
LEMMA LastRequest ==
  ASSUME AInv, NEW m \in wire, m[2] \notin Lookup, m[1] \notin doubt
  PROVE  /\ state[m[1]] = "open" /\ Awaited(m) /\ NoEffect(m[1])
         /\ at[m[1]] \notin Lookup
         /\ \A n \in wire : n[1] = m[1] /\ n[2] \notin Lookup => n = m
  <1>1. m[1] \in Calls /\ Outcome(m[1]) /\ state[m[1]] # "new" /\ ~Quiet(m[1])
    BY SentFacts DEF AInv, Quiet
  <1>2. state[m[1]] = "open"
    BY <1>1 DEF Outcome
  <1>3. at[m[1]] \notin Lookup
    BY <1>1, <1>2, LookupFacts
  <1>4. tries[m[1]] = 1 /\ reply[m[1]] = "none" /\ NoEffect(m[1])
    BY <1>1, <1>2, <1>3 DEF Outcome
  <1>5. at[m[1]] = LastStep(call[m[1]].op) /\ at[m[1]] # "none"
    BY <1>1, <1>2, <1>3, OpenFacts
  <1>6. ASSUME NEW n \in wire, n[1] = m[1], n[2] \notin Lookup
        PROVE  n = <<m[1], at[m[1]], 1>> /\ n[2] = at[m[1]] /\ n[3] = 1
    <2>1. /\ n = <<n[1], n[2], n[3]>> /\ n[3] \in 1 .. Attempts(n[2]) /\ n[2] \in Steps
          /\ n[2] = at[m[1]] /\ Sent(n)
      BY <1>5, <1>6, SentFacts DEF AInv, Traffic
    <2>2. n[3] <= 1
      BY <1>2, <1>4, <1>6, <2>1 DEF Sent
    <2>3. n[3] = 1
      BY <2>1, <2>2, AttemptsFacts
    <2> QED BY <1>6, <2>1, <2>3
  <1>7. Awaited(m)
    BY <1>4, <1>5, <1>6 DEF Awaited, Awaits
  <1> QED BY <1>2, <1>3, <1>4, <1>6, <1>7

(* A service's answer, whether it has carried the request out or not, leaves *)
(* what is known of its call true.                                           *)
LEMMA AnswerKeeps ==
  ASSUME AInv, NEW m \in wire, NEW a \in Answers, Deliver(m, a), NoteDoubt(m[1]),
         UNCHANGED <<state, call>>,
         done' \in {done, done \cup {m}},
         m[2] \in Lookup => done' = done,
         m[2] \notin Lookup /\ a = "ok" => m \in done',
         a \in {"conflict", "refused"} => done' = done
  PROVE  Elsewhere(m[1]) /\ Mine(m[1])'
  <1> DEFINE k == m[1]
  <1>1. /\ wire' = wire \ {m} /\ UNCHANGED <<at, tries>>
        /\ IF Awaited(m) THEN reply' = [reply EXCEPT ![k] = a] ELSE reply' = reply
        /\ k \in Calls
        /\ Awaited(m) => state[k] = "open" /\ reply'[k] = a /\ m = <<k, at[k], tries[k]>>
        /\ doubt' = doubt \/ (state[k] = "open" /\ doubt' = doubt \cup {k})
        /\ Awaited(m) /\ m[2] \notin Lookup /\ a = "busy" => k \in doubt'
    BY AnswerFacts
  <1>2. Elsewhere(k)
    BY <1>1 DEF Elsewhere, AInv, TypeOK, RestTypeOK
  <1>3. Shape(k) /\ Outcome(k) /\ Sent(m)
    BY <1>1 DEF AInv, Traffic
  <1>4. Shape(k)'
    BY <1>1, <1>3 DEF Shape
  <1>5. Outcome(k)'
    <2>1. state[k] = "open" /\ at[k] \notin Lookup /\ reply'[k] = "ok" =>
            <<k, at[k], tries[k]>> \in done'
      <3> SUFFICES ASSUME state[k] = "open", at[k] \notin Lookup, reply'[k] = "ok"
                   PROVE  <<k, at[k], tries[k]>> \in done'
        OBVIOUS
      <3>1. CASE Awaited(m)
        <4>1. a = "ok" /\ m[2] = at[k] /\ m = <<k, at[k], tries[k]>>
          BY <1>1, <3>1 DEF Awaited
        <4> QED BY <4>1
      <3>2. CASE ~Awaited(m)
        BY <1>1, <1>3, <3>2 DEF Outcome
      <3> QED BY <3>1, <3>2
    <2>2. ASSUME k \notin doubt', m[2] \notin Lookup
          PROVE  /\ state[k] = "open" /\ at[k] \notin Lookup /\ tries[k] = 1
                 /\ reply'[k] \notin {"error", "busy", "none"}
                 /\ reply'[k] # "ok" => NoEffect(k)'
                 /\ Quiet(k)'
      <3>1. /\ state[k] = "open" /\ Awaited(m) /\ NoEffect(k) /\ at[k] \notin Lookup
            /\ \A n \in wire : n[1] = k /\ n[2] \notin Lookup => n = m
        BY <1>1, <2>2, LastRequest
      <3>2. tries[k] = 1
        BY <1>1, <1>3, <2>2, <3>1 DEF Outcome
      <3>3. reply'[k] = a /\ a \in {"ok", "conflict", "refused"}
        BY <1>1, <2>2, <3>1 DEF Answers
      <3>4. Quiet(k)'
        BY <1>1, <3>1 DEF Quiet
      <3>5. reply'[k] # "ok" => NoEffect(k)'
        BY <3>1, <3>3 DEF NoEffect
      <3> QED BY <3>1, <3>2, <3>3, <3>4, <3>5
    <2>3. ASSUME k \notin doubt', m[2] \in Lookup
          PROVE  /\ k \notin doubt /\ (Quiet(k) => Quiet(k)') /\ done' = done
                 /\ at[k] \notin Lookup => reply'[k] = reply[k]
      BY <1>1, <2>3 DEF Quiet, Awaited
    <2>4. NoEffect(k)' => NoEffect(k)
      BY DEF NoEffect
    <2>5. CASE m[2] \notin Lookup
      BY <1>1, <1>3, <2>1, <2>2, <2>4, <2>5 DEF Outcome
    <2>6. CASE m[2] \in Lookup
      <3>1. NoEffect(k)' <=> NoEffect(k)
        BY <2>6 DEF NoEffect
      <3> QED BY <1>1, <1>3, <2>1, <2>3, <2>6, <3>1 DEF Outcome
    <2> QED BY <2>5, <2>6
  <1>6. ASSUME NEW n \in wire \cup done, n[1] = k PROVE Sent(n)'
    <2>1. Sent(n)
      BY DEF AInv, Traffic
    <2> QED BY <1>1, <1>6, <2>1 DEF Sent
  <1>7. (\A n \in wire' : n \notin done') /\ (\A n \in done' : n[2] \notin Lookup)
    BY <1>1 DEF AInv, Traffic
  <1> QED BY <1>1, <1>2, <1>4, <1>5, <1>6, <1>7 DEF Mine

LEMMA TurnDownStep ==
  ASSUME AInv, NEW m \in wire, TurnDown(m)
  PROVE  AInv'
  <1>1. PICK a \in {"refused", "busy", "conflict"} : Deliver(m, a)
    BY DEF TurnDown
  <1>2. NoteDoubt(m[1]) /\ UNCHANGED <<realm, state, call, found, done, before>>
    BY DEF TurnDown
  <1>3. a \in Answers /\ a # "ok"
    BY DEF Answers
  <1>4. Elsewhere(m[1]) /\ Mine(m[1])'
    BY <1>1, <1>2, <1>3, AnswerKeeps
  <1>5. /\ wire' \subseteq wire /\ UNCHANGED <<at, tries>> /\ m[1] \in Calls
        /\ reply' \in [Calls -> Answers \cup {"none", "error"}]
        /\ doubt' \subseteq doubt \cup {m[1]}
    BY <1>1, <1>2, <1>3, AnswerFacts
  <1>6. TypeOK'
    BY <1>2, <1>5 DEF AInv, TypeOK, RestTypeOK, realm
  <1>7. \A i \in Calls : Order(i)'
    BY <1>2, OrderKept DEF realm
  <1> QED BY <1>4, <1>5, <1>6, <1>7, Combine

(* Carrying out a request keeps the realm's types. *)
LEMMA ChangeFacts ==
  ASSUME AInv, NEW m \in wire, Possible(m), Change(m)
  PROVE  /\ exists' \subseteq Users
         /\ writer' \in [Users \X Written -> Calls \cup {None}]
         /\ members' \subseteq exists' /\ granted' \subseteq exists'
         /\ UNCHANGED <<client, role>>
         /\ \A u \in Users, w \in Written :
              \/ writer'[<<u, w>>] \in {None, writer[<<u, w>>]}
              \/ writer'[<<u, w>>] = m[1] /\ m[2] \in Written \cup {"create"}
         /\ m[2] \in Written => writer'[<<call[m[1]].user, m[2]>>] = m[1]
  <1> DEFINE u == call[m[1]].user
  <1>1. m[1] \in Calls /\ u \in Users
    BY SentFacts
  <1>2. exists' = IF m[2] = "create" THEN exists \cup {u} ELSE exists
    BY DEF Change
  <1>3. members' = IF m[2] = "organization" THEN members \cup {u} ELSE members
    BY DEF Change
  <1>4. granted' = IF m[2] = "grant" THEN granted \cup {u} ELSE granted
    BY DEF Change
  <1>5. /\ m[2] = "create" =>
             writer' = [writer EXCEPT ![<<u, "update">>] = m[1], ![<<u, "password">>] = None]
        /\ m[2] \in Written => writer' = [writer EXCEPT ![<<u, m[2]>>] = m[1]]
        /\ m[2] \notin Written \cup {"create"} => writer' = writer
    BY DEF Change, Written
  <1>6. m[2] = "organization" => u \in exists
    BY DEF Possible
  <1>7. m[2] = "grant" => u \in exists
    BY DEF Possible
  <1>8. writer \in [Users \X Written -> Calls \cup {None}]
    BY DEF AInv, TypeOK
  <1>9. "update" \in Written /\ "password" \in Written /\ "create" \notin Written
    BY DEF Written
  <1>10. writer' \in [Users \X Written -> Calls \cup {None}]
    BY <1>1, <1>5, <1>8, <1>9
  <1>11. m[2] \in Written => writer'[<<u, m[2]>>] = m[1]
    BY <1>1, <1>5, <1>8, <1>9
  <1>12. ASSUME NEW v \in Users, NEW w \in Written
         PROVE  \/ writer'[<<v, w>>] \in {None, writer[<<v, w>>]}
                \/ writer'[<<v, w>>] = m[1] /\ m[2] \in Written \cup {"create"}
    <2>1. <<v, w>> \in Users \X Written /\ <<u, "update">> \in Users \X Written
          /\ <<u, "password">> \in Users \X Written
      BY <1>1, <1>9
    <2>2. CASE m[2] = "create"
      BY <1>5, <1>8, <2>1, <2>2
    <2>3. CASE m[2] \in Written
      BY <1>5, <1>8, <2>1, <2>3
    <2> QED BY <1>5, <2>2, <2>3
  <1>13. UNCHANGED <<client, role>>
    BY DEF Change
  <1> QED BY <1>1, <1>2, <1>3, <1>4, <1>6, <1>7, <1>10, <1>11, <1>12, <1>13 DEF AInv, TypeOK

(* The update that is carried out is not one of a call that had succeeded    *)
(* before: that has nothing left on its way.                                 *)
LEMMA CarryOutOrder ==
  ASSUME AInv, NEW m \in wire, CarryOut(m), NEW k \in Calls
  PROVE  Order(k)'
  <1>1. /\ Possible(m) /\ Change(m) /\ UNCHANGED <<state, call, before>>
        /\ done' = IF m[2] \in Lookup THEN done ELSE done \cup {m}
    BY DEF CarryOut
  <1>2. Order(k)
    BY DEF AInv
  <1>3. SUFFICES ASSUME NEW u \in Users, NEW w \in Written,
                        call[k] = [op |-> w, user |-> u], ~NoEffect(k)'
                 PROVE  writer'[<<u, w>>] \notin before[k]
    BY <1>1, <1>2 DEF Order
  <1>4. CASE m[1] = k
    <2>1. m[2] \in StepsOf(w) /\ call[m[1]].user = u
      BY <1>3, <1>4, SentFacts
    <2>2. m[2] = w
      BY <2>1 DEF StepsOf, Written
    <2>3. writer'[<<u, w>>] = k
      BY <1>1, <1>4, <2>1, <2>2, ChangeFacts
    <2> QED BY <1>2, <2>3 DEF Order
  <1>5. CASE m[1] # k
    <2>1. ~NoEffect(k)
      BY <1>1, <1>3, <1>5 DEF NoEffect
    <2>2. None \notin before[k] /\ writer[<<u, w>>] \notin before[k]
      BY <1>2, <1>3, <2>1, NoneNew DEF Order
    <2>3. ASSUME m[1] \in before[k], m[2] \in Written \cup {"create"} PROVE FALSE
      <3>1. m[1] \in Calls /\ state[m[1]] = "ok"
        BY <1>2, <2>3 DEF Order
      <3>2. /\ m[2] \in Steps /\ m[3] \in 1 .. Attempts(m[2]) /\ m = <<m[1], m[2], m[3]>>
            /\ m[2] = LastStep(call[m[1]].op)
        BY <2>3, SentFacts DEF Lookup, Written
      <3>3. Attempts(m[2]) = 1 /\ ~Unchecked(m[2])
        BY <2>3, <3>2, AttemptsFacts DEF Written, Timed, Unchecked
      <3>4. ~NoEffect(m[1])
        BY <3>1, <3>2, <3>3 DEF AInv, Outcome
      <3>5. PICK d \in done : d[1] = m[1]
        BY <3>4 DEF NoEffect
      <3>6. /\ d = <<d[1], d[2], d[3]>> /\ d[2] = m[2] /\ d[3] \in 1 .. Attempts(d[2])
        BY <3>2, <3>5, SentFacts DEF AInv, Traffic
      <3>7. d = m
        BY <3>2, <3>3, <3>5, <3>6
      <3> QED BY <3>7 DEF AInv, Traffic
    <2> QED BY <1>1, <2>2, <2>3, ChangeFacts
  <1> QED BY <1>4, <1>5

LEMMA CarryOutStep ==
  ASSUME AInv, NEW m \in wire, CarryOut(m)
  PROVE  AInv'
  <1>1. PICK a \in {"ok", "busy"} : Deliver(m, a)
    BY DEF CarryOut
  <1>2. /\ Possible(m) /\ Change(m) /\ NoteDoubt(m[1]) /\ UNCHANGED <<state, call, before>>
        /\ done' = IF m[2] \in Lookup THEN done ELSE done \cup {m}
        /\ found' = IF m[2] = "clients" /\ Awaited(m)
                    THEN [found EXCEPT ![m[1]] = client] ELSE found
    BY DEF CarryOut
  <1>3. a \in Answers /\ a \notin {"conflict", "refused"}
    BY DEF Answers
  <1>4. Elsewhere(m[1]) /\ Mine(m[1])'
    BY <1>1, <1>2, <1>3, AnswerKeeps
  <1>5. /\ wire' \subseteq wire /\ UNCHANGED <<at, tries>> /\ m[1] \in Calls
        /\ reply' \in [Calls -> Answers \cup {"none", "error"}]
        /\ doubt' \subseteq doubt \cup {m[1]}
    BY <1>1, <1>2, <1>3, AnswerFacts
  <1>6. m \in Messages /\ found' \in [Calls -> BOOLEAN]
    BY <1>2, <1>5 DEF AInv, TypeOK, RestTypeOK
  <1>7. TypeOK'
    BY <1>2, <1>5, <1>6, ChangeFacts DEF AInv, TypeOK, RestTypeOK
  <1>8. \A i \in Calls : Order(i)'
    BY CarryOutOrder
  <1> QED BY <1>4, <1>5, <1>7, <1>8, Combine

LEMMA VanishStep ==
  ASSUME AInv, NEW m \in wire, Vanish(m)
  PROVE  AInv'
  <1>1. /\ wire' = wire \ {m}
        /\ UNCHANGED <<at, tries, reply, realm, state, call, found, done, doubt, before>>
    BY DEF Vanish, Lose
  <1>2. TypeOK'
    BY <1>1 DEF AInv, TypeOK, RestTypeOK, realm
  <1>3. m[1] \in Calls
    BY SentFacts
  <1>4. Elsewhere(m[1])
    BY <1>1 DEF Elsewhere
  <1>5. Mine(m[1])'
    <2>1. Shape(m[1]) /\ Outcome(m[1])
      BY <1>3 DEF AInv
    <2>2. Shape(m[1])' /\ Outcome(m[1])'
      BY <1>1, <2>1 DEF Shape, Outcome, NoEffect, Quiet
    <2>3. ASSUME NEW n \in wire \cup done PROVE Sent(n)'
      <3>1. Sent(n)
        BY DEF AInv, Traffic
      <3> QED BY <1>1, <3>1 DEF Sent
    <2> QED BY <1>1, <2>2, <2>3 DEF Mine, AInv, Traffic
  <1>6. \A i \in Calls : Order(i)'
    BY <1>1, OrderKept DEF realm
  <1> QED BY <1>2, <1>3, <1>4, <1>5, <1>6, Combine

(* What others do to the realm. *)
LEMMA RealmStep ==
  ASSUME AInv, TypeOK',
         UNCHANGED <<transport, state, call, found, done, doubt, before>>,
         \A u \in Users, w \in Written : writer'[<<u, w>>] \in {None, writer[<<u, w>>]}
  PROVE  AInv'
  <1>1. UNCHANGED <<wire, at, tries, reply>>
    BY DEF transport
  <1>2. ASSUME NEW k \in Calls PROVE Shape(k)' /\ Outcome(k)'
    <2>1. Shape(k) /\ Outcome(k)
      BY DEF AInv
    <2> QED BY <1>1, <2>1 DEF Shape, Outcome, NoEffect, Quiet
  <1>3. ASSUME NEW n \in wire \cup done PROVE Sent(n)'
    <2>1. Sent(n)
      BY DEF AInv, Traffic
    <2> QED BY <1>1, <2>1 DEF Sent
  <1>4. Traffic'
    BY <1>1, <1>3 DEF AInv, Traffic
  <1>5. \A i \in Calls : Order(i)'
    BY OrderKept
  <1> QED BY <1>2, <1>4, <1>5 DEF AInv

LEMMA OthersStep ==
  ASSUME AInv, \/ \E u \in Users : DeleteUser(u) \/ RemoveMember(u)
               \/ ChangeRole
               \/ UNCHANGED vars
  PROVE  AInv'
  <1>1. ASSUME NEW u \in Users, DeleteUser(u) PROVE AInv'
    <2>1. writer' = [a \in Users \X Written |-> IF a[1] = u THEN None ELSE writer[a]]
      BY <1>1 DEF DeleteUser
    <2>2. \A v \in Users, w \in Written : writer'[<<v, w>>] \in {None, writer[<<v, w>>]}
      BY <2>1
    <2>3. writer' \in [Users \X Written -> Calls \cup {None}]
      BY <2>1 DEF AInv, TypeOK
    <2>4. TypeOK'
      BY <1>1, <2>3 DEF AInv, TypeOK, RestTypeOK, transport, DeleteUser
    <2> QED BY <1>1, <2>2, <2>4, RealmStep DEF DeleteUser
  <1>2. ASSUME NEW u \in Users, RemoveMember(u) PROVE AInv'
    <2>1. TypeOK'
      BY <1>2 DEF AInv, TypeOK, RestTypeOK, transport, RemoveMember
    <2> QED BY <1>2, <2>1, RealmStep DEF RemoveMember
  <1>3. ASSUME ChangeRole PROVE AInv'
    <2>1. TypeOK'
      BY <1>3 DEF AInv, TypeOK, RestTypeOK, transport, ChangeRole
    <2> QED BY <1>3, <2>1, RealmStep DEF ChangeRole
  <1>4. ASSUME UNCHANGED vars PROVE AInv'
    <2>1. TypeOK'
      BY <1>4 DEF AInv, TypeOK, RestTypeOK, transport, realm, vars
    <2> QED BY <1>4, <2>1, RealmStep DEF vars, realm
  <1> QED BY <1>1, <1>2, <1>3, <1>4

LEMMA StepKeeps == AInv /\ [Next]_vars => AInv'
  <1> SUFFICES ASSUME AInv, [Next]_vars PROVE AInv'
    OBVIOUS
  <1>1. ASSUME NEW k \in Calls, Begin(k) \/ Advance(k) \/ Cancel(k) \/ Break(k) PROVE AInv'
    <2>1. CASE Advance(k)
      <3>1. CASE getClientRole(k)
        BY <3>1, FollowStep DEF getClientRole, Lookup
      <3>2. CASE AddClientRolesToUser(k)
        BY <3>2, FollowStep DEF AddClientRolesToUser, Lookup
      <3> QED BY <2>1, <3>1, <3>2, RetryStep, ReturnStep DEF Advance
    <2> QED BY <1>1, <2>1, BeginStep, CancelStep, BreakStep
  <1>2. ASSUME NEW m \in wire, Serve(m) \/ Vanish(m) PROVE AInv'
    BY <1>2, CarryOutStep, TurnDownStep, VanishStep DEF Serve
  <1> QED BY <1>1, <1>2, OthersStep DEF Next

(* AInv holds in every reachable state.                                      *)
THEOREM Invariance == Spec => []AInv
  BY InitInv, StepKeeps, PTL DEF Spec

(* Every variable keeps its type, whatever calls are made of the adapters    *)
(* and whatever the network and the services do; in particular no call makes *)
(* more attempts than its client is configured to.                           *)
THEOREM TypeCorrect == Spec => []TypeOK
  <1>1. AInv => TypeOK
    BY DEF AInv
  <1> QED BY <1>1, Invariance, PTL

(* The attempts of a call that took effect, and whether there are any. *)
LEMMA EffectsFacts ==
  \A k \in Calls : /\ NoEffect(k) <=> Effects(k) = {}
                   /\ \A n : n \in Effects(k) <=> \E d \in done : d[1] = k /\ n = d[3]
  BY DEF NoEffect, Effects

(* A call to Keycloak or SES that reports success has been carried out.      *)
THEOREM SuccessIsTrue == Spec => []SuccessMeansDone
  <1>1. AInv => SuccessMeansDone
    BY EffectsFacts DEF AInv, Outcome, SuccessMeansDone
  <1> QED BY <1>1, Invariance, PTL

(* A call that fails without an attempt in doubt has done nothing and will   *)
(* do nothing.                                                               *)
THEOREM FailureIsFinal == Spec => []FailureMeansNothing
  <1>1. AInv => FailureMeansNothing
    BY EffectsFacts DEF AInv, Outcome, Quiet, FailureMeansNothing
  <1> QED BY <1>1, Invariance, PTL

(* Of two successful updates one after the other, the first never overwrites *)
(* the second.                                                               *)
THEOREM UpdatesInOrder == Spec => []OkUpdatesInOrder
  <1>1. AInv => OkUpdatesInOrder
    <2> SUFFICES ASSUME AInv, NEW a \in Users \X Written, NEW k \in Calls,
                        state[k] = "ok", call[k] = [op |-> a[2], user |-> a[1]]
                 PROVE  writer[a] \notin before[k] \ {None}
      BY DEF OkUpdatesInOrder
    <2>1. a[1] \in Users /\ a[2] \in Written /\ a = <<a[1], a[2]>>
      OBVIOUS
    <2>2. ~Unchecked(LastStep(call[k].op))
      BY <2>1 DEF Unchecked, LastStep, Written
    <2>3. ~NoEffect(k)
      BY <2>2 DEF AInv, Outcome
    <2> QED BY <2>1, <2>3 DEF AInv, Order
  <1> QED BY <1>1, Invariance, PTL

-----------------------------------------------------------------------------
(* The refinement. *)

LEMMA RefinesInit == Init => Contract!Init
  BY DEF Init, RestInit, Contract!Init, Contract!NoTerms, Public, TermsOf, Effects

LEMMA RefinesQuiet ==
  ASSUME AInv, NEW k \in Calls, UNCHANGED <<state, call, done>>,
         doubt' = doubt \/ (state[k] = "open" /\ doubt' = doubt \cup {k})
  PROVE  [Contract!Next]_Contract!vars
  <1>1. \A j \in Calls : Public(j)' = Public(j) /\ TermsOf(j)' = TermsOf(j)
                         /\ Effects(j)' = Effects(j)
    BY DEF Public, TermsOf, Effects
  <1>2. CASE doubt' = doubt
    BY <1>1, <1>2 DEF Contract!vars
  <1>3. CASE state[k] = "open" /\ doubt' = doubt \cup {k}
    <2>1. Contract!Doubt(k)
      BY <1>1, <1>3 DEF Contract!Doubt, Public
    <2> QED BY <2>1 DEF Contract!Next
  <1> QED BY <1>2, <1>3

LEMMA RefinesBegin ==
  ASSUME AInv, AInv', NEW k \in Calls, state[k] = "new",
         NEW s \in {"open", "failed"}, state' = [state EXCEPT ![k] = s],
         NEW c, call' = [call EXCEPT ![k] = c],
         UNCHANGED <<done, doubt>>
  PROVE  Contract!Next
  <1>1. /\ state'[k] = s
        /\ \A j \in Calls \ {k} : state'[j] = state[j] /\ call'[j] = call[j]
    BY DEF AInv, TypeOK
  <1>2. call'[k] \in [op : Ops, user : Users]
    BY <1>1 DEF AInv, TypeOK, Shape
  <1>3. TermsOf(k)' \in [most : 1 .. RetryCount + SdkRetries + 1, checked : BOOLEAN]
    <2>1. LastStep(call'[k].op) \in Steps
      BY <1>2, StepsFacts
    <2>2. /\ Attempts(LastStep(call'[k].op)) \in 1 .. RetryCount + SdkRetries + 1
          /\ Unchecked(LastStep(call'[k].op)) \in BOOLEAN
      BY <2>1, AttemptsFacts, RetriesNat DEF Unchecked
    <2> QED BY <1>1, <2>2 DEF TermsOf
  <1>4. /\ Public(k) = "new" /\ Public(k)' = s
        /\ \A j \in Calls \ {k} : Public(j)' = Public(j) /\ TermsOf(j)' = TermsOf(j)
        /\ \A j \in Calls : Effects(j)' = Effects(j)
    BY <1>1 DEF Public, TermsOf, Effects
  <1>5. Contract!Begin(k)
    BY <1>3, <1>4 DEF Contract!Begin, Contract!Terms
  <1> QED BY <1>5 DEF Contract!Next

LEMMA RefinesEnd ==
  ASSUME AInv, AInv', NEW k \in Calls, state[k] = "open",
         NEW end \in {"ok", "failed", "panic"}, state' = [state EXCEPT ![k] = end],
         UNCHANGED <<call, done>>, doubt' = doubt \/ doubt' = doubt \cup {k}
  PROVE  Contract!Next
  <1>1. /\ state'[k] = end
        /\ \A j \in Calls \ {k} : state'[j] = state[j]
    BY DEF AInv, TypeOK
  <1>2. /\ Public(k) = "open" /\ Public(k)' = IF end = "failed" THEN "failed" ELSE "ok"
        /\ \A j \in Calls \ {k} : Public(j)' = Public(j)
        /\ \A j \in Calls : TermsOf(j)' = TermsOf(j) /\ Effects(j)' = Effects(j)
    BY <1>1 DEF Public, TermsOf, Effects
  <1>3. TermsOf(k).checked = ~Unchecked(LastStep(call[k].op))
    BY DEF TermsOf
  <1>4. /\ end = "failed" => (Effects(k) # {} => k \in doubt')
        /\ end # "failed" => (~Unchecked(LastStep(call[k].op)) => Effects(k) # {})
    <2>1. Outcome(k)' /\ call'[k] = call[k] /\ state'[k] = end
      BY <1>1 DEF AInv
    <2>2. NoEffect(k)' <=> Effects(k) = {}
      <3>1. NoEffect(k)' <=> NoEffect(k)
        BY DEF NoEffect
      <3> QED BY <3>1, EffectsFacts
    <2> QED BY <2>1, <2>2 DEF Outcome
  <1>5. Contract!Return(k)
    BY <1>2, <1>3, <1>4 DEF Contract!Return, Contract!MayDoubt
  <1> QED BY <1>5 DEF Contract!Next

LEMMA RefinesEffect ==
  ASSUME AInv, NEW m \in wire, CarryOut(m), m[2] \notin Lookup
  PROVE  Contract!Next
  <1> DEFINE k == m[1]
  <1>1. PICK a \in {"ok", "busy"} : Deliver(m, a)
    BY DEF CarryOut
  <1>2. NoteDoubt(k) /\ UNCHANGED <<state, call>> /\ done' = done \cup {m}
    BY DEF CarryOut
  <1>3. /\ k \in Calls /\ m[3] \in 1 .. Attempts(m[2]) /\ m = <<m[1], m[2], m[3]>>
        /\ state[k] # "new" /\ m[2] = LastStep(call[k].op)
    BY SentFacts
  <1>4. doubt' = doubt \/ (state[k] = "open" /\ doubt' = doubt \cup {k})
    BY <1>1, <1>2, AnswerFacts DEF Answers
  <1>5. k \in doubt \/ (state[k] = "open" /\ Effects(k) = {})
    BY <1>3, LastRequest, EffectsFacts
  <1>6. m[3] \notin Effects(k)
    <2> SUFFICES ASSUME NEW d \in done, d[1] = k, d[3] = m[3] PROVE FALSE
      BY DEF Effects
    <2>1. d[2] = m[2] /\ d = <<d[1], d[2], d[3]>>
      BY <1>3, SentFacts DEF AInv, Traffic
    <2>2. d = m
      BY <1>3, <2>1
    <2> QED BY <2>2 DEF AInv, Traffic
  <1>7. Effects(k)' = Effects(k) \cup {m[3]}
    BY <1>2 DEF Effects
  <1>8. \A j \in Calls \ {k} : Effects(j)' = Effects(j)
    BY <1>2 DEF Effects
  <1>9. \A j \in Calls : Public(j)' = Public(j) /\ TermsOf(j)' = TermsOf(j)
    BY <1>2 DEF Public, TermsOf
  <1>10. TermsOf(k).most = Attempts(m[2]) /\ (state[k] = "open" => Public(k) = "open")
    BY <1>3 DEF TermsOf, Public
  <1>11. Contract!Effect(k)
    <2>1. [j \in Calls |-> Effects(j)]' =
            [[j \in Calls |-> Effects(j)] EXCEPT ![k] = [j \in Calls |-> Effects(j)][k] \cup {m[3]}]
      BY <1>3, <1>7, <1>8
    <2>2. m[3] \in 1 .. [j \in Calls |-> TermsOf(j)][k].most \ [j \in Calls |-> Effects(j)][k]
      BY <1>3, <1>6, <1>10
    <2>3. UNCHANGED <<[j \in Calls |-> Public(j)], [j \in Calls |-> TermsOf(j)]>>
      BY <1>9
    <2>4. Contract!MayDoubt(k)
      BY <1>3, <1>4, <1>10 DEF Contract!MayDoubt
    <2>5. k \in doubt \/ ([j \in Calls |-> Public(j)][k] = "open"
                           /\ [j \in Calls |-> Effects(j)][k] = {})
      BY <1>3, <1>5, <1>10
    <2> QED BY <2>1, <2>2, <2>3, <2>4, <2>5 DEF Contract!Effect
  <1> QED BY <1>3, <1>11 DEF Contract!Next

LEMMA RefinesStep == AInv /\ AInv' /\ [Next]_vars => [Contract!Next]_Contract!vars
  <1> SUFFICES ASSUME AInv, AInv', [Next]_vars PROVE [Contract!Next]_Contract!vars
    OBVIOUS
  <1>1. ASSUME NEW k \in Calls, Begin(k) PROVE Contract!Next
    <2>1. ASSUME NEW op, NEW s, Invoke(k, op, s) PROVE Contract!Next
      BY <2>1, RefinesBegin DEF Invoke
    <2>2. ASSUME SendNothing(k) PROVE Contract!Next
      BY <2>2, RefinesBegin DEF SendNothing
    <2> QED BY <1>1, <2>1, <2>2 DEF Begin, ClientLogin, GetUserInfo, CreateUser, getClients,
               SetPassword, SendVerificationMail, AddUserToOrganization, UpdateUser,
               SendEmail, SendRawEmail, TestRestClient
  <1>2. ASSUME NEW k \in Calls, Return(k) \/ Cancel(k) PROVE Contract!Next
    <2>1. CASE Return(k)
      BY <2>1, RefinesEnd DEF Return
    <2>2. CASE Cancel(k)
      BY <2>2, RefinesEnd DEF Cancel
    <2> QED BY <1>2, <2>1, <2>2
  <1>3. ASSUME NEW k \in Calls, Retry(k) \/ getClientRole(k) \/ AddClientRolesToUser(k)
        PROVE  [Contract!Next]_Contract!vars
    BY <1>3, RefinesQuiet DEF Retry, getClientRole, AddClientRolesToUser, Follow
  <1>4. ASSUME NEW k \in Calls, Break(k) PROVE [Contract!Next]_Contract!vars
    <2>1. doubt' = doubt \/ doubt' = doubt \cup {k}
      BY <1>4 DEF Break, NoteDoubt
    <2> QED BY <1>4, <2>1, RefinesQuiet DEF Break
  <1>5. ASSUME NEW m \in wire, CarryOut(m) PROVE [Contract!Next]_Contract!vars
    <2>1. CASE m[2] \in Lookup
      <3>1. PICK a \in {"ok", "busy"} : Deliver(m, a)
        BY <1>5 DEF CarryOut
      <3>2. NoteDoubt(m[1]) /\ UNCHANGED <<state, call, done>>
        BY <1>5, <2>1 DEF CarryOut
      <3> QED BY <3>1, <3>2, AnswerFacts, RefinesQuiet DEF Answers
    <2> QED BY <1>5, <2>1, RefinesEffect
  <1>6. ASSUME NEW m \in wire, TurnDown(m) PROVE [Contract!Next]_Contract!vars
    <2>1. PICK a \in {"refused", "busy", "conflict"} : Deliver(m, a)
      BY <1>6 DEF TurnDown
    <2>2. NoteDoubt(m[1]) /\ UNCHANGED <<state, call, done>>
      BY <1>6 DEF TurnDown
    <2> QED BY <2>1, <2>2, AnswerFacts, RefinesQuiet DEF Answers
  <1>7. ASSUME UNCHANGED <<state, call, done, doubt>> PROVE [Contract!Next]_Contract!vars
    <2>1. \A j \in Calls : Public(j)' = Public(j) /\ TermsOf(j)' = TermsOf(j)
                           /\ Effects(j)' = Effects(j)
      BY <1>7 DEF Public, TermsOf, Effects
    <2> QED BY <1>7, <2>1 DEF Contract!vars
  <1> QED BY <1>1, <1>2, <1>3, <1>4, <1>5, <1>6, <1>7
          DEF Next, Advance, Serve, Vanish, DeleteUser, RemoveMember, ChangeRole, vars

(* The calls of the adapters keep the contract of RemoteCall, for every      *)
(* number of retries: a caller may rely on it whatever the network does.     *)
THEOREM ImplementsContract == Spec => KeepsContract
  <1>1. Spec => Contract!Init /\ [][Contract!Next]_Contract!vars
    BY RefinesInit, RefinesStep, Invariance, PTL DEF Spec
  <1> QED BY <1>1 DEF KeepsContract, Contract!Spec
=============================================================================
