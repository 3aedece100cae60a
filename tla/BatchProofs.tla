----------------------------- MODULE BatchProofs -----------------------------
(***************************************************************************)
(* Theorems about BatchUpload, for every number of files, names that files  *)
(* share or not, and both kinds of adapter.                                 *)
(***************************************************************************)
EXTENDS BatchUpload, FiniteSetTheorems, TLAPS

(* Goroutines are started in order, and one has a result exactly when it is  *)
(* past its upload.                                                          *)
Results ==
  \A f \in Files : /\ wk[f] = "none" <=> spawned < f
                   /\ res[f] = "none" <=> wk[f] \in {"none", "open", "write"}

(* Each file is in the channel or among the entries at most once, and only   *)
(* when its goroutine has ended; there is an entry per turn of the loop, and *)
(* all entries are of files that were stored.                                *)
Accounts ==
  /\ Len(files) = i
  /\ \A k \in 1 .. Len(ch) : wk[ch[k]] = "done"
  /\ \A k \in 1 .. Len(files) : wk[files[k]] = "done" /\ res[files[k]] = "ok"
  /\ \A k, l \in 1 .. Len(ch) : ch[k] = ch[l] => k = l
  /\ \A k, l \in 1 .. Len(files) : files[k] = files[l] => k = l
  /\ \A k \in 1 .. Len(ch), l \in 1 .. Len(files) : ch[k] # files[l]

(* The object of a stored file is whole, unless an upload under the same    *)
(* name failed.                                                              *)
Objects ==
  \A f \in Files : res[f] = "ok" =>
    \/ obj[KeyOf[f]] = "whole"
    \/ \E g \in Files : KeyOf[g] = KeyOf[f] /\ res[g] = "error"

Told == reply = "ok" => i = N

BInv == TypeOK /\ Results /\ Accounts /\ Objects /\ Told

-----------------------------------------------------------------------------
LEMMA InitInv == Init => BInv
  BY SizeOK DEF Init, BInv, TypeOK, Results, Accounts, Objects, Told, Files

(* The steps that leave results, channel and entries alone. *)
LEMMA OwnStep ==
  ASSUME BInv, NEW f \in Files, wk[f] # "done", NEW s \in {"open", "write", "send"},
         wk' = [wk EXCEPT ![f] = s], UNCHANGED <<ch, i, files, reply>>,
         NEW r \in {"none", "ok", "error"}, res' = [res EXCEPT ![f] = r]
  PROVE  Accounts' /\ Told'
  <1>1. \A g \in Files : wk[g] = "done" => wk'[g] = "done" /\ res'[g] = res[g]
    BY DEF BInv, TypeOK
  <1>2. /\ \A k \in 1 .. Len(ch) : ch[k] \in Files
        /\ \A k \in 1 .. Len(files) : files[k] \in Files
    BY DEF BInv, TypeOK
  <1> QED BY <1>1, <1>2 DEF BInv, Accounts, Told

(* The spawning loop. *)
LEMMA SpawnInv == BInv /\ Spawn => BInv'
  <1> SUFFICES ASSUME BInv, Spawn PROVE BInv'
    OBVIOUS
  <1> DEFINE f == spawned + 1
  <1>1. f \in Files /\ f \in 0 .. N /\ spawned \in Nat
    BY SizeOK DEF BInv, TypeOK, Spawn, Files
  <1>2. wk[f] = "none" /\ res[f] = "none"
    BY <1>1 DEF BInv, Results
  <1>3. TypeOK'
    BY <1>1 DEF BInv, TypeOK, Spawn
  <1>4. Results'
    BY <1>1, <1>2 DEF BInv, TypeOK, Results, Spawn, Files
  <1>5. Accounts' /\ Told'
    <2>1. res' = [res EXCEPT ![f] = "none"]
      BY <1>1, <1>2 DEF Spawn, BInv, TypeOK
    <2> QED BY <1>1, <1>2, <2>1, OwnStep DEF Spawn
  <1>6. Objects'
    BY DEF BInv, Objects, Spawn
  <1> QED BY <1>3, <1>4, <1>5, <1>6 DEF BInv

(* An upload that ends: what it wrote under its name goes with its result.   *)
LEMMA SettleInv ==
  ASSUME BInv, NEW f \in Files, wk[f] \in {"open", "write"},
         NEW r \in {"ok", "error"}, Settle(f, r),
         \/ r = "error" /\ UNCHANGED obj
         \/ Put(f, "whole")
         \/ r = "error" /\ Put(f, "torn"),
         UNCHANGED <<spawned, ch, i, files, reply>>
  PROVE  BInv'
  <1>1. KeyOf[f] \in Keys
    BY NamesOK
  <1>2. TypeOK'
    BY <1>1 DEF BInv, TypeOK, Settle, Put
  <1>3. Results'
    BY DEF BInv, TypeOK, Results, Settle
  <1>4. Accounts' /\ Told'
    BY OwnStep DEF Settle
  <1>5. Objects'
    <2> SUFFICES ASSUME NEW g \in Files, res'[g] = "ok"
                 PROVE  \/ obj'[KeyOf[g]] = "whole"
                        \/ \E h \in Files : KeyOf[h] = KeyOf[g] /\ res'[h] = "error"
      BY DEF Objects
    <2>1. res'[f] = r /\ \A h \in Files \ {f} : res'[h] = res[h]
      BY DEF BInv, TypeOK, Settle
    <2>2. res[f] = "none"
      BY DEF BInv, Results
    <2>3. KeyOf[g] \in Keys
      BY NamesOK
    <2>4. CASE KeyOf[g] = KeyOf[f]
      <3>1. CASE r = "error"
        BY <2>1, <2>4, <3>1
      <3>2. CASE Put(f, "whole")
        BY <1>1, <2>4, <3>2 DEF Put, BInv, TypeOK
      <3> QED BY <3>1, <3>2
    <2>5. CASE KeyOf[g] # KeyOf[f]
      <3>1. g # f /\ res[g] = "ok" /\ obj'[KeyOf[g]] = obj[KeyOf[g]]
        BY <1>1, <2>1, <2>3, <2>5 DEF Put, BInv, TypeOK
      <3> QED BY <2>1, <2>2, <3>1 DEF BInv, Objects
    <2> QED BY <2>4, <2>5
  <1> QED BY <1>2, <1>3, <1>4, <1>5 DEF BInv

LEMMA OpenInv ==
  ASSUME BInv, NEW f \in Files, Open(f)
  PROVE  BInv'
  <1>1. CASE Settle(f, "error")
    BY <1>1, SettleInv DEF Open
  <1>2. CASE wk' = [wk EXCEPT ![f] = "write"] /\ UNCHANGED res
    <2>1. TypeOK' /\ Results' /\ Objects'
      BY <1>2 DEF Open, BInv, TypeOK, Results, Objects
    <2>2. Accounts' /\ Told'
      <3>1. res' = [res EXCEPT ![f] = res[f]]
        BY <1>2 DEF BInv, TypeOK
      <3>2. res[f] \in {"none", "ok", "error"}
        BY DEF BInv, TypeOK
      <3> QED BY <1>2, <3>1, <3>2, OwnStep DEF Open
    <2> QED BY <2>1, <2>2 DEF BInv
  <1> QED BY <1>1, <1>2 DEF Open

LEMMA WriteInv ==
  ASSUME BInv, NEW f \in Files, Write(f)
  PROVE  BInv'
  <1>1. PICK r \in {"ok", "error"} :
          /\ Settle(f, r)
          /\ \/ r = "error" /\ UNCHANGED obj
             \/ Put(f, "whole")
             \/ r = "error" /\ Put(f, "torn")
    BY DEF Write
  <1> QED BY <1>1, SettleInv DEF Write

(* A result that is sent was in neither the channel nor the entries, which   *)
(* hold files whose goroutines have ended.                                   *)
LEMMA SendInv ==
  ASSUME BInv, NEW f \in Files, Send(f)
  PROVE  BInv'
  <1>1. /\ ch' \in Seq(Files) /\ Len(ch') = Len(ch) + 1 /\ Len(ch) \in Nat
        /\ \A k \in 1 .. Len(ch) : ch'[k] = ch[k]
        /\ ch'[Len(ch) + 1] = f
    BY DEF BInv, TypeOK, Send
  <1>2. TypeOK'
    BY <1>1, SizeOK DEF BInv, TypeOK, Send, Room
  <1>3. Results' /\ Objects' /\ Told'
    BY DEF BInv, TypeOK, Results, Objects, Told, Send
  <1>4. Accounts'
    <2>1. wk[f] = "send" /\ wk'[f] = "done" /\ \A g \in Files \ {f} : wk'[g] = wk[g]
      BY DEF BInv, TypeOK, Send
    <2>2. /\ \A k \in 1 .. Len(ch) : ch[k] \in Files \ {f} /\ wk'[ch[k]] = "done"
          /\ \A k \in 1 .. Len(files) : files[k] \in Files \ {f} /\ wk'[files[k]] = "done"
      BY <2>1 DEF BInv, TypeOK, Accounts
    <2>3. UNCHANGED <<files, i, res>>
      BY DEF Send
    <2>4. \A k \in 1 .. Len(ch') : k = Len(ch) + 1 \/ k \in 1 .. Len(ch)
      BY <1>1
    <2>5. \A k \in 1 .. Len(ch') : wk'[ch'[k]] = "done"
      BY <1>1, <2>1, <2>2, <2>4
    <2>6. \A k, l \in 1 .. Len(ch') : ch'[k] = ch'[l] => k = l
      BY <1>1, <2>2, <2>4 DEF BInv, Accounts
    <2>7. \A k \in 1 .. Len(ch'), l \in 1 .. Len(files) : ch'[k] # files[l]
      BY <1>1, <2>2, <2>4 DEF BInv, Accounts
    <2>8. \A k \in 1 .. Len(files) : wk'[files[k]] = "done" /\ res[files[k]] = "ok"
      BY <2>2 DEF BInv, Accounts
    <2> QED BY <2>3, <2>5, <2>6, <2>7, <2>8 DEF BInv, Accounts
  <1> QED BY <1>2, <1>3, <1>4 DEF BInv

(* The receiving loop moves the head of the channel to the entries, or       *)
(* leaves at an error.                                                       *)
LEMMA ReceiveInv == BInv /\ Receive => BInv'
  <1> SUFFICES ASSUME BInv, Receive PROVE BInv'
    OBVIOUS
  <1> DEFINE h == Head(ch)
  <1>1. /\ h \in Files /\ h = ch[1] /\ Len(ch) \in Nat /\ Len(ch) >= 1
        /\ ch' \in Seq(Files) /\ Len(ch') = Len(ch) - 1
        /\ \A k \in 1 .. Len(ch') : ch'[k] = ch[k + 1] /\ k + 1 \in 1 .. Len(ch)
    BY DEF BInv, TypeOK, Receive
  <1>2. \A k \in 1 .. Len(ch') : wk[ch'[k]] = "done" /\ ch'[k] # h
    BY <1>1 DEF BInv, Accounts
  <1>3. \A k, l \in 1 .. Len(ch') : ch'[k] = ch'[l] => k = l
    BY <1>1 DEF BInv, Accounts
  <1>4. wk[h] = "done" /\ \A l \in 1 .. Len(files) : files[l] # h
    BY <1>1 DEF BInv, Accounts
  <1>5. Results' /\ Objects'
    BY DEF Receive, BInv, Results, Objects
  <1>6. CASE res[h] = "error" /\ reply' = "failed" /\ UNCHANGED <<i, files>>
    <2>1. TypeOK'
      BY <1>1, <1>6 DEF Receive, BInv, TypeOK
    <2>2. Accounts'
      BY <1>1, <1>2, <1>3, <1>6 DEF Receive, BInv, Accounts
    <2> QED BY <1>5, <1>6, <2>1, <2>2 DEF BInv, Told
  <1>7. CASE res[h] = "ok" /\ files' = Append(files, h) /\ i' = i + 1 /\ UNCHANGED reply
    <2>1. /\ files' \in Seq(Files) /\ Len(files') = Len(files) + 1 /\ Len(files) \in Nat
          /\ \A k \in 1 .. Len(files) : files'[k] = files[k]
          /\ files'[Len(files) + 1] = h
          /\ \A k \in 1 .. Len(files') : k = Len(files) + 1 \/ k \in 1 .. Len(files)
      BY <1>1, <1>7 DEF BInv, TypeOK
    <2>2. TypeOK'
      BY <1>1, <1>7, <2>1, SizeOK DEF Receive, BInv, TypeOK
    <2>3. Len(files') = i'
      BY <1>7, <2>1 DEF BInv, Accounts
    <2>4. \A k \in 1 .. Len(files') : wk[files'[k]] = "done" /\ res[files'[k]] = "ok"
      BY <1>4, <1>7, <2>1 DEF BInv, Accounts
    <2>5. \A k, l \in 1 .. Len(files') : files'[k] = files'[l] => k = l
      BY <1>4, <2>1 DEF BInv, Accounts
    <2>6. \A k \in 1 .. Len(ch'), l \in 1 .. Len(files') : ch'[k] # files'[l]
      BY <1>1, <1>2, <2>1 DEF BInv, Accounts
    <2>7. Accounts'
      BY <1>2, <1>3, <2>3, <2>4, <2>5, <2>6 DEF Receive, Accounts
    <2> QED BY <1>5, <1>7, <2>2, <2>7 DEF Receive, BInv, Told
  <1> QED BY <1>6, <1>7 DEF Receive

LEMMA NextInv == BInv /\ [Next]_vars => BInv'
  <1> SUFFICES ASSUME BInv, [Next]_vars PROVE BInv'
    OBVIOUS
  <1>1. CASE Return
    BY <1>1 DEF Return, BInv, TypeOK, Results, Accounts, Objects, Told
  <1>2. CASE UNCHANGED vars
    BY <1>2 DEF vars, BInv, TypeOK, Results, Accounts, Objects, Told
  <1> QED BY <1>1, <1>2, SpawnInv, OpenInv, WriteInv, SendInv, ReceiveInv
          DEF Next, Caller, Worker, Ended

(* Every reachable state of a batch upload meets the inductive invariant:    *)
(* results, channel, entries of the reply and objects agree.                 *)
THEOREM Invariance == Spec => []BInv
  BY InitInv, NextInv, PTL DEF Spec

(* Types, and the channel never holds more results than it has room for.     *)
THEOREM TypeCorrect == Spec => []TypeOK
  <1>1. BInv => TypeOK
    BY DEF BInv
  <1> QED BY <1>1, Invariance, PTL

(* N different entries, each one of N files, are all the files. *)
LEMMA EntriesComplete ==
  ASSUME BInv, i = N
  PROVE  Len(files) = N /\ \A f \in Files : \E k \in 1 .. N : files[k] = f
  <1>1. Len(files) = N /\ files \in [1 .. N -> Files]
    BY SizeOK DEF BInv, Accounts, TypeOK
  <1>2. files \in Injection(1 .. N, Files)
    BY <1>1 DEF Injection, IsInjective, BInv, Accounts
  <1>3. IsFiniteSet(Files)
    BY SizeOK, FS_Interval DEF Files
  <1>4. files \in Surjection(1 .. N, Files)
    BY <1>2, <1>3, FS_Injection DEF Files
  <1> QED BY <1>1, <1>4 DEF Surjection

(* A batch reported stored lists every file once, whatever the order in      *)
(* which the uploads ended.                                                  *)
THEOREM OkListsAll == Spec => []OkListsEachFileOnce
  <1>1. BInv => OkListsEachFileOnce
    BY EntriesComplete DEF OkListsEachFileOnce, BInv, Told
  <1> QED BY <1>1, Invariance, PTL

LEMMA AllStored ==
  ASSUME BInv, i = N
  PROVE  \A f \in Files : res[f] = "ok"
  BY EntriesComplete DEF BInv, Accounts

(* A batch reported stored is whole in the bucket, although files with one   *)
(* name overwrite each other and a failed write may leave a torn object.     *)
THEOREM OkStoredWhole == Spec => []OkMeansStoredWhole
  <1>1. BInv => OkMeansStoredWhole
    BY AllStored DEF OkMeansStoredWhole, BInv, Told, Objects
  <1> QED BY <1>1, Invariance, PTL

-----------------------------------------------------------------------------
(* The refinement. *)

LEMMA RefinesInit == Init => Promise!Init
  BY DEF Init, Promise!Init, Settled

(* A step that changes no result, answer or object is a stutter. *)
LEMMA RefinesQuiet ==
  ASSUME UNCHANGED <<res, reply, obj>>
  PROVE  UNCHANGED <<Settled("ok"), Settled("error"), obj, reply>>
  BY DEF Settled

LEMMA RefinesSettle ==
  ASSUME BInv, NEW f \in Files, wk[f] \in {"open", "write"},
         NEW r \in {"ok", "error"}, Settle(f, r),
         \/ r = "error" /\ UNCHANGED obj
         \/ Put(f, "whole")
         \/ r = "error" /\ Put(f, "torn"),
         UNCHANGED reply
  PROVE  Promise!Next
  <1>1. res[f] = "none" /\ res'[f] = r /\ \A g \in Files \ {f} : res'[g] = res[g]
    BY DEF BInv, TypeOK, Results, Settle
  <1>2. f \notin Settled("ok") \cup Settled("error")
    BY <1>1 DEF Settled
  <1>3. CASE r = "ok"
    <2>1. Settled("ok")' = Settled("ok") \cup {f} /\ Settled("error")' = Settled("error")
      BY <1>1, <1>3 DEF Settled
    <2>2. Promise!Store(f)
      BY <1>2, <1>3, <2>1 DEF Promise!Store, Put
    <2> QED BY <2>2 DEF Promise!Next
  <1>4. CASE r = "error"
    <2>1. Settled("error")' = Settled("error") \cup {f} /\ Settled("ok")' = Settled("ok")
      BY <1>1, <1>4 DEF Settled
    <2>2. Promise!Fail(f)
      BY <1>2, <2>1 DEF Promise!Fail, Put
    <2> QED BY <2>2 DEF Promise!Next
  <1> QED BY <1>3, <1>4

LEMMA RefinesTell ==
  ASSUME BInv, Receive \/ Return, reply' # reply
  PROVE  Promise!Next
  <1>1. reply = "none" /\ UNCHANGED <<res, obj>>
    BY DEF Receive, Return
  <1>2. UNCHANGED <<Settled("ok"), Settled("error"), obj>>
    BY <1>1 DEF Settled
  <1>3. CASE Receive
    <2>1. reply' = "failed" /\ res[Head(ch)] = "error" /\ Head(ch) \in Files
      BY <1>3 DEF Receive, BInv, TypeOK
    <2>2. Settled("error") # {}
      BY <2>1 DEF Settled
    <2> QED BY <1>1, <1>2, <2>1, <2>2 DEF Promise!Tell, Promise!Next
  <1>4. CASE Return
    <2>1. reply' = "ok" /\ i = N
      BY <1>4 DEF Return
    <2>2. Settled("ok") = Files
      BY <2>1, AllStored DEF Settled
    <2> QED BY <1>1, <1>2, <2>1, <2>2 DEF Promise!Tell, Promise!Next
  <1> QED BY <1>3, <1>4

LEMMA RefinesStep ==
  BInv /\ [Next]_vars
    => [Promise!Next]_<<Settled("ok"), Settled("error"), obj, reply>>
  <1> SUFFICES ASSUME BInv, [Next]_vars
               PROVE  [Promise!Next]_<<Settled("ok"), Settled("error"), obj, reply>>
    OBVIOUS
  <1>1. CASE Spawn \/ (\E f \in Files : Send(f)) \/ UNCHANGED vars
    BY <1>1, RefinesQuiet DEF Spawn, Send, vars
  <1>2. CASE Receive \/ Return
    <2>1. CASE reply' = reply
      BY <1>2, <2>1, RefinesQuiet DEF Receive, Return
    <2> QED BY <1>2, <2>1, RefinesTell
  <1>3. ASSUME NEW f \in Files, Open(f)
        PROVE  [Promise!Next]_<<Settled("ok"), Settled("error"), obj, reply>>
    <2>1. CASE UNCHANGED res
      BY <1>3, <2>1, RefinesQuiet DEF Open
    <2>2. CASE Settle(f, "error")
      BY <1>3, <2>2, RefinesSettle DEF Open
    <2> QED BY <1>3, <2>1, <2>2 DEF Open
  <1>4. ASSUME NEW f \in Files, Write(f) PROVE Promise!Next
    <2>1. PICK r \in {"ok", "error"} :
            /\ Settle(f, r)
            /\ \/ r = "error" /\ UNCHANGED obj
               \/ Put(f, "whole")
               \/ r = "error" /\ Put(f, "torn")
      BY <1>4 DEF Write
    <2> QED BY <1>4, <2>1, RefinesSettle DEF Write
  <1> QED BY <1>1, <1>2, <1>3, <1>4 DEF Next, Caller, Worker, Ended

(* UploadFiles keeps the promise of Batch for a batch of any size: each file *)
(* is settled once, and the caller is told only what its uploads came to.    *)
THEOREM ImplementsBatch == Spec => KeepsPromise
  <1>1. Spec => Promise!Init
                /\ [][Promise!Next]_<<Settled("ok"), Settled("error"), obj, reply>>
    BY RefinesInit, RefinesStep, Invariance, PTL DEF Spec
  <1> QED BY <1>1 DEF KeepsPromise, Promise!Spec
=============================================================================
