---------------------------- MODULE BatchUpload ----------------------------
(***************************************************************************)
(* UploadFiles of the storage adapters: a goroutine per file uploads it     *)
(* under its file name and sends the result to a channel with room for all; *)
(* the caller receives one result per file and returns at the first error,  *)
(* while the goroutines it no longer listens to run on.                     *)
(*                                                                         *)
(* S3Adapter and GCSAdapter differ in what a failed write can leave behind: *)
(* S3's uploader replaces the object or does not, whereas GCS's UploadFile  *)
(* closes the writer after a failed copy, which stores what was copied.     *)
(***************************************************************************)
EXTENDS Naturals, Sequences

CONSTANTS
  N,          \* how many files the batch has
  Keys,       \* file names
  KeyOf,      \* [1 .. N -> Keys]: two files may have the same name
  Truncates   \* is the adapter GCS's?

Files == 1 .. N

ASSUME SizeOK  == N \in Nat
ASSUME NamesOK == KeyOf \in [Files -> Keys]
ASSUME KindOK  == Truncates \in BOOLEAN

VARIABLES
  spawned,    \* goroutines started
  wk,         \* per file: its goroutine's step
  res,        \* per file: the result its goroutine sends
  ch,         \* the channel
  i, files,   \* the receiving loop: its counter, result.Files
  reply,      \* what UploadFiles returned
  obj         \* the bucket

vars == <<spawned, wk, res, ch, i, files, reply, obj>>

Init ==
  /\ spawned = 0
  /\ wk  = [f \in Files |-> "none"]
  /\ res = [f \in Files |-> "none"]
  /\ ch = <<>>
  /\ i = 0
  /\ files = <<>>
  /\ reply = "none"
  /\ obj = [k \in Keys |-> "none"]

(* Mutant: a channel with room for one result. *)
OneSlot == 1

Room == N

(* Mutant: one goroutine too many. *)
SpawnOneMore ==
  /\ spawned <= N
  /\ spawned' = spawned + 1
  /\ wk' = [f \in Files |-> IF f = spawned + 1 THEN "open" ELSE wk[f]]
  /\ UNCHANGED <<res, ch, i, files, reply, obj>>

Spawn ==
  /\ spawned < N
  /\ spawned' = spawned + 1
  /\ wk' = [wk EXCEPT ![spawned + 1] = "open"]
  /\ UNCHANGED <<res, ch, i, files, reply, obj>>

Settle(f, r) == /\ res' = [res EXCEPT ![f] = r]
                /\ wk' = [wk EXCEPT ![f] = "send"]

Put(f, o) == obj' = [obj EXCEPT ![KeyOf[f]] = o]

Open(f) ==
  /\ wk[f] = "open"
  /\ \/ wk' = [wk EXCEPT ![f] = "write"] /\ UNCHANGED res
     \/ Settle(f, "error")
  /\ UNCHANGED <<spawned, ch, i, files, reply, obj>>

(* Mutant: GCS's UploadFile ignores the error of io.Copy. *)
WriteUnchecked(f) ==
  /\ wk[f] = "write"
  /\ \/ Settle(f, "ok") /\ Put(f, "whole")
     \/ Settle(f, "ok") /\ Truncates /\ Put(f, "torn")
  /\ UNCHANGED <<spawned, ch, i, files, reply>>

(* A write may fail before it has an effect, or after it: only the answer    *)
(* is lost.                                                                  *)
Write(f) ==
  /\ wk[f] = "write"
  /\ \/ Settle(f, "ok") /\ Put(f, "whole")
     \/ Settle(f, "error") /\ UNCHANGED obj
     \/ Settle(f, "error") /\ Put(f, "whole")
     \/ Settle(f, "error") /\ Truncates /\ Put(f, "torn")
  /\ UNCHANGED <<spawned, ch, i, files, reply>>

Send(f) ==
  /\ wk[f] = "send" /\ Len(ch) < Room
  /\ ch' = Append(ch, f)
  /\ wk' = [wk EXCEPT ![f] = "done"]
  /\ UNCHANGED <<spawned, res, i, files, reply, obj>>

(* Mutant: an error is skipped instead of returned. *)
ReceiveSkipping ==
  /\ spawned = N /\ reply = "none" /\ i < N /\ ch # <<>>
  /\ ch' = Tail(ch)
  /\ files' = IF res[Head(ch)] = "ok" THEN Append(files, Head(ch)) ELSE files
  /\ i' = i + 1
  /\ UNCHANGED <<spawned, wk, res, reply, obj>>

Receive ==
  /\ spawned = N /\ reply = "none" /\ i < N /\ ch # <<>>
  /\ ch' = Tail(ch)
  /\ \/ /\ res[Head(ch)] = "ok"
        /\ files' = Append(files, Head(ch))
        /\ i' = i + 1
        /\ UNCHANGED reply
     \/ /\ res[Head(ch)] = "error"
        /\ reply' = "failed"
        /\ UNCHANGED <<i, files>>
  /\ UNCHANGED <<spawned, wk, res, obj>>

Return ==
  /\ spawned = N /\ reply = "none" /\ i = N
  /\ reply' = "ok"
  /\ UNCHANGED <<spawned, wk, res, ch, i, files, obj>>

Caller    == Spawn \/ Receive \/ Return
Worker(f) == Open(f) \/ Write(f) \/ Send(f)

Ended == /\ reply # "none" /\ \A f \in Files : wk[f] = "done"
         /\ UNCHANGED vars

Next == Caller \/ (\E f \in Files : Worker(f)) \/ Ended

Spec == Init /\ [][Next]_vars

(* Goroutines are scheduled and remote calls return. *)
FairSpec == Spec /\ WF_vars(Caller) /\ \A f \in Files : WF_vars(Worker(f))

-----------------------------------------------------------------------------
(* Properties. *)

(* Types; the channel never holds more results than it has room for. *)
TypeOK ==
  /\ spawned \in 0 .. N
  /\ wk \in [Files -> {"none", "open", "write", "send", "done"}]
  /\ res \in [Files -> {"none", "ok", "error"}]
  /\ ch \in Seq(Files) /\ Len(ch) <= N
  /\ i \in 0 .. N
  /\ files \in Seq(Files)
  /\ reply \in {"none", "ok", "failed"}
  /\ obj \in [Keys -> {"none", "whole", "torn"}]

(* A batch that is reported stored lists every file once, in whatever order  *)
(* the uploads ended.                                                        *)
OkListsEachFileOnce ==
  reply = "ok" => /\ Len(files) = N
                  /\ \A f \in Files : \E k \in 1 .. N : files[k] = f

(* ... and every name in it holds one of its files, whole.                   *)
OkMeansStoredWhole ==
  reply = "ok" => \A f \in Files : obj[KeyOf[f]] = "whole"

(* No goroutine is left blocked on the channel, and UploadFiles returns,     *)
(* although it stops receiving at the first error.                           *)
NobodyBlocked == <>(reply # "none" /\ \A f \in Files : wk[f] = "done")

(* UploadFiles keeps the promise of a batch. *)
Settled(r) == {f \in Files : res[f] = r}
Promise == INSTANCE Batch WITH stored <- Settled("ok"), failed <- Settled("error"),
                               bucket <- obj, told <- reply
KeepsPromise == Promise!Spec
============================================================================
