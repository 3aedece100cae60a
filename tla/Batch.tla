------------------------------- MODULE Batch -------------------------------
(***************************************************************************)
(* What a batch upload promises: every file is settled once, stored or      *)
(* failed, and the caller is told "ok" only of a batch stored whole and     *)
(* "failed" only of one in which some file failed.                          *)
(***************************************************************************)
CONSTANTS Files, Keys, KeyOf

VARIABLES
  stored, failed,   \* the files settled so far
  bucket,           \* [Keys -> the object under that key]
  told              \* what the caller has been told

Init ==
  /\ stored = {} /\ failed = {}
  /\ bucket = [k \in Keys |-> "none"]
  /\ told = "none"

Store(f) ==
  /\ f \notin stored \cup failed
  /\ stored' = stored \cup {f}
  /\ bucket' = [bucket EXCEPT ![KeyOf[f]] = "whole"]
  /\ UNCHANGED <<failed, told>>

(* A failed file may still have written its own key, whole or in part. *)
Fail(f) ==
  /\ f \notin stored \cup failed
  /\ failed' = failed \cup {f}
  /\ \/ UNCHANGED bucket
     \/ \E o \in {"whole", "torn"} : bucket' = [bucket EXCEPT ![KeyOf[f]] = o]
  /\ UNCHANGED <<stored, told>>

Tell ==
  /\ told = "none"
  /\ \/ stored = Files /\ told' = "ok"
     \/ failed # {} /\ told' = "failed"
  /\ UNCHANGED <<stored, failed, bucket>>

Next == Tell \/ \E f \in Files : Store(f) \/ Fail(f)

Spec == Init /\ [][Next]_<<stored, failed, bucket, told>>
============================================================================
