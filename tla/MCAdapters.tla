------------------------------ MODULE MCAdapters ------------------------------
(* One call of any operation beside one that changes something, on one user. *)
EXTENDS Adapters, TLC

CONSTANTS k1, k2, u1

Changing == {"create", "update", "roles", "organization"}
MCOffered == (k1 :> Ops) @@ (k2 :> Changing)
============================================================================
