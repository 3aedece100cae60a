------------------------------ MODULE MCServer ------------------------------
(***************************************************************************)
(* A small instance of Server: one request of the API and one or two of the *)
(* health endpoint, beside the routine; one connection, so that a single    *)
(* request saturates the pool; two attempts to connect.                     *)
(***************************************************************************)
EXTENDS Server
============================================================================
