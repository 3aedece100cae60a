--------------------------- MODULE MCBatchUpload ---------------------------
(* Four files, two of which have the same name. *)
EXTENDS BatchUpload

CONSTANTS ka, kb, kc
MCKeyOf == <<ka, kb, ka, kc>>
============================================================================
