-------------------------- MODULE MCRequestPipeline --------------------------
(***************************************************************************)
(* A small instance: two addresses, one token and one permission, a bucket  *)
(* of two requests; a public route, a route with AuthMiddleware, one with   *)
(* RequirePermission and its csrf token right or wrong, a body that breaks  *)
(* off, and no route.                                                       *)
(***************************************************************************)
EXTENDS RequestPipeline

CONSTANTS a1, a2, t1, p1

In(known, body, unsafe, csrf, auth, perm, bearer, from) ==
  [known |-> known, body |-> body, unsafe |-> unsafe, csrf |-> csrf, auth |-> auth,
   perm |-> perm, bearer |-> bearer, from |-> from]

MCInputs == {
  In(TRUE, TRUE, FALSE, FALSE, FALSE, None, None, a1),
  In(FALSE, TRUE, FALSE, FALSE, FALSE, None, None, a2),
  In(TRUE, TRUE, FALSE, FALSE, TRUE, None, t1, a2),
  In(TRUE, TRUE, FALSE, FALSE, TRUE, None, None, a1),
  In(TRUE, TRUE, TRUE, TRUE, TRUE, p1, t1, a1),
  In(TRUE, TRUE, TRUE, FALSE, TRUE, p1, t1, a2),
  In(TRUE, FALSE, TRUE, TRUE, TRUE, p1, t1, a1)}
============================================================================
