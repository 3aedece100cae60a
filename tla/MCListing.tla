------------------------------ MODULE MCListing ------------------------------
(***************************************************************************)
(* Small instances of Listing: three live users, made one after another,    *)
(* and a company, beside which another may come that was made at the same   *)
(* moment; pages that follow each other, pages beyond the end, defaults, no *)
(* pages, searches and sorts of every kind, a date that does not parse.  An *)
(* int has five bits, so that an offset can leave it.                       *)
(***************************************************************************)
EXTENDS Listing, TLC

CONSTANTS u1, u2, u3, c1, c2

MCUsers     == {u1, u2, u3}
MCCompanies == {c1, c2}

V(made, name, hits) == [made |-> made, name |-> name, hits |-> hits]
Live(v)   == [st |-> "live", is |-> v]
Absent(v) == [st |-> "absent", is |-> v]

MCTables == {[
  rows    |-> u1 :> Live(V(1, 0, {"first_name"})) @@ u2 :> Live(V(2, 0, {"email"}))
           @@ u3 :> Live(V(3, 0, {}))
           @@ c1 :> Live(V(1, 1, {"name"})) @@ c2 :> Absent(V(0, 0, {})),
  members |-> {<<u1, c1>>, <<u2, c1>>}]}

MCValues == {V(1, 3, {"last_name", "name"})}

By(c)   == <<[by |-> c, desc |-> FALSE]>>
Desc(c) == <<[by |-> c, desc |-> TRUE]>>

L(of, page, size, from, to, text, sort) ==
  [of |-> of, page |-> page, size |-> size, from |-> from, to |-> to,
   text |-> text, sort |-> sort]

MCCalls == {
  L("users", 1, 2, None, None, FALSE, <<>>),
  L("users", 2, 2, None, None, FALSE, <<>>),
  L("users", 9, 4, None, None, FALSE, By("created_at")),
  L("users", 0, -1, None, None, TRUE, <<>>),
  L("users", 1, 2, None, None, FALSE, Desc("name")),
  L("users", 1, 2, None, None, FALSE, By("other")),
  L("users", 1, 2, None, Bad, FALSE, <<>>),
  L("companies", 1, 1, None, None, FALSE, By("other")),
  L("companies", 1, 1, None, None, FALSE, Desc("created_at") \o By("name")),
  L("companies", 2, 1, None, None, FALSE, Desc("created_at") \o By("name")),
  L("companies", None, 0, 1, 3, TRUE, <<>>)}

RequestSymmetry == Permutations(Requests)

(* A search by text in a range of dates. *)
RangeCalls == {L("users", 1, 2, 2, None, TRUE, <<>>)}
============================================================================
