---------------------------- MODULE MCDirectory ----------------------------
(***************************************************************************)
(* Small instances of Directory.  The tables hold a live user u1 in company *)
(* c1, a user u2, soft-deleted or live, with the e-mail e2 and a membership, *)
(* two live companies and free ids for what is created.                     *)
(***************************************************************************)
EXTENDS Directory, TLC

CONSTANTS u1, u2, u3, u4, c1, c2, c3,
          n1, n2, e1, e2, e3, k1, k2, k3,
          s1, s2, s3, S1, sx    \* spellings: S1 is c1 in upper case, sx unknown

MCUsers     == {u1, u2, u3, u4}
MCCompanies == {c1, c2, c3}
MCData      == {n1, n2, e1, e2, e3, k1, k2, k3}
MCSpellings == {s1, s2, s3, S1, sx, Blank}
MCCompanyOf == s1 :> c1 @@ S1 :> c1 @@ s2 :> c2 @@ s3 :> c3 @@ sx :> Blank @@ Blank :> Blank
MCCanonical == c1 :> s1 @@ c2 :> s2 @@ c3 :> s3

User(st, n, e, k) == [st |-> st, val |-> [name |-> n, email |-> e, kc |-> k]]
Company(st, n, k) == [st |-> st, val |-> [name |-> n, kc |-> k]]
Member(u, c)      == [user |-> u, company |-> c, n |-> 1, by |-> Seed]

TablesWhereU2Is(st) == {[
  users     |-> u1 :> User("live", n1, e1, k1) @@ u2 :> User(st, n1, e2, k2)
             @@ u3 :> User("absent", Blank, Blank, Blank)
             @@ u4 :> User("absent", Blank, Blank, Blank),
  companies |-> c1 :> Company("live", n1, k1) @@ c2 :> Company("live", n2, Blank)
             @@ c3 :> Company("absent", Blank, Blank),
  joins     |-> {Member(u1, c1), Member(u2, c1)}]}

GoneTables == TablesWhereU2Is("gone")
LiveTables == TablesWhereU2Is("live")

UCall(op, u, n, e, k, list) ==
  [op |-> op, id |-> u, val |-> [name |-> n, email |-> e, kc |-> k],
   list |-> list]
NoBody(op, u)      == UCall(op, u, Blank, Blank, Blank, <<>>)
CCall(op, c, n, k) == [op |-> op, id |-> c, val |-> [name |-> n, kc |-> k]]

(* Updates of one user by fields, by lists and by both; a create that wants  *)
(* the e-mail another update gives up; deletes of what the others refer to.  *)
UserCalls == {
  UCall("UpdateUser", u1, n2, Blank, Blank, <<>>),
  UCall("UpdateUser", u1, Blank, e3, Blank, <<s2, S1, s2>>),
  UCall("UpdateUser", u1, Blank, Blank, k3, <<Blank>>),
  UCall("UpdateUser", u1, Blank, Blank, Blank, <<>>),
  UCall("UpdateUser", u1, Blank, e2, Blank, <<s1, sx>>),
  UCall("CreateUser", Blank, n1, e3, Blank, <<s2, s2>>),
  UCall("CreateUser", Blank, n2, e1, k3, <<>>),
  UCall("CreateUser", Blank, n2, e3, k3, <<s3>>),
  NoBody("DeleteUser", u1), NoBody("GetUser", u2),
  CCall("GetCompany", c2, Blank, Blank), CCall("DeleteCompany", c2, Blank, Blank)}

(* Users that want each other's keys, or those of a new user, which wants    *)
(* one of theirs; and what companies can do, blank keys included.            *)
WaitCalls == {
  UCall("UpdateUser", u1, Blank, e2, Blank, <<>>),
  UCall("UpdateUser", u1, Blank, e3, k3, <<s1, Blank, s2>>),
  UCall("UpdateUser", u2, Blank, e1, Blank, <<>>),
  UCall("UpdateUser", u2, Blank, e3, Blank, <<>>),
  UCall("CreateUser", Blank, n2, e3, k1, <<>>),
  NoBody("DeleteUser", u1),
  CCall("CreateCompany", Blank, n1, Blank), CCall("CreateCompany", Blank, n2, k3),
  CCall("UpdateCompany", c1, Blank, k3), CCall("DeleteCompany", c1, Blank, Blank)}

Symmetric == Permutations(Requests)
============================================================================
