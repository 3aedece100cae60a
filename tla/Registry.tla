------------------------------ MODULE Registry ------------------------------
(***************************************************************************)
(* What the user and company API promises its clients, free of statements,  *)
(* locks and goroutines: records that are created once, changed whole and   *)
(* one at a time while they live, and retired for good, keys never shared.  *)
(***************************************************************************)
CONSTANTS Users, Companies, UserVals, CompanyVals, UserKeys, CompanyKeys

VARIABLES
  people,   \* [Users -> status, values and the companies a user belongs to]
  orgs      \* [Companies -> status and values]

Unique(tbl, keys) ==
  \A a, b \in DOMAIN tbl :
    a # b /\ tbl[a].st # "absent" /\ tbl[b].st # "absent"
    => \A k \in keys : tbl[a].val[k] # tbl[b].val[k]

Init ==
  /\ people \in [Users -> [st : {"absent", "live", "gone"}, val : UserVals,
                           in : SUBSET Companies]]
  /\ orgs \in [Companies -> [st : {"absent", "live", "gone"}, val : CompanyVals]]
  /\ Unique(people, UserKeys)
  /\ Unique(orgs, CompanyKeys)
  /\ \A u \in Users : \A c \in people[u].in : orgs[c].st # "absent"

(* A user appears, or a live one is changed, in one step: values and         *)
(* memberships together.                                                     *)
Put(u) ==
  /\ people[u].st \in {"absent", "live"}
  /\ people' = [people EXCEPT ![u] = people'[u]]
  /\ people'[u].st = "live"
  /\ people'[u].val \in UserVals
  /\ \A c \in people'[u].in : c \in Companies /\ orgs[c].st # "absent"
  /\ Unique(people', UserKeys)
  /\ UNCHANGED orgs

Retire(u) ==
  /\ people[u].st = "live"
  /\ people' = [people EXCEPT ![u].st = "gone", ![u].in = {}]
  /\ UNCHANGED orgs

PutCompany(c) ==
  /\ orgs[c].st \in {"absent", "live"}
  /\ orgs' = [orgs EXCEPT ![c] = orgs'[c]]
  /\ orgs'[c].st = "live"
  /\ orgs'[c].val \in CompanyVals
  /\ Unique(orgs', CompanyKeys)
  /\ UNCHANGED people

Dissolve(c) ==
  /\ orgs[c].st = "live"
  /\ orgs' = [orgs EXCEPT ![c].st = "gone"]
  /\ UNCHANGED people

Next ==
  \/ \E u \in Users : Put(u) \/ Retire(u)
  \/ \E c \in Companies : PutCompany(c) \/ Dissolve(c)

Spec == Init /\ [][Next]_<<people, orgs>>
=============================================================================
