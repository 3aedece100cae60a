---------------------------- MODULE RegistryProofs ----------------------------
(***************************************************************************)
(* Directory implements Registry: seen through the tables alone, the        *)
(* interleaved statements, locks and transactions of the services are whole *)
(* operations on records, one at a time.                                    *)
(***************************************************************************)
EXTENDS DirectoryProofs

(* The records a client sees. *)
People == [u \in Users |->
             [st |-> users[u].st, val |-> users[u].val,
              in |-> IF Live(users, u) THEN MemberOf(u) ELSE {}]]

(* The companies a user is in have rows. *)
LEMMA MembersExist ==
  ASSUME TypeOK, NoDanglingMembership, NEW u \in Users
  PROVE  /\ MemberOf(u) \subseteq Companies
         /\ \A c \in MemberOf(u) : companies[c].st # "absent"
  BY DEF TypeOK, NoDanglingMembership, MemberOf, JoinsOf, JoinRow

LEMMA PeopleType ==
  ASSUME TypeOK, NoDanglingMembership
  PROVE  /\ People \in [Users -> [st : Status, val : [UserFields -> Field],
                                  in : SUBSET Companies]]
         /\ \A u \in Users : \A c \in People[u].in : companies[c].st # "absent"
  <1>1. ASSUME NEW u \in Users
        PROVE  /\ People[u] \in [st : Status, val : [UserFields -> Field],
                                 in : SUBSET Companies]
               /\ \A c \in People[u].in : companies[c].st # "absent"
    <2>1. users[u].st \in Status /\ users[u].val \in [UserFields -> Field]
      BY DEF TypeOK, UserRow
    <2>2. (IF Live(users, u) THEN MemberOf(u) ELSE {}) \in SUBSET Companies
      BY MembersExist
    <2> QED BY <2>1, <2>2, MembersExist DEF People
  <1> QED BY <1>1 DEF People

(* Unique keys of the table are unique keys of the records. *)
LEMMA PeopleUnique ==
  ASSUME TypeOK, UniqueKeys
  PROVE  /\ Reg!Unique(People, UserKeys)
         /\ Reg!Unique(companies, CompanyKeys)
  <1>1. DOMAIN People = Users /\ DOMAIN users = Users
    BY DEF People, TypeOK
  <1>2. \A u \in Users : People[u].st = users[u].st /\ People[u].val = users[u].val
    BY DEF People
  <1>3. Reg!Unique(People, UserKeys)
    BY <1>1, <1>2 DEF UniqueKeys, Distinct, Reg!Unique
  <1>4. Reg!Unique(companies, CompanyKeys)
    BY DEF UniqueKeys, Distinct, Reg!Unique
  <1> QED BY <1>3, <1>4

(* The invariant allows only states the registry may start from. *)
LEMMA RegistryInit == IInv => Reg!Init
  <1> SUFFICES ASSUME IInv PROVE Reg!Init
    OBVIOUS
  <1>1. /\ People \in [Users -> [st : Status, val : [UserFields -> Field],
                                 in : SUBSET Companies]]
        /\ \A u \in Users : \A c \in People[u].in : companies[c].st # "absent"
    BY PeopleType DEF IInv
  <1>2. companies \in [Companies -> [st : Status, val : [CompanyFields -> Field]]]
    BY DEF IInv, TypeOK, CompanyRow
  <1>3. Reg!Unique(People, UserKeys) /\ Reg!Unique(companies, CompanyKeys)
    BY PeopleUnique DEF IInv
  <1> QED BY <1>1, <1>2, <1>3 DEF Reg!Init, People, Status

(* A user's record is its row and its memberships. *)
LEMMA SameRecord ==
  ASSUME NEW u \in Users, users'[u] = users[u], JoinsOf(u)' = JoinsOf(u),
         DOMAIN users' = DOMAIN users
  PROVE  People'[u] = People[u]
  <1>1. Live(users, u)' = Live(users, u)
    BY DEF Live
  <1>2. MemberOf(u)' = MemberOf(u)
    BY DEF MemberOf
  <1> QED BY <1>1, <1>2 DEF People

(* Writing a live row, memberships and all, is the registry's Put. *)
LEMMA PutUser ==
  ASSUME IInv, IInv', NEW u \in Users, users[u].st \in {"absent", "live"},
         users'[u].st = "live", UNCHANGED companies,
         \A w \in Users \ {u} : users'[w] = users[w] /\ JoinsOf(w)' = JoinsOf(w)
  PROVE  Reg!Put(u)
  <1>1. DOMAIN users' = Users /\ DOMAIN users = Users
    BY DEF IInv, TypeOK
  <1>2. \A w \in Users \ {u} : People'[w] = People[w]
    BY <1>1, SameRecord
  <1>3. People' = [People EXCEPT ![u] = People'[u]]
    BY <1>2 DEF People
  <1>4. People[u].st \in {"absent", "live"}
    BY DEF People
  <1>5. /\ People'[u].st = "live" /\ People'[u].val \in [UserFields -> Field]
        /\ \A c \in People'[u].in : c \in Companies /\ companies[c].st # "absent"
    <2>1. users'[u].val \in [UserFields -> Field]
      BY DEF IInv, TypeOK, UserRow
    <2>2. \A c \in MemberOf(u)' : c \in Companies /\ companies[c].st # "absent"
      BY DEF IInv, TypeOK, NoDanglingMembership, MemberOf, JoinsOf, JoinRow
    <2>3. /\ People'[u].st = users'[u].st /\ People'[u].val = users'[u].val
          /\ People'[u].in \subseteq MemberOf(u)'
      BY DEF People
    <2> QED BY <2>1, <2>2, <2>3
  <1>6. Reg!Unique(People', UserKeys)
    <2>1. DOMAIN People' = Users
      BY DEF People
    <2>2. \A w \in Users : People'[w].st = users'[w].st /\ People'[w].val = users'[w].val
      BY DEF People
    <2> QED BY <1>1, <2>1, <2>2 DEF IInv, UniqueKeys, Distinct, Reg!Unique
  <1> QED BY <1>3, <1>4, <1>5, <1>6 DEF Reg!Put, People

(* A soft delete is the registry's Retire: the memberships go out of sight.  *)
LEMMA RetireUser ==
  ASSUME IInv, IInv', NEW u \in Users, users[u].st = "live",
         users' = [users EXCEPT ![u].st = "gone"], UNCHANGED <<companies, joins>>
  PROVE  Reg!Retire(u)
  <1>1. DOMAIN users' = Users /\ DOMAIN users = Users
    BY DEF IInv, TypeOK
  <1>2. \A w \in Users \ {u} : People'[w] = People[w]
    <2>1. \A w \in Users \ {u} : users'[w] = users[w] /\ JoinsOf(w)' = JoinsOf(w)
      BY DEF IInv, TypeOK, JoinsOf
    <2> QED BY <1>1, <2>1, SameRecord
  <1>3. People'[u] = [People[u] EXCEPT !.st = "gone", !.in = {}]
    <2>1. users'[u].st = "gone" /\ users'[u].val = users[u].val
      BY DEF IInv, TypeOK, UserRow
    <2>2. People'[u] = [st |-> "gone", val |-> users[u].val, in |-> {}]
      BY <2>1 DEF People, Live
    <2>3. [People[u] EXCEPT !.st = "gone", !.in = {}] =
            [st |-> "gone", val |-> users[u].val, in |-> {}]
      <3>1. People[u] = [st |-> "live", val |-> users[u].val, in |-> People[u].in]
        BY DEF People
      <3>2. ASSUME NEW v, NEW m
            PROVE  [[st |-> "live", val |-> v, in |-> m] EXCEPT !.st = "gone", !.in = {}] =
                     [st |-> "gone", val |-> v, in |-> {}]
        <4>1. [[st |-> "live", val |-> v, in |-> m] EXCEPT !.st = "gone"] =
                [st |-> "gone", val |-> v, in |-> m]
          OBVIOUS
        <4>2. [[st |-> "gone", val |-> v, in |-> m] EXCEPT !.in = {}] =
                [st |-> "gone", val |-> v, in |-> {}]
          OBVIOUS
        <4> QED BY <4>1, <4>2
      <3> QED BY <3>1, <3>2
    <2> QED BY <2>2, <2>3
  <1>4. People' = [People EXCEPT ![u].st = "gone", ![u].in = {}]
    BY <1>2, <1>3 DEF People
  <1>5. People[u].st = "live"
    BY DEF People
  <1> QED BY <1>4, <1>5 DEF Reg!Retire, People

(* A step that leaves the rows and every live user's memberships alone is    *)
(* none of the registry's.                                                   *)
LEMMA Unseen ==
  ASSUME UNCHANGED <<users, companies>>,
         \A u \in Users : Live(users, u) => JoinsOf(u)' = JoinsOf(u)
  PROVE  People' = People /\ companies' = companies
  <1>1. \A u \in Users : Live(users, u)' = Live(users, u)
    BY DEF Live
  <1>2. \A u \in Users : Live(users, u) => MemberOf(u)' = MemberOf(u)
    BY DEF MemberOf
  <1> QED BY <1>1, <1>2 DEF People

(* A company's row is its record. *)
LEMMA PutCompanyRow ==
  ASSUME IInv, IInv', NEW c \in Companies, companies[c].st \in {"absent", "live"}, NEW v,
         companies' = [companies EXCEPT ![c] = [st |-> "live", val |-> v]],
         UNCHANGED <<users, joins>>
  PROVE  Reg!PutCompany(c)
  <1>1. companies'[c] = [st |-> "live", val |-> v]
    BY DEF IInv, TypeOK
  <1>2. companies'[c].val \in [CompanyFields -> Field]
    BY DEF IInv, TypeOK, CompanyRow
  <1>3. Reg!Unique(companies', CompanyKeys)
    BY DEF IInv, UniqueKeys, Distinct, Reg!Unique
  <1>4. People' = People
    BY DEF People, Live, MemberOf, JoinsOf
  <1>5. companies' = [companies EXCEPT ![c] = companies'[c]]
    BY <1>1
  <1>6. companies'[c].st = "live"
    BY <1>1
  <1> QED BY <1>2, <1>3, <1>4, <1>5, <1>6 DEF Reg!PutCompany, People

LEMMA DissolveCompany ==
  ASSUME IInv, NEW c \in Companies, companies[c].st = "live",
         companies' = [companies EXCEPT ![c].st = "gone"], UNCHANGED <<users, joins>>
  PROVE  Reg!Dissolve(c)
  <1>1. People' = People
    BY DEF People, Live, MemberOf, JoinsOf
  <1> QED BY <1>1 DEF Reg!Dissolve, People

(* Each statement that writes is one operation of the registry, or none. *)
LEMMA SaveUserPuts ==
  ASSUME IInv, IInv', NEW r \in Requests, SaveUser(r)
  PROVE  (\E u \in Users : Reg!Put(u)) \/ UNCHANGED tables
  <1>1. UNCHANGED companies
    BY DEF SaveUser
  <1>2. CASE UNCHANGED <<users, joins>>
    BY <1>1, <1>2 DEF tables
  <1>3. CASE ~UNCHANGED <<users, joins>>
    <2>1. PICK u \in Users :
            /\ users[u].st = "absent"
            /\ users' = [users EXCEPT ![u] = [st |-> "live", val |-> req[r].val]]
            /\ joins' = joins \cup Rows(r, u, want[r])
      BY <1>3 DEF SaveUser
    <2>2. users'[u].st = "live" /\ \A w \in Users \ {u} : users'[w] = users[w]
      BY <2>1 DEF IInv, TypeOK
    <2>3. \A w \in Users \ {u} : JoinsOf(w)' = JoinsOf(w)
      BY <2>1 DEF JoinsOf, Rows
    <2> QED BY <1>1, <2>1, <2>2, <2>3, PutUser
  <1> QED BY <1>2, <1>3

LEMMA CommitPuts ==
  ASSUME IInv, IInv', NEW r \in Requests, CommitUpdate(r)
  PROVE  (\E u \in Users : Reg!Put(u)) \/ UNCHANGED <<People, companies>>
  <1> DEFINE u == req[r].id
  <1>1. /\ u \in Users /\ UNCHANGED companies
        /\ \A j \in cleared[r] : j.user = u
        /\ joins' = (joins \ cleared[r]) \cup Rows(r, u, want[r])
    BY DEF CommitUpdate, At, IInv, ReadsOK, Updating, ClearedOK
  <1>2. \A w \in Users \ {u} : JoinsOf(w)' = JoinsOf(w)
    BY <1>1 DEF JoinsOf, Rows
  <1>3. CASE Live(users, u)
    <2>1. users' = [users EXCEPT ![u] = [st |-> "live", val |-> NewVal(r)]]
      BY <1>3 DEF CommitUpdate
    <2>2. users[u].st = "live" /\ users'[u].st = "live"
          /\ \A w \in Users \ {u} : users'[w] = users[w]
      BY <1>1, <1>3, <2>1 DEF Live, IInv, TypeOK
    <2> QED BY <1>1, <1>2, <2>2, PutUser
  <1>4. CASE ~Live(users, u)
    <2>1. UNCHANGED users
      BY <1>4 DEF CommitUpdate
    <2>2. \A w \in Users : Live(users, w) => JoinsOf(w)' = JoinsOf(w)
      BY <1>2, <1>4
    <2> QED BY <1>1, <2>1, <2>2, Unseen
  <1> QED BY <1>3, <1>4

LEMMA DeleteRetires ==
  ASSUME IInv, IInv', NEW r \in Requests, DeleteUserRow(r)
  PROVE  (\E u \in Users : Reg!Retire(u)) \/ UNCHANGED tables
  <1> DEFINE u == req[r].id
  <1>1. UNCHANGED <<companies, joins>>
    BY DEF DeleteUserRow
  <1>2. CASE Live(users, u)
    <2>1. u \in Users /\ users[u].st = "live" /\ users' = [users EXCEPT ![u].st = "gone"]
      BY <1>2 DEF DeleteUserRow, Live, IInv, TypeOK
    <2> QED BY <1>1, <2>1, RetireUser
  <1>3. CASE ~Live(users, u)
    BY <1>1, <1>3 DEF DeleteUserRow, tables
  <1> QED BY <1>2, <1>3

LEMMA CompanyStatements ==
  ASSUME IInv, IInv', NEW r \in Requests,
         SaveCompany(r) \/ UpdateCompanyRow(r) \/ DeleteCompanyRow(r)
  PROVE  (\E c \in Companies : Reg!PutCompany(c) \/ Reg!Dissolve(c)) \/ UNCHANGED tables
  <1>1. UNCHANGED <<users, joins>>
    BY DEF SaveCompany, UpdateCompanyRow, DeleteCompanyRow
  <1>2. CASE UNCHANGED companies
    BY <1>1, <1>2 DEF tables
  <1>3. CASE SaveCompany(r) /\ ~UNCHANGED companies
    <2>1. PICK c \in Companies :
            /\ companies[c].st = "absent"
            /\ companies' = [companies EXCEPT ![c] = [st |-> "live", val |-> req[r].val]]
      BY <1>3 DEF SaveCompany
    <2> QED BY <1>1, <2>1, PutCompanyRow
  <1>4. CASE UpdateCompanyRow(r) /\ ~UNCHANGED companies
    <2> DEFINE c == req[r].id
               val == Merge(companies[c].val, Merge(row[r], req[r].val))
    <2>1. /\ Live(companies, c)
          /\ companies' = [companies EXCEPT ![c] = [st |-> "live", val |-> val]]
      BY <1>4 DEF UpdateCompanyRow
    <2> HIDE DEF val
    <2>2. c \in Companies /\ companies[c].st = "live"
      BY <2>1 DEF Live, IInv, TypeOK
    <2> QED BY <1>1, <2>1, <2>2, PutCompanyRow
  <1>5. CASE DeleteCompanyRow(r) /\ ~UNCHANGED companies
    <2> DEFINE c == req[r].id
    <2>1. Live(companies, c) /\ companies' = [companies EXCEPT ![c].st = "gone"]
      BY <1>5 DEF DeleteCompanyRow
    <2>2. c \in Companies /\ companies[c].st = "live"
      BY <2>1 DEF Live, IInv, TypeOK
    <2> QED BY <1>1, <2>1, <2>2, DissolveCompany
  <1> QED BY <1>2, <1>3, <1>4, <1>5

(* The services implement the registry they promise: every step of every     *)
(* request is one whole operation on one record, or changes nothing a client *)
(* sees.                                                                     *)
THEOREM KeepsRegistry == Spec => ImplementsRegistry
  <1>1. IInv => Reg!Init
    BY RegistryInit
  <1>2. IInv /\ IInv' /\ [Next]_vars => Reg!Next \/ UNCHANGED <<People, companies>>
    <2> SUFFICES ASSUME IInv, IInv', [Next]_vars
                 PROVE  Reg!Next \/ UNCHANGED <<People, companies>>
      OBVIOUS
    <2>1. CASE UNCHANGED tables
      BY <2>1, Unseen DEF tables, JoinsOf
    <2>2. CASE \E r \in Requests : SaveUser(r)
      BY <2>1, <2>2, SaveUserPuts DEF Reg!Next
    <2>3. CASE \E r \in Requests : CommitUpdate(r)
      BY <2>3, CommitPuts DEF Reg!Next
    <2>4. CASE \E r \in Requests : DeleteUserRow(r)
      BY <2>1, <2>4, DeleteRetires DEF Reg!Next
    <2>5. CASE \E r \in Requests :
                 SaveCompany(r) \/ UpdateCompanyRow(r) \/ DeleteCompanyRow(r)
      BY <2>1, <2>5, CompanyStatements DEF Reg!Next
    <2>6. CASE UNCHANGED vars
      BY <2>1, <2>6 DEF vars, tables
    <2> QED BY <2>1, <2>2, <2>3, <2>4, <2>5, <2>6, TableSteps DEF Next, Finished
  <1>3. IInv /\ IInv' /\ [Next]_vars => [Reg!Next]_<<People, companies>>
    BY <1>2
  <1> QED BY <1>1, <1>3, Invariance, PTL
          DEF Spec, ImplementsRegistry, Reg!Spec, People
=============================================================================
