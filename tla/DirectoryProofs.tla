--------------------------- MODULE DirectoryProofs ---------------------------
(***************************************************************************)
(* Theorems about Directory, for every set of ids, requests, calls and      *)
(* initial tables that meet its assumptions.                                *)
(***************************************************************************)
EXTENDS Directory, FiniteSetTheorems, FunctionTheorems, TLAPS

(* A call with a user operation is a user call, and so for companies. *)
LEMMA CallTypes ==
  ASSUME NEW q \in Calls
  PROVE  /\ q.op \in UserOps \cup {"CreateUser"} => q \in UserCall
         /\ q.op \in CompanyOps \cup {"CreateCompany"} => q \in CompanyCall
  BY CallsOK DEF UserCall, CompanyCall, UserOps, CompanyOps

(* Merging two rows of a table gives a row of it. *)
LEMMA MergeType ==
  ASSUME NEW S, NEW old \in [S -> Field], NEW new \in [S -> Field]
  PROVE  Merge(old, new) \in [S -> Field]
  BY DEF Merge

(* A request's call, by its operation. *)
LEMMA ReqTypes ==
  ASSUME TypeOK, NEW r \in Requests
  PROVE  /\ req[r].op \in UserOps \cup {"CreateUser"} => req[r] \in UserCall
         /\ req[r].op \in CompanyOps \cup {"CreateCompany"} => req[r] \in CompanyCall
  <1>1. CASE req[r] \in Calls
    BY <1>1, CallTypes
  <1>2. CASE req[r] = NoCall
    BY <1>2 DEF NoCall, UserOps, CompanyOps
  <1> QED BY <1>1, <1>2 DEF TypeOK

(* What an update of an existing user writes is a row of users. *)
LEMMA NewValType ==
  ASSUME TypeOK, NEW r \in Requests, req[r].op = "UpdateUser",
         req[r].id \in Users, row[r] \in [UserFields -> Field]
  PROVE  NewVal(r) \in [UserFields -> Field]
  <1>1. req[r].val \in [UserFields -> Field]
    BY ReqTypes DEF UserOps, UserCall
  <1>2. users[req[r].id].val \in [UserFields -> Field]
    BY DEF TypeOK, UserRow
  <1> QED BY <1>1, <1>2, MergeType DEF NewVal

(* However a COMMIT is answered, the request is over. *)
LEMMA Ends ==
  ASSUME TypeOK, NEW r \in Requests, Outcome(r)
  PROVE  /\ pc' = [pc EXCEPT ![r] = "done"]
         /\ \/ resp' = [resp EXCEPT ![r] = "ok"] /\ faults' = faults
            \/ resp' = [resp EXCEPT ![r] = "dberror"] /\ faults' = faults + 1
         /\ faults' \in 0 .. MaxFaults
  BY LimitsOK DEF Outcome, Answer, TypeOK

(* The steps that change a table. *)
LEMMA TableSteps ==
  ASSUME NEW r \in Requests,
         Reject(r) \/ Arrive(r) \/ Step(r) \/ StatementFails(r)
  PROVE  \/ SaveUser(r) \/ CommitUpdate(r) \/ DeleteUserRow(r)
         \/ SaveCompany(r) \/ UpdateCompanyRow(r) \/ DeleteCompanyRow(r)
         \/ UNCHANGED tables
  BY DEF Reject, Arrive, Step, StatementFails, FindUser, FindCompany, PreloadJoins,
         PreloadCompanies, Resolve, BeginUpdate, ClaimKey, BreakDeadlock, Clear

-----------------------------------------------------------------------------

(* The initial tables are well-typed and nothing has been requested. *)
LEMMA InitInv == Init => IInv
  <1> SUFFICES ASSUME Init PROVE IInv
    OBVIOUS
  <1>1. TypeOK
    BY TablesOK, LimitsOK DEF Init, TypeOK, JoinRow, Field
  <1>2. ReadsOK /\ CompaniesOK /\ PendingOK /\ ClearedOK
    BY DEF Init, ReadsOK, CompaniesOK, PendingOK, ClearedOK, Writer, Locks, At, InTx, Updating, Field
  <1>3. UniqueKeys
    BY TablesOK DEF Init, UniqueKeys
  <1>4. OneWriterPerUser /\ NoDanglingMembership
    BY TablesOK DEF Init, OneWriterPerUser, NoDanglingMembership
  <1> QED BY <1>1, <1>2, <1>3, <1>4 DEF IInv

(* Each action keeps the types. *)
LEMMA TypeStep ==
  ASSUME TypeOK, ReadsOK, NEW r \in Requests,
         Reject(r) \/ Arrive(r) \/ Step(r) \/ StatementFails(r)
  PROVE  TypeOK'
  <1> USE DEF TypeOK
  <1>1. CASE Reject(r)
    BY <1>1 DEF Reject, Answer, tables, memory
  <1>2. CASE Arrive(r)
    <2> PICK q \in Calls : 
           /\ req' = [req EXCEPT ![r] = q]
           /\ \/ /\ q.op \in UserOps \cup CompanyOps
                 /\ Goto(r, "find")
                 /\ UNCHANGED todo
              \/ /\ q.op = "CreateCompany"
                 /\ Goto(r, "save")
                 /\ UNCHANGED todo
              \/ /\ q.op = "CreateUser"
                 /\ todo' = [todo EXCEPT ![r] = DOMAIN q.list]
                 /\ Goto(r, IF q.list = <<>> THEN "save" ELSE "resolve")
      BY <1>2 DEF Arrive
    <2>1. todo' \in [Requests -> SUBSET Nat]
      <3>1. q.op = "CreateUser" => DOMAIN q.list \subseteq Nat
        BY CallTypes DEF UserCall
      <3> QED BY <3>1
    <2>2. pc' \in [Requests -> {"idle", "find", "joins", "comps", "resolve", "save",
                          "write", "keys", "commit", "delete", "update", "done"}] /\ UNCHANGED resp
      BY DEF Goto
    <2> QED BY <1>2, <2>1, <2>2 DEF Arrive, tables
  <1>3. CASE FindUser(r)
    BY <1>3 DEF FindUser, At, Answer, Goto, UserOps, tables, Live, UserRow
  <1>4. CASE FindCompany(r)
    BY <1>4 DEF FindCompany, At, Answer, Goto, CompanyOps, tables, Live, CompanyRow
  <1>5. CASE PreloadJoins(r)
    BY <1>5 DEF PreloadJoins, Goto, tables, JoinsOf, JoinRow, Slot
  <1>6. CASE PreloadCompanies(r)
    BY <1>6, ReqTypes DEF PreloadCompanies, At, Goto, tables, Requested, UserOps, UserCall
  <1>7. CASE Resolve(r)
    BY <1>7, Ids DEF Resolve, Goto, Answer, tables, Associated, Live, Slot, NextEntry
  <1>8. CASE SaveUser(r)
    <2>1. req[r].val \in [UserFields -> Field]
      BY <1>8, ReqTypes DEF SaveUser, At, UserCall
    <2>2. users' \in [Users -> UserRow]
      BY <1>8, <2>1 DEF SaveUser, UserRow, Status
    <2>3. joins' \subseteq JoinRow
      <3>1. \A u \in Users : Rows(r, u, want[r]) \subseteq JoinRow
        BY DEF Rows, JoinRow, Slot
      <3> QED BY <1>8, <3>1 DEF SaveUser
    <2> QED BY <1>8, <2>2, <2>3, Ends DEF SaveUser, Answer, memory
  <1>9. CASE BeginUpdate(r) \/ Clear(r)
    BY <1>9 DEF BeginUpdate, Clear, Goto, tables, memory, JoinsOf
  <1>16. CASE ClaimKey(r) \/ BreakDeadlock(r)
    BY <1>16 DEF ClaimKey, BreakDeadlock, NextKey, UserKeys, Answer, tables, memory
  <1>10. CASE CommitUpdate(r)
    <2>1. /\ req[r].id \in Users /\ NewVal(r) \in [UserFields -> Field]
      BY <1>10, NewValType DEF CommitUpdate, At, ReadsOK, Updating
    <2>2. users' \in [Users -> UserRow]
      BY <1>10, <2>1 DEF CommitUpdate, UserRow, Status
    <2>3. joins' \subseteq JoinRow
      <3>1. Rows(r, req[r].id, want[r]) \subseteq JoinRow
        BY <2>1 DEF Rows, JoinRow, Slot
      <3> QED BY <1>10, <3>1 DEF CommitUpdate
    <2> QED BY <1>10, <2>2, <2>3, Ends DEF CommitUpdate, memory
  <1>11. CASE DeleteUserRow(r)
    <2>1. users' \in [Users -> UserRow]
      BY <1>11 DEF DeleteUserRow, UserRow, Status, Live
    <2> QED BY <1>11, <2>1, Ends DEF DeleteUserRow, memory
  <1>12. CASE SaveCompany(r)
    <2>1. req[r].val \in [CompanyFields -> Field]
      BY <1>12, ReqTypes DEF SaveCompany, At, CompanyCall
    <2>2. companies' \in [Companies -> CompanyRow]
      BY <1>12, <2>1 DEF SaveCompany, CompanyRow, Status
    <2> QED BY <1>12, <2>2, Ends DEF SaveCompany, Answer, memory
  <1>13. CASE UpdateCompanyRow(r)
    <2> DEFINE c == req[r].id
               val == Merge(companies[c].val, Merge(row[r], req[r].val))
    <2>1. CASE Live(companies, c)
      <3>1. val \in [CompanyFields -> Field]
        BY <1>13, <2>1, ReqTypes, MergeType
        DEF UpdateCompanyRow, At, ReadsOK, CompanyOps, CompanyCall, CompanyRow, Live
      <3> HIDE DEF val
      <3>2. companies' \in [Companies -> CompanyRow]
        <4>1. \/ UNCHANGED companies
              \/ companies' = [companies EXCEPT ![c] = [st |-> "live", val |-> val]]
          BY <1>13 DEF UpdateCompanyRow, val
        <4>2. [st |-> "live", val |-> val] \in CompanyRow
          BY <3>1 DEF CompanyRow, Status
        <4> QED BY <4>1, <4>2
      <3> QED BY <1>13, <3>2, Ends DEF UpdateCompanyRow, Answer, memory
    <2>2. CASE ~Live(companies, c)
      BY <1>13, <2>2 DEF UpdateCompanyRow, Answer, tables, memory
    <2> QED BY <2>1, <2>2
  <1>14. CASE DeleteCompanyRow(r)
    BY <1>14, Ends DEF DeleteCompanyRow, tables, memory, CompanyRow, Status, Live
  <1>15. CASE StatementFails(r)
    BY <1>15, LimitsOK DEF StatementFails, Answer, tables, memory
  <1> QED BY <1>1, <1>2, <1>3, <1>4, <1>5, <1>6, <1>7, <1>8, <1>9, <1>10, <1>11,
             <1>12, <1>13, <1>14, <1>15, <1>16 DEF Step

(* A row, once there, stays: no step removes one. *)
LEMMA RowsStay ==
  ASSUME TypeOK, NEW r \in Requests,
         Reject(r) \/ Arrive(r) \/ Step(r) \/ StatementFails(r)
  PROVE  /\ \A u \in Users : users[u].st # "absent" => users'[u].st # "absent"
         /\ \A c \in Companies : companies[c].st # "absent" => companies'[c].st # "absent"
  <1> USE DEF TypeOK, UserRow, CompanyRow
  <1>1. CASE SaveUser(r)
    BY <1>1 DEF SaveUser
  <1>2. CASE CommitUpdate(r)
    BY <1>2 DEF CommitUpdate
  <1>3. CASE DeleteUserRow(r)
    BY <1>3 DEF DeleteUserRow
  <1>4. CASE SaveCompany(r)
    BY <1>4 DEF SaveCompany
  <1>5. CASE UpdateCompanyRow(r)
    <2> DEFINE c == req[r].id
               val == Merge(companies[c].val, Merge(row[r], req[r].val))
    <2>1. \/ UNCHANGED companies
          \/ companies' = [companies EXCEPT ![c] = [st |-> "live", val |-> val]]
      BY <1>5 DEF UpdateCompanyRow
    <2>2. UNCHANGED users
      BY <1>5 DEF UpdateCompanyRow
    <2> HIDE DEF val
    <2> QED BY <2>1, <2>2
  <1>6. CASE DeleteCompanyRow(r)
    BY <1>6 DEF DeleteCompanyRow
  <1>7. CASE UNCHANGED <<users, companies>>
    BY <1>7
  <1> QED BY <1>1, <1>2, <1>3, <1>4, <1>5, <1>6, <1>7, TableSteps DEF tables

(* A step of one request leaves what the others know alone. *)
LEMMA OthersKept ==
  ASSUME TypeOK, NEW r \in Requests,
         Reject(r) \/ Arrive(r) \/ Step(r) \/ StatementFails(r)
  PROVE  \A q \in Requests \ {r} : /\ pc'[q] = pc[q] /\ req'[q] = req[q] /\ row'[q] = row[q]
                                   /\ held'[q] = held[q] /\ cleared'[q] = cleared[q]
  <1>2. \A q \in Requests \ {r} : pc'[q] = pc[q]
    <2>1. CASE Reject(r) \/ Arrive(r) \/ StatementFails(r)
      BY <2>1 DEF TypeOK, Reject, Arrive, StatementFails, Goto, Answer
    <2>2. CASE FindUser(r) \/ FindCompany(r)
      <3>1. \/ pc' = [pc EXCEPT ![r] = "done"]
            \/ pc' = [pc EXCEPT ![r] = "joins"]
            \/ pc' = [pc EXCEPT ![r] = "delete"]
            \/ pc' = [pc EXCEPT ![r] = "update"]
        BY <2>2 DEF FindUser, FindCompany, At, UserOps, CompanyOps, Goto, Answer
      <3> QED BY <3>1 DEF TypeOK
    <2>3. CASE PreloadJoins(r) \/ PreloadCompanies(r) \/ Resolve(r) \/ BeginUpdate(r) \/ Clear(r)
      BY <2>3 DEF TypeOK, PreloadJoins, PreloadCompanies, Resolve, BeginUpdate, Clear, Goto, Answer
    <2>4. CASE SaveUser(r) \/ CommitUpdate(r) \/ DeleteUserRow(r)
      <3>1. pc' = [pc EXCEPT ![r] = "done"]
        BY <2>4, Ends DEF SaveUser, CommitUpdate, DeleteUserRow, Answer
      <3> QED BY <3>1 DEF TypeOK
    <2>5. CASE SaveCompany(r) \/ UpdateCompanyRow(r) \/ DeleteCompanyRow(r)
      <3>1. pc' = [pc EXCEPT ![r] = "done"]
        BY <2>5, Ends DEF SaveCompany, UpdateCompanyRow, DeleteCompanyRow, Answer
      <3> QED BY <3>1 DEF TypeOK
    <2>6. CASE ClaimKey(r) \/ BreakDeadlock(r)
      BY <2>6 DEF ClaimKey, BreakDeadlock, Answer, TypeOK
    <2> QED BY <2>1, <2>2, <2>3, <2>4, <2>5, <2>6 DEF Step
  <1>3. CASE Arrive(r)
    BY <1>2, <1>3 DEF TypeOK, Arrive
  <1>4. CASE FindUser(r) \/ FindCompany(r)
    BY <1>2, <1>4 DEF TypeOK, FindUser, FindCompany
  <1>5. CASE ClaimKey(r) \/ Clear(r)
    BY <1>2, <1>5 DEF TypeOK, ClaimKey, Clear
  <1>6. CASE UNCHANGED <<req, row, held, cleared>>
    BY <1>2, <1>6
  <1> QED BY <1>3, <1>4, <1>5, <1>6
          DEF Reject, Step, StatementFails, PreloadJoins, PreloadCompanies, Resolve,
              SaveUser, BeginUpdate, BreakDeadlock, CommitUpdate, DeleteUserRow,
              SaveCompany, UpdateCompanyRow, DeleteCompanyRow, memory

(* Each action keeps what requests have read in agreement with their steps. *)
LEMMA ReadsStep ==
  ASSUME TypeOK, ReadsOK, NEW r \in Requests,
         Reject(r) \/ Arrive(r) \/ Step(r) \/ StatementFails(r)
  PROVE  ReadsOK'
  <1>1. \A q \in Requests \ {r} : /\ pc'[q] = pc[q] /\ req'[q] = req[q] /\ row'[q] = row[q]
    BY OthersKept
  <1>2. \A u \in Users : users[u].st # "absent" => users'[u].st # "absent"
    BY RowsStay
  <1>3. /\ pc'[r] \in Updating => req'[r].op = "UpdateUser"
        /\ pc'[r] \in Updating \/ (pc'[r] = "resolve" /\ req'[r].op = "UpdateUser") =>
             /\ req'[r].id \in Users
             /\ users'[req'[r].id].st # "absent"
        /\ pc'[r] \in Updating \cup {"idle", "resolve"} => row'[r] \in [UserFields -> Field]
        /\ pc'[r] = "update" => row'[r] \in [CompanyFields -> Field]
    <2> USE DEF ReadsOK, TypeOK, Updating
    <2>1. CASE Reject(r)
      BY <2>1 DEF Reject, Answer
    <2>2. CASE Arrive(r)
      BY <2>2 DEF Arrive, Goto, UserOps, CompanyOps, memory
    <2>3. CASE FindUser(r)
      <3>1. CASE pc'[r] = "joins"
        <4>1. /\ req' = req /\ users' = users
              /\ Live(users, req[r].id)
              /\ req[r].op = "UpdateUser"
              /\ row' = [row EXCEPT ![r] = users[req[r].id].val]
          BY <2>3, <3>1 DEF FindUser, At, Goto, Answer, UserOps, tables
        <4> QED BY <3>1, <4>1 DEF Live, UserRow
      <3>2. CASE pc'[r] \in {"done", "delete"}
        BY <3>2
      <3> QED BY <2>3, <3>1, <3>2 DEF FindUser, At, Goto, Answer, UserOps
    <2>4. CASE FindCompany(r)
      <3>1. CASE pc'[r] = "update"
        <4>1. /\ Live(companies, req[r].id)
              /\ row' = [row EXCEPT ![r] = companies[req[r].id].val]
          BY <2>4, <3>1 DEF FindCompany, Goto, Answer
        <4> QED BY <3>1, <4>1 DEF Live, CompanyRow
      <3>2. CASE pc'[r] \in {"done", "delete"}
        BY <3>2
      <3> QED BY <2>4, <3>1, <3>2 DEF FindCompany, At, Goto, Answer, CompanyOps
    <2>5. CASE PreloadJoins(r)
      BY <2>5 DEF PreloadJoins, At, Goto, tables
    <2>6. CASE PreloadCompanies(r)
      BY <2>6 DEF PreloadCompanies, At, Goto, tables
    <2>7. CASE Resolve(r)
      BY <2>7 DEF Resolve, At, Goto, Answer, tables
    <2>8. CASE BeginUpdate(r) \/ Clear(r)
      BY <2>8 DEF BeginUpdate, Clear, At, Goto, tables, memory
    <2>9. CASE ClaimKey(r)
      BY <2>9 DEF ClaimKey, Answer, tables
    <2>10. CASE pc'[r] = "done"
      BY <2>10
    <2>11. SaveUser(r) \/ CommitUpdate(r) \/ DeleteUserRow(r) \/ SaveCompany(r)
             \/ UpdateCompanyRow(r) \/ DeleteCompanyRow(r) \/ BreakDeadlock(r)
             \/ StatementFails(r) => pc'[r] = "done"
      <3>1. SaveUser(r) \/ CommitUpdate(r) \/ DeleteUserRow(r) \/ SaveCompany(r)
              \/ DeleteCompanyRow(r) \/ BreakDeadlock(r) \/ StatementFails(r)
              => pc' = [pc EXCEPT ![r] = "done"]
        BY Ends DEF SaveUser, CommitUpdate, DeleteUserRow, SaveCompany,
                    DeleteCompanyRow, BreakDeadlock, StatementFails, Answer
      <3>2. UpdateCompanyRow(r) => pc' = [pc EXCEPT ![r] = "done"]
        BY Ends DEF UpdateCompanyRow, Answer
      <3> QED BY <3>1, <3>2
    <2> QED BY <2>1, <2>2, <2>3, <2>4, <2>5, <2>6, <2>7, <2>8, <2>9, <2>10, <2>11 DEF Step
  <1> QED BY <1>1, <1>2, <1>3 DEF ReadsOK

(* Each action keeps the companies a request holds to ones that have rows. *)
LEMMA CompaniesStep ==
  ASSUME TypeOK, CompaniesOK, NoDanglingMembership, NEW r \in Requests,
         Reject(r) \/ Arrive(r) \/ Step(r) \/ StatementFails(r)
  PROVE  CompaniesOK'
  <1>1. \A c \in Companies : companies[c].st # "absent" => companies'[c].st # "absent"
    BY RowsStay
  <1>2. \A q \in Requests : \A s \in have'[q] \cup want'[q] :
          s.company \in Companies /\ companies[s.company].st # "absent"
    <2> USE DEF TypeOK, CompaniesOK, Slot
    <2>1. CASE PreloadJoins(r)
      BY <2>1 DEF PreloadJoins, JoinsOf, NoDanglingMembership, JoinRow
    <2>2. CASE PreloadCompanies(r)
      BY <2>2 DEF PreloadCompanies
    <2>3. CASE Resolve(r)
      BY <2>3, Ids DEF Resolve, Associated, Live
    <2>4. CASE UNCHANGED <<have, want>>
      BY <2>4
    <2> QED BY <2>1, <2>2, <2>3, <2>4
            DEF Reject, Arrive, Step, FindUser, FindCompany, SaveUser, BeginUpdate, ClaimKey, BreakDeadlock, Clear,
                CommitUpdate, DeleteUserRow, SaveCompany, UpdateCompanyRow,
                DeleteCompanyRow, StatementFails, memory
  <1> QED BY <1>1, <1>2 DEF CompaniesOK

(* Each action keeps join rows to users and companies that have rows. *)
LEMMA MembershipStep ==
  ASSUME TypeOK, ReadsOK, CompaniesOK, NoDanglingMembership, NEW r \in Requests,
         Reject(r) \/ Arrive(r) \/ Step(r) \/ StatementFails(r)
  PROVE  NoDanglingMembership'
  <1> USE DEF TypeOK, NoDanglingMembership, JoinRow
  <1>1. /\ \A u \in Users : users[u].st # "absent" => users'[u].st # "absent"
        /\ \A c \in Companies : companies[c].st # "absent" => companies'[c].st # "absent"
    BY RowsStay
  <1>2. \A j \in joins' : /\ j.user \in Users /\ users'[j.user].st # "absent"
                          /\ j.company \in Companies /\ companies[j.company].st # "absent"
    <2>1. CASE SaveUser(r)
      BY <2>1, <1>1 DEF SaveUser, Rows, CompaniesOK, Slot
    <2>2. CASE CommitUpdate(r)
      BY <2>2, <1>1 DEF CommitUpdate, At, Rows, CompaniesOK, Slot, ReadsOK, Updating
    <2>3. CASE UNCHANGED joins
      BY <2>3, <1>1
    <2> QED BY <2>1, <2>2, <2>3, TableSteps
            DEF DeleteUserRow, SaveCompany, UpdateCompanyRow, DeleteCompanyRow, tables
  <1> QED BY <1>1, <1>2

-----------------------------------------------------------------------------

(* Writing one row of a table whose keys no other row has keeps them distinct. *)
LEMMA DistinctPut ==
  ASSUME NEW tbl, NEW keys, NEW id \in DOMAIN tbl, NEW st, NEW val,
         Distinct(tbl, keys), ~Taken(tbl, keys, id, val)
  PROVE  Distinct([tbl EXCEPT ![id] = [st |-> st, val |-> val]], keys)
  BY DEF Distinct, Taken

(* Deleting a row softly keeps the keys distinct. *)
LEMMA DistinctGone ==
  ASSUME NEW S, NEW V, NEW tbl \in [S -> [st : Status, val : V]], NEW keys,
         NEW id \in S, tbl[id].st = "live", Distinct(tbl, keys)
  PROVE  Distinct([tbl EXCEPT ![id].st = "gone"], keys)
  BY DEF Distinct

(* A key that no row has is one that no row but id's has. *)
LEMMA TakenMono ==
  ASSUME NEW tbl, NEW keys, NEW id, NEW val, NEW none,
         none \notin DOMAIN tbl, ~Taken(tbl, keys, none, val)
  PROVE  ~Taken(tbl, keys, id, val)
  BY DEF Taken

(* An open update is of a user that has a row. *)
LEMMA UpdateWrites ==
  ASSUME ReadsOK, NEW q \in Requests, InTx(q)
  PROVE  /\ req[q].op = "UpdateUser" /\ Own(q) = req[q].id /\ Writes(q) = NewVal(q)
         /\ Own(q) \in Users /\ users[Own(q)].st # "absent"
         /\ ~At(q, "save", {"CreateUser"})
  BY DEF InTx, ReadsOK, Updating, Own, Writes, At

(* What a transaction commits has no key of another row. *)
LEMMA CommitFree ==
  ASSUME TypeOK, ReadsOK, PendingOK, UniqueKeys, NEW r \in Requests,
         pc[r] = "commit", Live(users, req[r].id)
  PROVE  ~Taken(users, UserKeys, req[r].id, NewVal(r))
  <1>1. InTx(r) /\ Writer(r)
    BY DEF InTx, Writer, Locks
  <1>2. /\ \A k \in held[r] : ~Taken(users, {k}, req[r].id, NewVal(r))
        /\ \A k \in UserKeys \ held[r] : NewVal(r)[k] = users[req[r].id].val[k]
    <2>1. /\ req[r].op = "UpdateUser" /\ Own(r) = req[r].id /\ Writes(r) = NewVal(r)
      BY <1>1, UpdateWrites
    <2>2. /\ \A k \in held[r] : ~Taken(users, {k}, Own(r), Writes(r))
          /\ Unclaimed(r) = {}
      BY <1>1 DEF PendingOK
    <2>3. \A k \in UserKeys \ held[r] : Writes(r)[k] = users[Own(r)].val[k]
      BY <2>1, <2>2 DEF Unclaimed
    <2> QED BY <2>1, <2>2, <2>3
  <1> QED BY <1>1, <1>2, UpdateWrites DEF Taken, UniqueKeys, Distinct, TypeOK

(* Nor does a new user, once all its keys are in their indexes. *)
LEMMA SaveFree ==
  ASSUME TypeOK, PendingOK, NEW r \in Requests,
         At(r, "save", {"CreateUser"}), Unclaimed(r) = {}
  PROVE  /\ UserKeys \subseteq held[r]
         /\ ~Taken(users, UserKeys, Blank, req[r].val)
  <1>1. Writer(r) /\ Own(r) = Blank /\ Writes(r) = req[r].val
    BY DEF Writer, Own, Writes, At
  <1>2. UserKeys \subseteq held[r]
    BY DEF Unclaimed, At
  <1>3. \A k \in UserKeys : ~Taken(users, {k}, Blank, req[r].val)
    BY <1>1, <1>2 DEF PendingOK
  <1> QED BY <1>2, <1>3 DEF Taken

(* A writer and its row are not touched by a step of another request. *)
LEMMA PendingStable ==
  ASSUME TypeOK, ReadsOK, PendingOK, NEW r \in Requests,
         Reject(r) \/ Arrive(r) \/ Step(r) \/ StatementFails(r),
         NEW q \in Requests \ {r}, Writer(q)'
  PROVE  /\ Writer(q)
         /\ pc'[q] = pc[q] /\ req'[q] = req[q] /\ held'[q] = held[q]
         /\ (InTx(q)' <=> InTx(q))
         /\ InTx(q) => Live(users, req[q].id) /\ users'[req[q].id] = users[req[q].id]
         /\ Own(q)' = Own(q) /\ Writes(q)' = Writes(q)
         /\ Unclaimed(q)' = Unclaimed(q)
  <1>1. pc'[q] = pc[q] /\ req'[q] = req[q] /\ row'[q] = row[q] /\ held'[q] = held[q]
    BY OthersKept
  <1>2. (InTx(q)' <=> InTx(q)) /\ Own(q)' = Own(q)
    BY <1>1 DEF InTx, Own
  <1>3. CASE ~InTx(q)
    <2>1. At(q, "save", {"CreateUser"})
      BY <1>1, <1>2, <1>3 DEF Writer, Locks, At
    <2>2. Writes(q)' = Writes(q) /\ Unclaimed(q)' = Unclaimed(q)
      BY <1>1, <2>1 DEF Writes, Unclaimed, At
    <2> QED BY <1>1, <1>2, <1>3, <2>1, <2>2 DEF Writer
  <1>4. CASE InTx(q)
    <2> DEFINE u == req[q].id
    <2>1. req[q].op = "UpdateUser" /\ u \in Users /\ users[u].st # "absent"
      BY <1>4, UpdateWrites
    <2>2. Live(users, u)'
      BY <1>1, <1>2, <1>4, <2>1 DEF Writer, Locks, At
    <2>3. users'[u] = users[u]
      <3> USE <2>1, <2>2 DEF TypeOK, UserRow
      <3>1. CASE SaveUser(r)
        BY <3>1 DEF SaveUser
      <3>2. CASE CommitUpdate(r)
        <4>1. InTx(r) /\ UNCHANGED req
          BY <3>2 DEF CommitUpdate, At, InTx
        <4>2. CASE Live(users, req[r].id) /\ req[r].id = u
          BY <1>4, <4>1, <4>2 DEF PendingOK, Writer, Locks
        <4> QED BY <3>2, <4>2 DEF CommitUpdate, Live
      <3>3. CASE DeleteUserRow(r)
        BY <1>4, <3>3 DEF DeleteUserRow, Locked, Locks, Live
      <3>4. CASE UNCHANGED users
        BY <3>4
      <3> QED BY <3>1, <3>2, <3>3, <3>4, TableSteps
              DEF SaveCompany, UpdateCompanyRow, DeleteCompanyRow, tables
    <2>4. Live(users, u)
      BY <1>1, <2>1, <2>2, <2>3 DEF Live, TypeOK
    <2>5. Writes(q)' = Writes(q) /\ Unclaimed(q)' = Unclaimed(q)
      <3>1. NewVal(q)' = NewVal(q)
        BY <1>1, <2>3 DEF NewVal, Merge
      <3>2. Writes(q)' = Writes(q)
        BY <1>1, <3>1 DEF Writes
      <3> QED BY <1>1, <1>2, <2>1, <2>3, <3>2 DEF Unclaimed, Own
    <2> QED BY <1>1, <1>2, <1>4, <2>3, <2>4, <2>5 DEF Writer, Locks
  <1> QED BY <1>3, <1>4

(* Each action keeps the unique keys of both tables distinct. *)
LEMMA UniqueStep ==
  ASSUME TypeOK, ReadsOK, PendingOK, UniqueKeys, NEW r \in Requests,
         Reject(r) \/ Arrive(r) \/ Step(r) \/ StatementFails(r)
  PROVE  UniqueKeys'
  <1>1. Distinct(users, UserKeys)'
    <2> USE DEF TypeOK, UniqueKeys
    <2>1. CASE SaveUser(r)
      <3>1. CASE UNCHANGED users
        BY <3>1 DEF Distinct
      <3>2. CASE ~UNCHANGED users
        <4>1. PICK u \in Users :
                users' = [users EXCEPT ![u] = [st |-> "live", val |-> req[r].val]]
          BY <2>1, <3>2 DEF SaveUser
        <4>2. ~Taken(users, UserKeys, Blank, req[r].val)
          BY <2>1, <3>2, SaveFree DEF SaveUser
        <4>3. ~Taken(users, UserKeys, u, req[r].val)
          BY <4>2, TakenMono, BlankEmpty
        <4>4. Distinct([users EXCEPT ![u] = [st |-> "live", val |-> req[r].val]], UserKeys)
          BY <4>3, DistinctPut
        <4> QED BY <4>1, <4>4 DEF Distinct
      <3> QED BY <3>1, <3>2
    <2>2. CASE CommitUpdate(r)
      <3>1. CASE Live(users, req[r].id)
        <4>1. users' = [users EXCEPT ![req[r].id] = [st |-> "live", val |-> NewVal(r)]]
          BY <2>2, <3>1 DEF CommitUpdate
        <4>2. ~Taken(users, UserKeys, req[r].id, NewVal(r))
          BY <2>2, <3>1, CommitFree DEF CommitUpdate, At
        <4>3. req[r].id \in DOMAIN users
          BY <3>1 DEF Live
        <4>4. Distinct([users EXCEPT ![req[r].id] = [st |-> "live", val |-> NewVal(r)]],
                       UserKeys)
          BY <4>2, <4>3, DistinctPut
        <4> QED BY <4>1, <4>4 DEF Distinct
      <3>2. CASE ~Live(users, req[r].id)
        BY <2>2, <3>2 DEF CommitUpdate, Distinct
      <3> QED BY <3>1, <3>2
    <2>3. CASE DeleteUserRow(r)
      <3>1. CASE Live(users, req[r].id)
        <4>1. users' = [users EXCEPT ![req[r].id].st = "gone"]
          BY <2>3, <3>1 DEF DeleteUserRow
        <4> QED BY <3>1, <4>1 DEF Live, Distinct, UserRow
      <3>2. CASE ~Live(users, req[r].id)
        BY <2>3, <3>2 DEF DeleteUserRow, Distinct
      <3> QED BY <3>1, <3>2
    <2>4. CASE UNCHANGED users
      BY <2>4 DEF Distinct
    <2> QED BY <2>1, <2>2, <2>3, <2>4, TableSteps
            DEF SaveCompany, UpdateCompanyRow, DeleteCompanyRow, tables
  <1>2. Distinct(companies, CompanyKeys)'
    <2> USE DEF TypeOK, UniqueKeys
    <2>1. CASE SaveCompany(r)
      <3>1. CASE UNCHANGED companies
        BY <3>1 DEF Distinct
      <3>2. CASE ~UNCHANGED companies
        <4>1. PICK c \in Companies :
                companies' = [companies EXCEPT ![c] = [st |-> "live", val |-> req[r].val]]
          BY <2>1, <3>2 DEF SaveCompany
        <4>2. ~Taken(companies, CompanyKeys, Blank, req[r].val)
          BY <2>1, <3>2 DEF SaveCompany
        <4>3. ~Taken(companies, CompanyKeys, c, req[r].val)
          BY <4>2, TakenMono, BlankEmpty
        <4>4. Distinct([companies EXCEPT ![c] = [st |-> "live", val |-> req[r].val]], CompanyKeys)
          BY <4>3, DistinctPut
        <4> QED BY <4>1, <4>4 DEF Distinct
      <3> QED BY <3>1, <3>2
    <2>2. CASE UpdateCompanyRow(r)
      <3> DEFINE c == req[r].id
                 val == Merge(companies[c].val, Merge(row[r], req[r].val))
      <3>1. \/ UNCHANGED companies
            \/ /\ Live(companies, c)
               /\ ~Taken(companies, CompanyKeys, c, val)
               /\ companies' = [companies EXCEPT ![c] = [st |-> "live", val |-> val]]
        BY <2>2 DEF UpdateCompanyRow
      <3> HIDE DEF val
      <3>2. CASE UNCHANGED companies
        BY <3>2 DEF Distinct
      <3>3. CASE ~UNCHANGED companies
        <4>1. c \in DOMAIN companies /\ ~Taken(companies, CompanyKeys, c, val)
          BY <3>1, <3>3 DEF Live
        <4>2. Distinct([companies EXCEPT ![c] = [st |-> "live", val |-> val]], CompanyKeys)
          BY <4>1, DistinctPut
        <4> QED BY <3>1, <3>3, <4>2 DEF Distinct
      <3> QED BY <3>2, <3>3
    <2>3. CASE DeleteCompanyRow(r)
      <3>1. CASE Live(companies, req[r].id)
        <4>1. companies' = [companies EXCEPT ![req[r].id].st = "gone"]
          BY <2>3, <3>1 DEF DeleteCompanyRow
        <4> QED BY <3>1, <4>1 DEF Live, Distinct, CompanyRow
      <3>2. CASE ~Live(companies, req[r].id)
        BY <2>3, <3>2 DEF DeleteCompanyRow, Distinct
      <3> QED BY <3>1, <3>2
    <2>4. CASE UNCHANGED companies
      BY <2>4 DEF Distinct
    <2> QED BY <2>1, <2>2, <2>3, <2>4, TableSteps
            DEF SaveUser, CommitUpdate, DeleteUserRow, tables
  <1> QED BY <1>1, <1>2 DEF UniqueKeys

(* How a request comes to be a writer, and what it does as one. *)
LEMMA WriterSteps ==
  ASSUME TypeOK, ReadsOK, PendingOK, NEW r \in Requests,
         Reject(r) \/ Arrive(r) \/ Step(r) \/ StatementFails(r), Writer(r)'
  PROVE  /\ UNCHANGED tables
         /\ \/ /\ held'[r] = {} /\ pc'[r] # "commit"
               /\ InTx(r)' => req' = req /\ ~Locked(req[r].id)
            \/ ClaimKey(r) /\ held' = [held EXCEPT ![r] = @ \cup {NextKey(r)}]
               /\ UNCHANGED pc /\ ~Taken(users, {NextKey(r)}, Own(r), Writes(r))
            \/ Clear(r)
  <1> USE DEF TypeOK
  <1>1. pc'[r] \in {"keys", "commit", "save"}
    BY DEF Writer, Locks, InTx, At
  <1>2. CASE Arrive(r) \/ Resolve(r)
    <2>1. held'[r] = {} /\ UNCHANGED tables
      BY <1>2 DEF PendingOK, Arrive, Resolve, At
    <2>2. pc'[r] \notin {"keys", "commit"}
      BY <1>2 DEF Arrive, Resolve, Goto, Answer
    <2> QED BY <1>2, <2>1, <2>2 DEF InTx
  <1>3. CASE BeginUpdate(r)
    BY <1>3 DEF BeginUpdate, At, Goto, PendingOK, memory, tables
  <1>4. CASE ClaimKey(r)
    BY <1>1, <1>4 DEF ClaimKey, Answer
  <1>5. CASE Clear(r)
    BY <1>5 DEF Clear
  <1>6. FindUser(r) \/ FindCompany(r) => pc'[r] \notin {"keys", "commit", "save"}
    BY DEF FindUser, FindCompany, At, UserOps, CompanyOps, Goto, Answer
  <1>7. PreloadJoins(r) \/ PreloadCompanies(r) \/ Reject(r) \/ StatementFails(r)
          \/ BreakDeadlock(r) => pc'[r] \notin {"keys", "commit", "save"}
    BY DEF PreloadJoins, PreloadCompanies, Reject, StatementFails, BreakDeadlock, Goto, Answer
  <1>8. SaveUser(r) \/ CommitUpdate(r) \/ DeleteUserRow(r) \/ SaveCompany(r)
          \/ DeleteCompanyRow(r) => pc'[r] = "done"
    BY Ends DEF SaveUser, CommitUpdate, DeleteUserRow, SaveCompany, DeleteCompanyRow, Answer
  <1>9. UpdateCompanyRow(r) => pc'[r] = "done"
    BY Ends DEF UpdateCompanyRow, Answer
  <1> QED BY <1>1, <1>2, <1>3, <1>4, <1>5, <1>6, <1>7, <1>8, <1>9 DEF Step

(* What a writer is going to write, its own steps before the last do not change. *)
LEMMA WriterKept ==
  ASSUME NEW r \in Requests, UNCHANGED <<users, req, row>>
  PROVE  Own(r)' = Own(r) /\ Writes(r)' = Writes(r)
  BY DEF Own, Writes, NewVal, Merge

(* Only a request that writes, or is about to be done, has keys in hand. *)
LEMMA HeldStep ==
  ASSUME TypeOK, PendingOK, NEW r \in Requests,
         Reject(r) \/ Arrive(r) \/ Step(r) \/ StatementFails(r), NEW q \in Requests,
         pc'[q] \in {"idle", "find", "joins", "comps", "resolve", "write"}
  PROVE  held'[q] = {}
  <1> USE DEF TypeOK
  <1>1. CASE q # r
    BY <1>1, OthersKept DEF PendingOK
  <1>2. CASE q = r
    <2>1. pc[r] \in {"keys", "commit", "save", "delete", "update", "done"} =>
            pc'[r] \in {"keys", "commit", "save", "delete", "update", "done"}
      <3>1. SaveUser(r) \/ CommitUpdate(r) \/ DeleteUserRow(r) \/ SaveCompany(r)
              \/ DeleteCompanyRow(r) \/ BreakDeadlock(r) \/ StatementFails(r) \/ Reject(r)
              => pc'[r] = "done"
        BY Ends DEF SaveUser, CommitUpdate, DeleteUserRow, SaveCompany, DeleteCompanyRow,
                    BreakDeadlock, StatementFails, Reject, Answer
      <3>2. UpdateCompanyRow(r) => pc'[r] = "done"
        BY Ends DEF UpdateCompanyRow, Answer
      <3>3. ClaimKey(r) => UNCHANGED pc \/ pc'[r] = "done"
        BY DEF ClaimKey, Answer
      <3>4. Clear(r) => pc'[r] = "commit"
        BY DEF Clear, Goto
      <3>5. Arrive(r) \/ FindUser(r) \/ FindCompany(r) \/ PreloadJoins(r)
              \/ PreloadCompanies(r) \/ Resolve(r) \/ BeginUpdate(r)
              => pc[r] \in {"idle", "find", "joins", "comps", "resolve", "write"}
        BY DEF Arrive, FindUser, FindCompany, PreloadJoins, PreloadCompanies, Resolve,
               BeginUpdate, At
      <3> QED BY <3>1, <3>2, <3>3, <3>4, <3>5 DEF Step
    <2>2. held[r] = {} /\ pc[r] \in {"idle", "find", "joins", "comps", "resolve", "write"}
      BY <1>2, <2>1 DEF PendingOK
    <2>3. ~ClaimKey(r)
      BY <2>2 DEF ClaimKey, Claiming, Unclaimed, Writer, Locks, InTx, At
    <2>4. UNCHANGED held
      BY <2>3 DEF Reject, Arrive, Step, StatementFails, FindUser, FindCompany, PreloadJoins,
             PreloadCompanies, Resolve, SaveUser, BeginUpdate, BreakDeadlock, Clear,
             CommitUpdate, DeleteUserRow, SaveCompany, UpdateCompanyRow, DeleteCompanyRow,
             memory
    <2> QED BY <1>2, <2>2, <2>4
  <1> QED BY <1>1, <1>2

(* Each action keeps the keys of open transactions free for them. *)
LEMMA PendingStep ==
  ASSUME TypeOK, ReadsOK, PendingOK, UniqueKeys, NEW r \in Requests,
         Reject(r) \/ Arrive(r) \/ Step(r) \/ StatementFails(r)
  PROVE  PendingOK'
  <1> USE DEF TypeOK
  <1>1. ASSUME NEW q \in Requests \ {r}, Writer(q)', NEW k \in held'[q]
        PROVE  ~Taken(users, {k}, Own(q), Writes(q))'
    <2> DEFINE u == Own(q)
               v == Writes(q)[k]
    <2>1. /\ Writer(q) /\ held'[q] = held[q] /\ Own(q)' = u /\ Writes(q)' = Writes(q)
          /\ InTx(q) => Live(users, req[q].id)
      BY <1>1, PendingStable
    <2>2. k \in held[q] /\ k \in UserKeys /\ ~Taken(users, {k}, u, Writes(q))
      BY <1>1, <2>1 DEF PendingOK
    <2>3. ASSUME NEW o \in Users \ {u}, users'[o].st # "absent", users'[o].val[k] = v
          PROVE  FALSE
      <3>1. ~(users[o].st # "absent" /\ users[o].val[k] = v)
        BY <2>2, <2>3 DEF Taken
      <3> HIDE DEF v
      <3>2. CASE SaveUser(r)
        <4>1. users'[o] # users[o]
          BY <2>3, <3>1
        <4>2. /\ At(r, "save", {"CreateUser"}) /\ Unclaimed(r) = {}
              /\ users'[o].val = req[r].val
          BY <3>2, <4>1 DEF SaveUser
        <4>3. k \in held[r] /\ Writer(r) /\ Writes(r) = req[r].val
          BY <2>2, <4>2, SaveFree DEF Writer, Writes, At
        <4>4. Writes(r)[k] # Writes(q)[k]
          BY <2>1, <2>2, <4>3 DEF PendingOK
        <4> QED BY <2>3, <4>2, <4>3, <4>4 DEF v
      <3>3. CASE CommitUpdate(r)
        <4>1. users'[o] # users[o]
          BY <2>3, <3>1
        <4>2. /\ pc[r] = "commit" /\ Live(users, req[r].id) /\ o = req[r].id
              /\ users'[o].val = NewVal(r)
          BY <3>3, <4>1 DEF CommitUpdate, At
        <4>3. InTx(r) /\ Writer(r) /\ Writes(r) = NewVal(r) /\ Own(r) = o
          BY <4>2, UpdateWrites DEF InTx, Writer, Locks
        <4>4. CASE k \in held[r]
          BY <2>1, <2>2, <2>3, <4>2, <4>3, <4>4 DEF PendingOK, v
        <4>5. CASE k \notin held[r]
          <5>1. NewVal(r)[k] = users[o].val[k]
            BY <2>2, <4>2, <4>3, <4>5 DEF PendingOK, Unclaimed
          <5> QED BY <2>3, <3>1, <4>2, <5>1 DEF Live
        <4> QED BY <4>4, <4>5
      <3>4. CASE DeleteUserRow(r)
        <4>1. users'[o].val = users[o].val /\ users[o].st # "absent"
          BY <2>3, <3>4 DEF DeleteUserRow, Live, UserRow
        <4> QED BY <2>3, <3>1, <4>1
      <3>5. CASE UNCHANGED users
        BY <2>3, <3>1, <3>5
      <3> QED BY <3>2, <3>3, <3>4, <3>5, TableSteps
              DEF SaveCompany, UpdateCompanyRow, DeleteCompanyRow, tables
    <2>4. DOMAIN users' = Users
      BY TypeStep
    <2> QED BY <2>1, <2>3, <2>4 DEF Taken
  <1>2. ASSUME Writer(r)', NEW k \in held'[r]
        PROVE  ~Taken(users, {k}, Own(r), Writes(r))'
    <2>1. CASE held'[r] = {}
      BY <1>2, <2>1
    <2>2. CASE ClaimKey(r) /\ ~Taken(users, {NextKey(r)}, Own(r), Writes(r))
               /\ held' = [held EXCEPT ![r] = @ \cup {NextKey(r)}]
      <3>1. Own(r)' = Own(r) /\ Writes(r)' = Writes(r) /\ UNCHANGED users
        BY <2>2, WriterKept DEF ClaimKey, tables
      <3>2. k \in held[r] \/ k = NextKey(r)
        BY <1>2, <2>2
      <3>3. ~Taken(users, {k}, Own(r), Writes(r))
        BY <2>2, <3>2 DEF PendingOK, ClaimKey, Claiming
      <3> QED BY <3>1, <3>3 DEF Taken
    <2>3. CASE Clear(r)
      <3>1. Own(r)' = Own(r) /\ Writes(r)' = Writes(r) /\ UNCHANGED <<users, held, req>>
        BY <2>3, WriterKept DEF Clear, tables
      <3>2. Writer(r)
        BY <1>2, <2>3, <3>1 DEF Writer, Locks, InTx, Clear, At, Live
      <3>3. ~Taken(users, {k}, Own(r), Writes(r))
        BY <1>2, <3>1, <3>2 DEF PendingOK
      <3> QED BY <3>1, <3>3 DEF Taken
    <2> QED BY <1>2, <2>1, <2>2, <2>3, WriterSteps
  <1>3. ASSUME NEW q \in Requests, Writer(q)', pc'[q] = "commit"
        PROVE  Unclaimed(q)' = {}
    <2>1. CASE q # r
      BY <1>3, <2>1, PendingStable DEF PendingOK
    <2>2. CASE q = r
      <3>1. CASE Clear(r)
        <4>1. Own(r)' = Own(r) /\ Writes(r)' = Writes(r) /\ UNCHANGED <<users, held, req>>
          BY <3>1, WriterKept DEF Clear, tables
        <4>2. Writer(r) /\ pc[r] = "keys" /\ req[r].op = "UpdateUser"
          BY <1>3, <2>2, <3>1, <4>1 DEF Writer, Locks, InTx, Clear, At, Live
        <4>3. Unclaimed(r) = {}
          BY <3>1, <4>2 DEF Clear, Claiming
        <4> QED BY <2>2, <4>1, <4>3 DEF Unclaimed
      <3>2. CASE ClaimKey(r) /\ UNCHANGED pc
        BY <1>3, <2>2, <3>2 DEF ClaimKey, Claiming
      <3> QED BY <1>3, <2>2, <3>1, <3>2, WriterSteps
    <2> QED BY <2>1, <2>2
  <1>4. ASSUME NEW q \in Requests \ {r}, Writer(q)', Writer(r)'
        PROVE  /\ InTx(q)' /\ InTx(r)' => req'[q].id # req'[r].id
               /\ \A k \in held'[q] \cap held'[r] : Writes(q)'[k] # Writes(r)'[k]
    <2>1. /\ Writer(q) /\ req'[q] = req[q] /\ held'[q] = held[q] /\ (InTx(q)' <=> InTx(q))
          /\ InTx(q) => Live(users, req[q].id)
          /\ Writes(q)' = Writes(q)
      BY <1>4, PendingStable
    <2>2. CASE held'[r] = {} /\ (InTx(r)' => req' = req /\ ~Locked(req[r].id))
      BY <2>1, <2>2 DEF Locked, Locks
    <2>3. CASE ClaimKey(r) /\ UNCHANGED pc
               /\ held' = [held EXCEPT ![r] = @ \cup {NextKey(r)}]
      <3>1. /\ Writer(r) /\ UNCHANGED <<req, pc>> /\ Writes(r)' = Writes(r)
            /\ ~KeyBusy(r, NextKey(r)) /\ (InTx(r)' <=> InTx(r))
        BY <2>3, WriterKept DEF ClaimKey, Claiming, tables, InTx
      <3>2. InTx(q) /\ InTx(r) => req[q].id # req[r].id
        BY <2>1, <3>1 DEF PendingOK
      <3>3. ASSUME NEW k \in held'[q] \cap held'[r]
            PROVE  Writes(q)[k] # Writes(r)[k]
        <4>1. k \in held[q] /\ (k \in held[r] \/ k = NextKey(r))
          BY <2>1, <2>3
        <4>2. CASE k \in held[r]
          BY <2>1, <3>1, <4>1, <4>2 DEF PendingOK
        <4>3. CASE k = NextKey(r)
          BY <2>1, <3>1, <4>1, <4>3 DEF KeyBusy, HasKey
        <4> QED BY <4>1, <4>2, <4>3
      <3> QED BY <2>1, <3>1, <3>2, <3>3
    <2>4. CASE Clear(r)
      <3>1. /\ Writes(r)' = Writes(r) /\ UNCHANGED <<users, held, req>>
            /\ InTx(r)
        BY <2>4, WriterKept DEF Clear, At, InTx, tables
      <3>2. Writer(r)
        BY <1>4, <2>4, <3>1 DEF Writer, Locks, InTx, Clear, At, Live
      <3> QED BY <2>1, <3>1, <3>2 DEF PendingOK
    <2> QED BY <1>4, <2>2, <2>3, <2>4, WriterSteps
  <1>5. ASSUME NEW q \in Requests \ {r}, NEW p \in Requests \ {q, r}, Writer(q)', Writer(p)'
        PROVE  /\ InTx(p)' /\ InTx(q)' => req'[p].id # req'[q].id
               /\ \A k \in held'[p] \cap held'[q] : Writes(p)'[k] # Writes(q)'[k]
    <2>1. /\ Writer(q) /\ req'[q] = req[q] /\ held'[q] = held[q] /\ (InTx(q)' <=> InTx(q))
          /\ Writes(q)' = Writes(q)
      BY <1>5, PendingStable
    <2>2. /\ Writer(p) /\ req'[p] = req[p] /\ held'[p] = held[p] /\ (InTx(p)' <=> InTx(p))
          /\ Writes(p)' = Writes(p)
      BY <1>5, PendingStable
    <2> QED BY <2>1, <2>2 DEF PendingOK
  <1>6. \A q \in Requests : pc'[q] \in {"idle", "find", "joins", "comps", "resolve", "write"}
                            => held'[q] = {}
    BY HeldStep
  <1>7. ASSUME NEW q \in Requests, Writer(q)'
        PROVE  /\ \A k \in held'[q] : ~Taken(users, {k}, Own(q), Writes(q))'
               /\ \A p \in Requests \ {q} : Writer(p)' =>
                    /\ InTx(p)' /\ InTx(q)' => req'[p].id # req'[q].id
                    /\ \A k \in held'[p] \cap held'[q] : Writes(p)'[k] # Writes(q)'[k]
    <2>1. CASE q = r
      BY <1>2, <1>4, <1>7, <2>1
    <2>2. CASE q # r
      BY <1>1, <1>4, <1>5, <1>7, <2>2
    <2> QED BY <2>1, <2>2
  <1> HIDE DEF TypeOK
  <1> QED BY <1>3, <1>6, <1>7 DEF PendingOK

(* A transaction is ready to commit by its Clear and by nothing else. *)
LEMMA CommitOnlyByClear ==
  ASSUME TypeOK, NEW r \in Requests,
         Reject(r) \/ Arrive(r) \/ Step(r) \/ StatementFails(r), pc'[r] = "commit"
  PROVE  Clear(r)
  <1> USE DEF TypeOK, Goto, Answer
  <1>1. ~Reject(r) /\ ~Arrive(r) /\ ~StatementFails(r)
    BY DEF Reject, Arrive, StatementFails
  <1>2. ~FindUser(r) /\ ~FindCompany(r)
    BY DEF FindUser, FindCompany, At, UserOps, CompanyOps
  <1>3. ~PreloadJoins(r) /\ ~PreloadCompanies(r) /\ ~Resolve(r) /\ ~BeginUpdate(r)
    BY DEF PreloadJoins, PreloadCompanies, Resolve, BeginUpdate
  <1>4. ~ClaimKey(r) /\ ~BreakDeadlock(r)
    BY DEF ClaimKey, Claiming, BreakDeadlock
  <1>5. ~SaveUser(r) /\ ~CommitUpdate(r) /\ ~DeleteUserRow(r)
    BY Ends DEF SaveUser, CommitUpdate, DeleteUserRow
  <1>6. ~SaveCompany(r) /\ ~UpdateCompanyRow(r) /\ ~DeleteCompanyRow(r)
    BY Ends DEF SaveCompany, UpdateCompanyRow, DeleteCompanyRow
  <1> QED BY <1>1, <1>2, <1>3, <1>4, <1>5, <1>6 DEF Step

(* Each action keeps what transactions have deleted complete, and every live *)
(* user's memberships from one request.                                      *)
LEMMA WriterStep ==
  ASSUME TypeOK, ReadsOK, PendingOK, ClearedOK, OneWriterPerUser, NoDanglingMembership,
         NEW r \in Requests,
         Reject(r) \/ Arrive(r) \/ Step(r) \/ StatementFails(r)
  PROVE  ClearedOK' /\ OneWriterPerUser'
  <1>1. \A q \in Requests \ {r} : cleared'[q] = cleared[q] /\ pc'[q] = pc[q] /\ req'[q] = req[q]
    BY OthersKept
  <1>3. ASSUME NEW q \in Requests \ {r}, pc'[q] = "commit", Live(users, req[q].id)'
        PROVE  /\ Live(users, req[q].id)
               /\ \A j \in joins' : j.user = req'[q].id => j \in joins
    <2>1. Writer(q)' /\ InTx(q)
      BY <1>1, <1>3 DEF Writer, Locks, InTx
    <2>2. /\ Writer(q) /\ Live(users, req[q].id) /\ req'[q] = req[q] /\ req[q].id \in Users
      BY <2>1, PendingStable, UpdateWrites
    <2>3. CASE SaveUser(r)
      BY <2>2, <2>3 DEF SaveUser, Rows, Live, TypeOK
    <2>4. CASE CommitUpdate(r)
      <3>1. InTx(r) /\ joins' = (joins \ cleared[r]) \cup Rows(r, req[r].id, want[r])
        BY <2>4 DEF CommitUpdate, At, InTx
      <3>2. CASE req[r].id = req[q].id
        BY <2>1, <2>2, <3>1, <3>2 DEF PendingOK, Writer, Locks
      <3>3. CASE req[r].id # req[q].id
        BY <2>2, <3>1, <3>3 DEF Rows
      <3> QED BY <3>2, <3>3
    <2>5. CASE UNCHANGED joins
      BY <2>2, <2>5
    <2> QED BY <2>2, <2>3, <2>4, <2>5, TableSteps
            DEF DeleteUserRow, SaveCompany, UpdateCompanyRow, DeleteCompanyRow, tables
  <1>4. ClearedOK'
    <2>1. ASSUME NEW q \in Requests \ {r}, pc'[q] = "commit"
          PROVE  /\ \A j \in cleared'[q] : j.user = req'[q].id
                 /\ Live(users, req[q].id)' => JoinsOf(req[q].id)' \subseteq cleared'[q]
      BY <1>1, <1>3, <2>1 DEF ClearedOK, JoinsOf
    <2>2. ASSUME pc'[r] = "commit"
          PROVE  /\ \A j \in cleared'[r] : j.user = req'[r].id
                 /\ Live(users, req[r].id)' => JoinsOf(req[r].id)' \subseteq cleared'[r]
      <3>1. Clear(r)
        BY <2>2, CommitOnlyByClear
      <3> QED BY <3>1 DEF Clear, JoinsOf, TypeOK, tables
    <2> QED BY <2>1, <2>2 DEF ClearedOK
  <1>5. OneWriterPerUser'
    <2> USE DEF TypeOK, OneWriterPerUser
    <2>1. CASE SaveUser(r)
      <3>1. CASE UNCHANGED <<users, joins>>
        BY <3>1 DEF Live
      <3>2. CASE ~UNCHANGED <<users, joins>>
        <4>1. PICK u \in Users :
                /\ users[u].st = "absent"
                /\ users' = [users EXCEPT ![u] = [st |-> "live", val |-> req[r].val]]
                /\ joins' = joins \cup Rows(r, u, want[r])
          BY <2>1, <3>2 DEF SaveUser
        <4>2. \A j \in joins : j.user # u
          BY <4>1 DEF NoDanglingMembership
        <4> QED BY <4>1, <4>2 DEF Rows, Live
      <3> QED BY <3>1, <3>2
    <2>2. CASE CommitUpdate(r)
      <3> DEFINE u == req[r].id
      <3>1. joins' = (joins \ cleared[r]) \cup Rows(r, u, want[r])
        BY <2>2 DEF CommitUpdate
      <3>2. /\ \A j \in cleared[r] : j.user = u
            /\ Live(users, u) => JoinsOf(u) \subseteq cleared[r]
        BY <2>2 DEF CommitUpdate, At, ClearedOK
      <3>3. \A v : Live(users, v)' => Live(users, v)
        BY <2>2 DEF CommitUpdate, Live
      <3> QED BY <3>1, <3>2, <3>3 DEF Rows, JoinsOf
    <2>3. CASE DeleteUserRow(r)
      BY <2>3 DEF DeleteUserRow, Live, UserRow
    <2>4. CASE UNCHANGED <<users, joins>>
      BY <2>4 DEF Live
    <2> QED BY <2>1, <2>2, <2>3, <2>4, TableSteps
            DEF SaveCompany, UpdateCompanyRow, DeleteCompanyRow, tables
  <1> QED BY <1>4, <1>5

-----------------------------------------------------------------------------

(* The invariant is inductive. *)
LEMMA InvStep == IInv /\ [Next]_vars => IInv'
  <1> SUFFICES ASSUME IInv, [Next]_vars PROVE IInv'
    OBVIOUS
  <1> USE DEF IInv
  <1>1. ASSUME NEW r \in Requests,
               Reject(r) \/ Arrive(r) \/ Step(r) \/ StatementFails(r)
        PROVE  IInv'
    BY <1>1, TypeStep, ReadsStep, CompaniesStep, UniqueStep, PendingStep, WriterStep,
       MembershipStep
  <1>2. CASE UNCHANGED vars
    <2> USE <1>2 DEF vars
    <2>1. TypeOK' /\ ReadsOK' /\ CompaniesOK' /\ NoDanglingMembership'
      BY DEF TypeOK, ReadsOK, CompaniesOK, NoDanglingMembership
    <2>2. UniqueKeys'
      BY DEF UniqueKeys, Distinct
    <2>3. ClearedOK' /\ OneWriterPerUser'
      BY DEF ClearedOK, OneWriterPerUser, Live, JoinsOf
    <2>4. PendingOK'
      <3>1. \A q \in Requests : /\ Writes(q)' = Writes(q) /\ Own(q)' = Own(q)
                                /\ (InTx(q)' <=> InTx(q)) /\ (Writer(q)' <=> Writer(q))
        BY WriterKept DEF InTx, Writer, Locks, Live, At
      <3>2. \A q \in Requests : Unclaimed(q)' = Unclaimed(q)
        BY <3>1 DEF Unclaimed
      <3>3. \A q \in Requests, k \in UserKeys :
              Taken(users, {k}, Own(q), Writes(q))' <=> Taken(users, {k}, Own(q), Writes(q))
        BY <3>1 DEF Taken
      <3> QED BY <3>1, <3>2, <3>3 DEF PendingOK, TypeOK
    <2> QED BY <2>1, <2>2, <2>3, <2>4
  <1> QED BY <1>1, <1>2 DEF Next, Finished

(* Every reachable state satisfies the inductive invariant. *)
THEOREM Invariance == Spec => []IInv
  BY InitInv, InvStep, PTL DEF Spec

(* The program keeps to its types whatever requests run at the same time. *)
THEOREM TypeCorrect == Spec => []TypeOK
  <1>1. IInv => TypeOK
    BY DEF IInv
  <1> QED BY <1>1, Invariance, PTL

(* Keys stay unique under every interleaving of statements and transactions. *)
THEOREM KeysStayUnique == Spec => []UniqueKeys
  <1>1. IInv => UniqueKeys
    BY DEF IInv
  <1> QED BY <1>1, Invariance, PTL

(* Overlapping updates never mix the memberships of a live user. *)
THEOREM MembershipsNeverMix == Spec => []OneWriterPerUser
  <1>1. IInv => OneWriterPerUser
    BY DEF IInv
  <1> QED BY <1>1, Invariance, PTL

(* No membership ever names a user or a company without a row. *)
THEOREM MembershipsResolve == Spec => []NoDanglingMembership
  <1>1. IInv => NoDanglingMembership
    BY DEF IInv
  <1> QED BY <1>1, Invariance, PTL

(* A soft-deleted row is never changed again. *)
THEOREM TombstonesStay == Spec => TombstonesFrozen
  <1> DEFINE Frozen ==
        /\ \A u \in Users : users[u].st = "gone" => users'[u] = users[u]
        /\ \A c \in Companies : companies[c].st = "gone" => companies'[c] = companies[c]
  <1>1. IInv /\ [Next]_vars => [Frozen]_vars
    <2> SUFFICES ASSUME IInv, Next PROVE Frozen
      OBVIOUS
    <2> USE DEF IInv, TypeOK
    <2>1. CASE \E r \in Requests : SaveUser(r)
      BY <2>1 DEF SaveUser
    <2>2. CASE \E r \in Requests : CommitUpdate(r)
      BY <2>2 DEF CommitUpdate, Live
    <2>3. CASE \E r \in Requests : DeleteUserRow(r)
      BY <2>3 DEF DeleteUserRow, Live
    <2>4. CASE \E r \in Requests : SaveCompany(r)
      BY <2>4 DEF SaveCompany
    <2>5. ASSUME NEW r \in Requests, UpdateCompanyRow(r)
          PROVE  Frozen
      <3> DEFINE val == Merge(companies[req[r].id].val, Merge(row[r], req[r].val))
      <3>1. /\ UNCHANGED users
            /\ \/ UNCHANGED companies
               \/ /\ Live(companies, req[r].id)
                  /\ companies' = [companies EXCEPT ![req[r].id] =
                                     [st |-> "live", val |-> val]]
        BY <2>5 DEF UpdateCompanyRow
      <3> HIDE DEF val
      <3> QED BY <3>1 DEF Live
    <2>6. CASE \E r \in Requests : DeleteCompanyRow(r)
      BY <2>6 DEF DeleteCompanyRow, Live
    <2>7. CASE UNCHANGED <<users, companies>>
      BY <2>7
    <2> QED BY <2>1, <2>2, <2>3, <2>4, <2>5, <2>6, <2>7, TableSteps
            DEF Next, Finished, tables, vars
  <1> QED BY <1>1, Invariance, PTL DEF Spec, TombstonesFrozen

(* Until a request is done it has no answer, and it answers for itself.      *)
NotAnswered == \A r \in Requests : pc[r] # "done" => resp[r] = "none"

LEMMA AnswerStep ==
  ASSUME IInv, NEW r \in Requests,
         Reject(r) \/ Arrive(r) \/ Step(r) \/ StatementFails(r)
  PROVE  /\ \A q \in Requests \ {r} : resp'[q] = resp[q] /\ pc'[q] = pc[q]
         /\ pc'[r] = "done" \/ UNCHANGED resp
         /\ pc[r] # "done"
  <1> USE DEF IInv, TypeOK
  <1>1. CASE Reject(r) \/ Arrive(r) \/ StatementFails(r)
    BY <1>1 DEF Reject, Arrive, StatementFails, Reading, Writing, Goto, Answer
  <1>2. CASE FindUser(r) \/ FindCompany(r)
    BY <1>2 DEF FindUser, FindCompany, At, UserOps, CompanyOps, Goto, Answer
  <1>3. CASE PreloadJoins(r) \/ PreloadCompanies(r) \/ Resolve(r) \/ BeginUpdate(r) \/ Clear(r)
    BY <1>3 DEF PreloadJoins, PreloadCompanies, Resolve, BeginUpdate, Clear, At, Goto, Answer
  <1>4. CASE SaveUser(r) \/ CommitUpdate(r) \/ DeleteUserRow(r)
    <2>1. /\ pc[r] # "done"
          /\ pc' = [pc EXCEPT ![r] = "done"]
          /\ \E a \in {"ok", "dberror"} : resp' = [resp EXCEPT ![r] = a]
      BY <1>4, Ends DEF SaveUser, CommitUpdate, DeleteUserRow, At, Answer
    <2> QED BY <2>1
  <1>5. CASE SaveCompany(r) \/ UpdateCompanyRow(r) \/ DeleteCompanyRow(r)
    <2>1. /\ pc[r] # "done"
          /\ pc' = [pc EXCEPT ![r] = "done"]
          /\ \E a \in {"ok", "dberror"} : resp' = [resp EXCEPT ![r] = a]
      BY <1>5, Ends DEF SaveCompany, UpdateCompanyRow, DeleteCompanyRow, At, Answer
    <2> QED BY <2>1
  <1>6. CASE ClaimKey(r)
    BY <1>6 DEF ClaimKey, Claiming, Writer, Locks, InTx, At, Answer
  <1>7. CASE BreakDeadlock(r)
    <2>1. pc[r] # "done"
      BY <1>7 DEF BreakDeadlock, Deadlocked, WaitsFor, Claiming, Writer, Locks, InTx, At
    <2> QED BY <1>7, <2>1 DEF BreakDeadlock, Answer
  <1> QED BY <1>1, <1>2, <1>3, <1>4, <1>5, <1>6, <1>7 DEF Step

(* A request has an answer only once it is done. *)
THEOREM Unanswered == Spec => []NotAnswered
  <1>1. Init => NotAnswered
    BY DEF Init, NotAnswered
  <1>2. IInv /\ NotAnswered /\ [Next]_vars => NotAnswered'
    <2> SUFFICES ASSUME IInv, NotAnswered, [Next]_vars PROVE NotAnswered'
      OBVIOUS
    <2>1. CASE UNCHANGED vars
      BY <2>1 DEF vars, NotAnswered
    <2> QED BY <2>1, AnswerStep DEF Next, Finished, NotAnswered
  <1> QED BY <1>1, <1>2, Invariance, PTL DEF Spec

(* Of requests that end only one that succeeds, or whose COMMIT was carried  *)
(* out and its answer lost, has changed the tables.                          *)
THEOREM TraceOnlyInDoubt == Spec => NoTraceUnlessInDoubt
  <1> DEFINE Effect == tables' # tables =>
        \E r \in Requests :
          /\ resp[r] = "none"
          /\ resp'[r] = "ok" \/ (resp'[r] = "dberror" /\ faults' # faults)
  <1>1. IInv /\ NotAnswered /\ [Next]_vars => [Effect]_vars
    <2> SUFFICES ASSUME IInv, NotAnswered, Next, tables' # tables
                 PROVE  \E r \in Requests :
                          /\ resp[r] = "none"
                          /\ resp'[r] = "ok" \/ (resp'[r] = "dberror" /\ faults' # faults)
      OBVIOUS
    <2>1. PICK r \in Requests :
            SaveUser(r) \/ CommitUpdate(r) \/ DeleteUserRow(r) \/ SaveCompany(r)
            \/ UpdateCompanyRow(r) \/ DeleteCompanyRow(r)
      BY TableSteps DEF Next, Finished, tables, vars
    <2>2. pc[r] # "done"
      BY <2>1 DEF SaveUser, CommitUpdate, DeleteUserRow, SaveCompany, UpdateCompanyRow,
                  DeleteCompanyRow, At
    <2>3. Outcome(r)
      <3>1. CASE SaveUser(r)
        BY <3>1 DEF SaveUser, tables
      <3>2. CASE CommitUpdate(r) \/ DeleteUserRow(r) \/ DeleteCompanyRow(r)
        BY <3>2 DEF CommitUpdate, DeleteUserRow, DeleteCompanyRow
      <3>3. CASE SaveCompany(r)
        BY <3>3 DEF SaveCompany, tables
      <3>4. CASE UpdateCompanyRow(r)
        <4>1. UNCHANGED <<users, joins>> /\ (UNCHANGED companies \/ Outcome(r))
          BY <3>4 DEF UpdateCompanyRow
        <4> QED BY <4>1 DEF tables
      <3> QED BY <2>1, <3>1, <3>2, <3>3, <3>4
    <2>4. \/ resp' = [resp EXCEPT ![r] = "ok"]
          \/ resp' = [resp EXCEPT ![r] = "dberror"] /\ faults' # faults
      <3>1. faults # faults + 1
        BY LimitsOK DEF IInv, TypeOK
      <3> QED BY <2>3, <3>1, Ends DEF IInv
    <2> QED BY <2>2, <2>4 DEF IInv, TypeOK, NotAnswered
  <1> QED BY <1>1, Invariance, Unanswered, PTL DEF Spec, NoTraceUnlessInDoubt

-----------------------------------------------------------------------------
(* Lists of companies. *)

(* The companies of a list's entries, but for those left to look up. *)
Found(list, left) ==
  {[company |-> CompanyOf[list[i]], n |-> i] : i \in Requested(list) \ left}

(* What of its list a request has looked up. *)
Resolved(r) ==
  LET list == req[r].list IN
  /\ pc[r] = "resolve" /\ req[r].op = "CreateUser" => todo[r] \subseteq DOMAIN list
  /\ pc[r] \in {"resolve", "write", "keys", "commit"} /\ req[r].op = "UpdateUser" =>
       /\ todo[r] \subseteq Requested(list)
       /\ pc[r] # "resolve" => todo[r] = {}
       /\ want[r] = IF list = <<>> THEN have[r] ELSE Found(list, todo[r])

ResolvedOK == \A r \in Requests : Resolved(r)

LEMMA LeastIndex ==
  ASSUME NEW T \in SUBSET Nat, T # {}
  PROVE  \E x \in T : \A y \in T : ~(y < x)
  <1> DEFINE R == OpToRel(<, Nat)
  <1>1. \E x \in T : \A y \in T : ~(<<y, x>> \in R)
    <2>1. IsWellFoundedOn(R, Nat)
      BY NatLessThanWellFounded
    <2> HIDE DEF R
    <2> QED BY <2>1, WFMin
  <1>2. \A x, y \in Nat : y < x => <<y, x>> \in R
    BY DEF OpToRel
  <1> HIDE DEF R
  <1> QED BY <1>1, <1>2

(* Every spelling in a list keeps one entry. *)
LEMMA Spelled ==
  ASSUME NEW list \in Seq(Spellings), NEW k \in DOMAIN list, list[k] # Blank
  PROVE  \E i \in Requested(list) : list[i] = list[k]
  <1> DEFINE T == {i \in DOMAIN list : list[i] = list[k]}
  <1>1. T \in SUBSET Nat /\ T # {} /\ DOMAIN list = 1 .. Len(list) /\ Len(list) \in Nat
    OBVIOUS
  <1>2. PICK i \in T : \A y \in T : ~(y < i)
    <2> HIDE DEF T
    <2> QED BY <1>1, LeastIndex
  <1>3. \A h \in 1 .. i - 1 : h \in DOMAIN list /\ h < i
    BY <1>1
  <1>4. \A h \in 1 .. i - 1 : list[h] # list[i]
    BY <1>2, <1>3
  <1> QED BY <1>2, <1>4 DEF Requested

(* One entry for each spelling: the companies are those the list names.      *)
LEMMA RequestedNames ==
  ASSUME NEW list \in Seq(Spellings)
  PROVE  {CompanyOf[list[i]] : i \in Requested(list)} = Named(list)
  <1>1. \A k \in DOMAIN list : list[k] # Blank =>
          \E i \in Requested(list) : list[i] = list[k]
    BY Spelled
  <1>2. Requested(list) \subseteq {k \in DOMAIN list : list[k] # Blank}
    BY DEF Requested
  <1> QED BY <1>1, <1>2 DEF Named

(* The rows an update writes for a company: one for each of its spellings.   *)
LEMMA RowsCounted ==
  ASSUME NEW list \in Seq(Spellings), NEW r, NEW u, NEW c
  PROVE  Cardinality({j \in Rows(r, u, Found(list, {})) : j.company = c}) =
           Cardinality(TextsFor(list, c))
  <1> DEFINE R == {i \in Requested(list) : CompanyOf[list[i]] = c}
             S == {j \in Rows(r, u, Found(list, {})) : j.company = c}
             T == TextsFor(list, c)
             RowOf(i) == [user |-> u, company |-> c, n |-> i, by |-> r]
  <1>1. IsFiniteSet(R)
    <2>1. R \subseteq 1 .. Len(list) /\ Len(list) \in Nat
      BY DEF Requested
    <2>2. IsFiniteSet(1 .. Len(list))
      BY <2>1, FS_Interval
    <2> HIDE DEF R
    <2> QED BY <2>1, <2>2, FS_Subset
  <1>2. S = {RowOf(i) : i \in R}
    <2>1. ASSUME NEW i \in R PROVE RowOf(i) \in S
      <3> DEFINE s == [company |-> CompanyOf[list[i]], n |-> i]
      <3>1. s \in Found(list, {})
        BY DEF Found
      <3>2. RowOf(i) = [user |-> u, company |-> s.company, n |-> s.n, by |-> r]
        OBVIOUS
      <3> HIDE DEF s
      <3>3. RowOf(i) \in Rows(r, u, Found(list, {}))
        BY <3>1, <3>2 DEF Rows
      <3> QED BY <3>3
    <2>2. ASSUME NEW j \in S PROVE \E i \in R : j = RowOf(i)
      <3>1. PICK s \in Found(list, {}) :
              j = [user |-> u, company |-> s.company, n |-> s.n, by |-> r]
        BY DEF Rows
      <3>2. PICK i \in Requested(list) : s = [company |-> CompanyOf[list[i]], n |-> i]
        BY DEF Found
      <3>3. CompanyOf[list[i]] = c
        BY <3>1, <3>2
      <3> QED BY <3>1, <3>2, <3>3
    <2> HIDE DEF R, S
    <2> QED BY <2>1, <2>2
  <1>3. ExistsBijection(R, S)
    <2> DEFINE f == [i \in R |-> RowOf(i)]
    <2> HIDE DEF R, S
    <2>1. f \in [R -> S] /\ \A t \in S : \E i \in R : f[i] = t
      BY <1>2
    <2>2. \A a, b \in R : f[a] = f[b] => a = b
      OBVIOUS
    <2> HIDE DEF f
    <2> QED BY <2>1, <2>2, Fun_IsBij DEF ExistsBijection
  <1>4. ExistsBijection(R, T)
    <2> DEFINE f == [i \in R |-> list[i]]
    <2>1. \A i \in R : list[i] \in T
      BY DEF Requested, TextsFor
    <2>2. \A t \in T : \E i \in R : list[i] = t
      <3>1. \A t \in T : \E k \in DOMAIN list :
              list[k] = t /\ list[k] # Blank /\ CompanyOf[list[k]] = c
        BY DEF TextsFor
      <3>2. \A k \in DOMAIN list : list[k] # Blank =>
              \E i \in Requested(list) : list[i] = list[k]
        BY Spelled
      <3> HIDE DEF T
      <3> QED BY <3>1, <3>2
    <2>3. \A a, b \in R : list[a] = list[b] => a = b
      <3>1. \A a \in R : a \in 1 .. Len(list) /\ \A k \in 1 .. a - 1 : list[k] # list[a]
        BY DEF Requested
      <3>2. Len(list) \in Nat
        OBVIOUS
      <3> HIDE DEF R
      <3> QED BY <3>1, <3>2
    <2> HIDE DEF R, T
    <2>4. f \in [R -> T] /\ (\A t \in T : \E i \in R : f[i] = t)
      BY <2>1, <2>2
    <2>5. \A a, b \in R : f[a] = f[b] => a = b
      BY <2>3
    <2> HIDE DEF f
    <2> QED BY <2>4, <2>5, Fun_IsBij DEF ExistsBijection
  <1> HIDE DEF R, S, T
  <1>5. Cardinality(S) = Cardinality(R) /\ Cardinality(T) = Cardinality(R)
    BY <1>1, <1>3, <1>4, FS_Bijection
  <1> QED BY <1>5 DEF S, T

LEMMA FoundCompanies ==
  ASSUME NEW list
  PROVE  {s.company : s \in Found(list, {})} = {CompanyOf[list[i]] : i \in Requested(list)}
  <1>1. \A s \in Found(list, {}) : \E i \in Requested(list) : s.company = CompanyOf[list[i]]
    BY DEF Found
  <1>2. \A i \in Requested(list) : \E s \in Found(list, {}) : s.company = CompanyOf[list[i]]
    <2> SUFFICES ASSUME NEW i \in Requested(list)
                 PROVE  \E s \in Found(list, {}) : s.company = CompanyOf[list[i]]
      OBVIOUS
    <2> DEFINE s == [company |-> CompanyOf[list[i]], n |-> i]
    <2>1. s \in Found(list, {}) /\ s.company = CompanyOf[list[i]]
      BY DEF Found
    <2> HIDE DEF s
    <2> QED BY <2>1
  <1> QED BY <1>1, <1>2

(* A call's list is a list of spellings. *)
LEMMA ListType ==
  ASSUME TypeOK, NEW r \in Requests, req[r].op \in {"CreateUser", "UpdateUser"}
  PROVE  req[r].list \in Seq(Spellings)
  BY ReqTypes DEF UserOps, UserCall

(* Only the request itself changes what it has looked up. *)
LEMMA ListsKept ==
  ASSUME TypeOK, NEW r \in Requests,
         Reject(r) \/ Arrive(r) \/ Step(r) \/ StatementFails(r)
  PROVE  \A q \in Requests \ {r} : /\ todo'[q] = todo[q] /\ want'[q] = want[q]
                                   /\ have'[q] = have[q]
  <1> USE DEF TypeOK
  <1>1. CASE Arrive(r)
    BY <1>1 DEF Arrive
  <1>2. CASE PreloadJoins(r) \/ PreloadCompanies(r)
    BY <1>2 DEF PreloadJoins, PreloadCompanies
  <1>3. CASE Resolve(r)
    BY <1>3 DEF Resolve
  <1>4. CASE UNCHANGED <<have, todo, want>>
    BY <1>4
  <1> QED BY <1>1, <1>2, <1>3, <1>4
          DEF Reject, Step, StatementFails, FindUser, FindCompany, SaveUser, BeginUpdate, ClaimKey, BreakDeadlock, Clear,
              CommitUpdate, DeleteUserRow, SaveCompany, UpdateCompanyRow, DeleteCompanyRow,
              memory

LEMMA ResolvedStep ==
  ASSUME TypeOK, ResolvedOK, NEW r \in Requests,
         Reject(r) \/ Arrive(r) \/ Step(r) \/ StatementFails(r)
  PROVE  ResolvedOK'
  <1>1. \A q \in Requests \ {r} : Resolved(q)'
    <2>1. \A q \in Requests \ {r} : /\ pc'[q] = pc[q] /\ req'[q] = req[q]
                                    /\ todo'[q] = todo[q] /\ want'[q] = want[q]
                                    /\ have'[q] = have[q]
      BY OthersKept, ListsKept
    <2> QED BY <2>1 DEF ResolvedOK, Resolved
  <1>2. Resolved(r)'
    <2> USE DEF Resolved
    <2>1. CASE pc'[r] \notin {"resolve", "write", "keys", "commit"}
      BY <2>1
    <2>2. CASE Arrive(r)
      <3>1. PICK q \in Calls :
              /\ req' = [req EXCEPT ![r] = q]
              /\ \/ pc' = [pc EXCEPT ![r] = "find"]
                 \/ pc' = [pc EXCEPT ![r] = "save"]
                 \/ /\ todo' = [todo EXCEPT ![r] = DOMAIN q.list]
                    /\ q.op = "CreateUser"
                    /\ pc' = [pc EXCEPT ![r] = "resolve"]
        BY <2>2 DEF Arrive, Goto
      <3> QED BY <3>1 DEF TypeOK
    <2>3. CASE PreloadCompanies(r)
      <3> DEFINE list  == req[r].list
                 found == {s \in have[r] : Live(companies, s.company)}
      <3>1. /\ req'[r] = req[r] /\ req[r].op = "UpdateUser"
            /\ have'[r] = found
            /\ want'[r] = IF list = <<>> THEN found ELSE {}
            /\ todo'[r] = Requested(list)
            /\ pc'[r] = IF Requested(list) = {} THEN "write" ELSE "resolve"
        BY <2>3 DEF PreloadCompanies, At, Goto, TypeOK
      <3>2. Found(list, todo'[r]) = {}
        BY <3>1 DEF Found
      <3> HIDE DEF found
      <3> QED BY <3>1, <3>2
    <2>4. CASE Resolve(r) /\ pc'[r] # "done"
      <3> DEFINE list == req[r].list
      <3>1. PICK i \in todo[r] :
              /\ want' = [want EXCEPT ![r] = @ \cup {[company |-> CompanyOf[list[i]], n |-> i]}]
              /\ todo' = [todo EXCEPT ![r] = @ \ {i}]
              /\ pc' = [pc EXCEPT ![r] = IF todo[r] # {i} THEN "resolve"
                                         ELSE IF req[r].op = "CreateUser" THEN "save"
                                         ELSE "write"]
        BY <2>4 DEF Resolve, Goto, Answer, TypeOK
      <3>2. /\ want'[r] = want[r] \cup {[company |-> CompanyOf[list[i]], n |-> i]}
            /\ todo'[r] = todo[r] \ {i}
            /\ pc'[r] = IF todo[r] # {i} THEN "resolve"
                        ELSE IF req[r].op = "CreateUser" THEN "save" ELSE "write"
            /\ req'[r] = req[r] /\ have'[r] = have[r] /\ pc[r] = "resolve"
        BY <2>4, <3>1 DEF Resolve, At, TypeOK
      <3>3. CASE req[r].op = "CreateUser"
        BY <3>2, <3>3 DEF ResolvedOK
      <3>4. CASE req[r].op = "UpdateUser"
        <4>1. /\ todo[r] \subseteq Requested(list)
              /\ want[r] = IF list = <<>> THEN have[r]
                           ELSE Found(list, todo[r])
          BY <3>2, <3>4 DEF ResolvedOK
        <4>2. list # <<>>
          BY <4>1 DEF Requested
        <4>3. Requested(list) \ (todo[r] \ {i}) = (Requested(list) \ todo[r]) \cup {i}
          BY <4>1
        <4>4. want'[r] = Found(list, todo'[r])
          BY <3>2, <4>1, <4>2, <4>3 DEF Found
        <4>5. todo'[r] \subseteq Requested(list) /\ (pc'[r] # "resolve" => todo'[r] = {})
          BY <3>2, <3>4, <4>1
        <4> QED BY <3>2, <3>4, <4>2, <4>4, <4>5
      <3>5. req[r].op \in {"CreateUser", "UpdateUser"}
        BY <2>4 DEF Resolve, At
      <3> QED BY <3>3, <3>4, <3>5
    <2>5. CASE (BeginUpdate(r) \/ ClaimKey(r) \/ Clear(r)) /\ pc'[r] # "done"
      <3>1. /\ pc[r] \in {"write", "keys", "commit", "save"}
            /\ pc'[r] \in {"write", "keys", "commit", "save"}
            /\ pc'[r] = "save" <=> pc[r] = "save"
            /\ req'[r] = req[r] /\ todo'[r] = todo[r]
            /\ want'[r] = want[r] /\ have'[r] = have[r]
        BY <2>5 DEF BeginUpdate, ClaimKey, Claiming, Writer, Locks, InTx, Clear, At, Goto,
                    Answer, memory, TypeOK
      <3> QED BY <3>1 DEF ResolvedOK
    <2>6. FindUser(r) \/ FindCompany(r) => pc'[r] \notin {"resolve", "write", "keys", "commit"}
      <3>1. FindUser(r) => \/ pc' = [pc EXCEPT ![r] = "done"]
                           \/ pc' = [pc EXCEPT ![r] = "joins"]
                           \/ pc' = [pc EXCEPT ![r] = "delete"]
        BY DEF FindUser, At, UserOps, Goto, Answer
      <3>2. FindCompany(r) => \/ pc' = [pc EXCEPT ![r] = "done"]
                              \/ pc' = [pc EXCEPT ![r] = "update"]
                              \/ pc' = [pc EXCEPT ![r] = "delete"]
        BY DEF FindCompany, At, CompanyOps, Goto, Answer
      <3> QED BY <3>1, <3>2 DEF TypeOK
    <2>7. Reject(r) \/ StatementFails(r) \/ PreloadJoins(r) \/ SaveUser(r) \/ CommitUpdate(r)
            \/ DeleteUserRow(r) \/ SaveCompany(r) \/ DeleteCompanyRow(r) \/ BreakDeadlock(r)
            => pc'[r] \notin {"resolve", "write", "keys", "commit"}
      BY Ends DEF Reject, StatementFails, PreloadJoins, SaveUser, CommitUpdate, DeleteUserRow,
             SaveCompany, DeleteCompanyRow, BreakDeadlock, Goto, Answer, TypeOK
    <2>8. UpdateCompanyRow(r) => pc'[r] \notin {"resolve", "write", "keys", "commit"}
      <3>1. UpdateCompanyRow(r) => pc' = [pc EXCEPT ![r] = "done"]
        BY Ends DEF UpdateCompanyRow, Answer
      <3> QED BY <3>1 DEF TypeOK
    <2> QED BY <2>1, <2>2, <2>3, <2>4, <2>5, <2>6, <2>7, <2>8 DEF Step
  <1> QED BY <1>1, <1>2 DEF ResolvedOK

(* What an update associates is what its list names, entry by entry. *)
THEOREM ListsResolved == Spec => []ResolvedOK
  <1>1. Init => ResolvedOK
    BY DEF Init, ResolvedOK, Resolved
  <1>2. IInv /\ ResolvedOK /\ [Next]_vars => ResolvedOK'
    <2> SUFFICES ASSUME IInv, ResolvedOK, [Next]_vars PROVE ResolvedOK'
      OBVIOUS
    <2>1. CASE UNCHANGED vars
      BY <2>1 DEF vars, ResolvedOK, Resolved
    <2> QED BY <2>1, ResolvedStep DEF Next, Finished, IInv
  <1> QED BY <1>1, <1>2, Invariance, PTL DEF Spec

-----------------------------------------------------------------------------
(* What updates write. *)

(* An update that takes effect writes the row, and of the join rows of its   *)
(* user leaves its own alone.                                                *)
LEMMA CommitWrites ==
  ASSUME IInv, NotAnswered, [Next]_vars, NEW r \in Requests, NEW u \in Users, Commits(r, u)
  PROVE  /\ users' = [users EXCEPT ![u] = [st |-> "live", val |-> NewVal(r)]]
         /\ JoinsOf(u)' = Rows(r, u, want[r])
  <1>1. /\ req[r].op = "UpdateUser" /\ req[r].id = u /\ pc[r] = "commit"
        /\ Live(users, u) /\ resp[r] = "none"
        /\ resp'[r] = "ok" \/ (resp'[r] = "dberror" /\ tables' # tables)
    BY DEF Commits, NotAnswered
  <1>2. CommitUpdate(r)
    <2>1. PICK q \in Requests : Reject(q) \/ Arrive(q) \/ Step(q) \/ StatementFails(q)
      BY <1>1 DEF Next, Finished, vars
    <2>2. q = r
      BY <1>1, <2>1, AnswerStep
    <2>3. ~Reject(r) /\ ~Arrive(r) /\ ~StatementFails(r) /\ ~BreakDeadlock(r)
      BY <1>1 DEF Reject, Arrive, StatementFails, BreakDeadlock, Answer, IInv, TypeOK
    <2>4. ~ClaimKey(r)
      BY <1>1 DEF ClaimKey, Claiming
    <2> QED BY <1>1, <2>1, <2>2, <2>3, <2>4
            DEF Step, FindUser, FindCompany, PreloadJoins, PreloadCompanies, Resolve,
                SaveUser, BeginUpdate, Clear, DeleteUserRow, SaveCompany, UpdateCompanyRow,
                DeleteCompanyRow, At
  <1>3. /\ users' = [users EXCEPT ![u] = [st |-> "live", val |-> NewVal(r)]]
        /\ joins' = (joins \ cleared[r]) \cup Rows(r, u, want[r])
    BY <1>1, <1>2 DEF CommitUpdate
  <1>4. JoinsOf(u) \subseteq cleared[r]
    BY <1>1 DEF IInv, ClearedOK
  <1>5. JoinsOf(u)' = Rows(r, u, want[r])
    BY <1>3, <1>4 DEF JoinsOf, Rows
  <1> QED BY <1>3, <1>5

(* The companies of the rows written for a list's entries. *)
LEMMA RowsCompanies ==
  ASSUME NEW r, NEW u, NEW S
  PROVE  {j.company : j \in Rows(r, u, S)} = {s.company : s \in S}
  <1>1. \A j \in Rows(r, u, S) : \E s \in S : j.company = s.company
    BY DEF Rows
  <1>2. ASSUME NEW s \in S
        PROVE  \E j \in Rows(r, u, S) : j.company = s.company
    <2> DEFINE j == [user |-> u, company |-> s.company, n |-> s.n, by |-> r]
    <2>1. j \in Rows(r, u, S) /\ j.company = s.company
      BY DEF Rows
    <2> HIDE DEF j
    <2> QED BY <2>1
  <1> QED BY <1>1, <1>2

(* An update that takes effect, whatever happened since it read: each field  *)
(* has the value asked for or, where none was, one it had, and a list that   *)
(* is not empty is the user's memberships, each once for every spelling.     *)
THEOREM UpdatesDoAsAsked == Spec => UpdateDoesAsAsked
  <1> DEFINE AsAsked(r, u) ==
        LET q == req[r] IN
        /\ \A f \in UserFields :
             users'[u].val[f] \in IF q.val[f] # Blank THEN {q.val[f]}
                                  ELSE {users[u].val[f], row[r][f]}
        /\ q.list # <<>> =>
             /\ MemberOf(u)' = Named(q.list)
             /\ \A c \in Named(q.list) :
                  Cardinality({j \in JoinsOf(u)' : j.company = c}) =
                    Cardinality(TextsFor(q.list, c))
  <1>1. ASSUME IInv, NotAnswered, ResolvedOK, [Next]_vars,
               NEW r \in Requests, NEW u \in Users, Commits(r, u)
        PROVE  AsAsked(r, u)
    <2>1. /\ users' = [users EXCEPT ![u] = [st |-> "live", val |-> NewVal(r)]]
          /\ JoinsOf(u)' = Rows(r, u, want[r])
      BY <1>1, CommitWrites
    <2>2. req[r].op = "UpdateUser" /\ req[r].id = u /\ pc[r] = "commit"
      BY <1>1 DEF Commits
    <2>3. ASSUME NEW f \in UserFields
          PROVE  users'[u].val[f] \in IF req[r].val[f] # Blank THEN {req[r].val[f]}
                                      ELSE {users[u].val[f], row[r][f]}
      <3>1. users'[u].val = NewVal(r)
        BY <1>1, <2>1 DEF IInv, TypeOK
      <3>2. DOMAIN users[u].val = UserFields /\ DOMAIN row[r] = UserFields
        BY <1>1, <2>2 DEF IInv, TypeOK, ReadsOK, Updating, UserRow
      <3>3. NewVal(r) = Merge(users[u].val, Merge(row[r], req[r].val))
        BY <2>2 DEF NewVal
      <3> QED BY <3>1, <3>2, <3>3 DEF Merge
    <2>4. ASSUME req[r].list # <<>>
          PROVE  /\ MemberOf(u)' = Named(req[r].list)
                 /\ \A c \in Named(req[r].list) :
                      Cardinality({j \in JoinsOf(u)' : j.company = c}) =
                        Cardinality(TextsFor(req[r].list, c))
      <3>1. req[r].list \in Seq(Spellings)
        BY <1>1, <2>2, ListType DEF IInv
      <3>2. JoinsOf(u)' = Rows(r, u, Found(req[r].list, {}))
        BY <1>1, <2>1, <2>2, <2>4 DEF ResolvedOK, Resolved
      <3>3. MemberOf(u)' = {j.company : j \in JoinsOf(u)'}
        BY DEF MemberOf
      <3>4. {j.company : j \in Rows(r, u, Found(req[r].list, {}))} = Named(req[r].list)
        <4>1. \A S : {j.company : j \in Rows(r, u, S)} = {s.company : s \in S}
          BY RowsCompanies
        <4>2. {s.company : s \in Found(req[r].list, {})} =
                {CompanyOf[req[r].list[i]] : i \in Requested(req[r].list)}
          BY FoundCompanies
        <4> QED BY <3>1, <4>1, <4>2, RequestedNames
      <3> QED BY <3>1, <3>2, <3>3, <3>4, RowsCounted
    <2> QED BY <2>3, <2>4
  <1>2. IInv /\ NotAnswered /\ ResolvedOK /\ [Next]_vars =>
          [\A r \in Requests, u \in Users : Commits(r, u) => AsAsked(r, u)]_vars
    BY <1>1
  <1> QED BY <1>2, Invariance, Unanswered, ListsResolved, PTL DEF Spec, UpdateDoesAsAsked
=============================================================================
