----------------------------- MODULE Directory -----------------------------
(***************************************************************************)
(* The user and company services over their repositories and the           *)
(* PostgreSQL schema.  Every HTTP request is a goroutine of its own: it     *)
(* runs a handler, which calls a service method, which issues one SQL       *)
(* statement after another.  A statement is a step, so the statements of    *)
(* concurrent requests interleave; only userRepository.Update groups some   *)
(* of them in a transaction (READ COMMITTED, PostgreSQL's default).         *)
(*                                                                         *)
(* Abstractions.  first_name and last_name, which every operation treats    *)
(* alike, are the one field "name"; timestamps are left out; deleted_at is  *)
(* the status "gone".  Textual ids of a request are members of Spellings,   *)
(* CompanyOf says which company uuid.Parse and the table make of one, and   *)
(* Canonical is what uuid.UUID.String() prints.                             *)
(***************************************************************************)
EXTENDS Naturals, Sequences, FiniteSets

CONSTANTS
  Users,        \* ids the users table may hold
  Companies,    \* ids the companies table may hold
  Requests,     \* concurrent HTTP requests
  Data,         \* non-empty field values
  Blank,        \* Go's zero value "" : a field absent from a request
  Spellings,    \* textual ids in a request's list of companies
  CompanyOf,    \* [Spellings -> Companies \cup {Blank}]
  Canonical,    \* [Companies -> Spellings]
  Seed,         \* the earlier request that wrote the initial join rows
  Calls,        \* the validated calls clients may make
  Tables,       \* the database states the service may start from
  MaxFaults,    \* how many SQL statements may fail or lose their answer
  StripeColumn  \* does users have the column models.User declares for it?

UserFields    == {"name", "email", "kc"}
CompanyFields == {"name", "kc"}
UserKeys      == {"email", "kc"}     \* UNIQUE columns of users
CompanyKeys   == {"kc"}              \* UNIQUE columns of companies
Status        == {"absent", "live", "gone"}
Field         == Data \cup {Blank}

UserRow    == [st : Status, val : [UserFields -> Field]]
CompanyRow == [st : Status, val : [CompanyFields -> Field]]
JoinRow    == [user : Users, company : Companies, n : Nat,
               by : Requests \cup {Seed}]
Slot       == [company : Companies, n : Nat]

Ops == {"CreateUser", "GetUser", "UpdateUser", "DeleteUser",
        "CreateCompany", "GetCompany", "UpdateCompany", "DeleteCompany"}
UserOps    == {"GetUser", "UpdateUser", "DeleteUser"}
CompanyOps == {"GetCompany", "UpdateCompany", "DeleteCompany"}

UserCall    == [op : UserOps \cup {"CreateUser"}, id : Users \cup {Blank},
                val : [UserFields -> Field], list : Seq(Spellings)]
CompanyCall == [op : CompanyOps \cup {"CreateCompany"},
                id : Companies \cup {Blank},
                val : [CompanyFields -> Field]]

(* Mutant: the unique index ignores soft-deleted rows. *)
TakenByLive(tbl, keys, id, val) ==
  \E o \in DOMAIN tbl \ {id} :
    tbl[o].st = "live" /\ \E k \in keys : tbl[o].val[k] = val[k]

(* A row, soft-deleted or not, other than id's has one of val's unique keys. *)
Taken(tbl, keys, id, val) ==
  \E o \in DOMAIN tbl \ {id} :
    tbl[o].st # "absent" /\ \E k \in keys : tbl[o].val[k] = val[k]

Distinct(tbl, keys) ==
  \A a, b \in DOMAIN tbl :
    a # b /\ tbl[a].st # "absent" /\ tbl[b].st # "absent"
    => \A k \in keys : tbl[a].val[k] # tbl[b].val[k]

ASSUME SeedNew    == Seed \notin Requests
ASSUME BlankEmpty == Blank \notin Data \cup Users \cup Companies
ASSUME Ids        == /\ CompanyOf \in [Spellings -> Companies \cup {Blank}]
                     /\ Canonical \in [Companies -> Spellings]
                     /\ \A c \in Companies : CompanyOf[Canonical[c]] = c
ASSUME CallsOK    == Calls \subseteq UserCall \cup CompanyCall
ASSUME TablesOK   == \A t \in Tables :
                       /\ t.users \in [Users -> UserRow]
                       /\ t.companies \in [Companies -> CompanyRow]
                       /\ t.joins \subseteq JoinRow
                       /\ Distinct(t.users, UserKeys)
                       /\ Distinct(t.companies, CompanyKeys)
                       /\ \A j \in t.joins : /\ j.by = Seed
                                             /\ t.users[j.user].st # "absent"
                                             /\ t.companies[j.company].st # "absent"
ASSUME LimitsOK   == MaxFaults \in Nat /\ StripeColumn \in BOOLEAN

VARIABLES
  users, companies, joins,  \* the tables users, companies, user_companies
  pc, req, resp,            \* per request: next step, its call, its answer
  row,                      \* per request: the entity as its SELECT returned it
  have,                     \* per request: user.Companies as preloaded
  todo, want,               \* per request: list entries to look up, companies found
  cleared,                  \* per request: join rows its open transaction deleted
  held,                     \* per request: keys its open statement has indexed
  faults                    \* statements that have failed so far

tables == <<users, companies, joins>>
memory == <<row, have, todo, want, cleared, held>>
vars   == <<users, companies, joins, pc, req, resp, row, have, todo, want,
            cleared, held, faults>>

NoCall == [op |-> "none"]

Init ==
  /\ \E t \in Tables : /\ users = t.users
                       /\ companies = t.companies
                       /\ joins = t.joins
  /\ pc   = [r \in Requests |-> "idle"]
  /\ req  = [r \in Requests |-> NoCall]
  /\ resp = [r \in Requests |-> "none"]
  /\ row  = [r \in Requests |-> [f \in UserFields |-> Blank]]
  /\ have = [r \in Requests |-> {}]
  /\ todo = [r \in Requests |-> {}]
  /\ want = [r \in Requests |-> {}]
  /\ cleared = [r \in Requests |-> {}]
  /\ held = [r \in Requests |-> {}]
  /\ faults = 0

(* Mutant: a query without deleted_at IS NULL, nor a check of what it found. *)
InTable(tbl, id) == id \in DOMAIN tbl

Live(tbl, id) == id \in DOMAIN tbl /\ tbl[id].st = "live"

(* GORM's Updates(struct): a column is written only where the struct is set. *)
Merge(old, new) ==
  [f \in DOMAIN old |-> IF new[f] # Blank THEN new[f] ELSE old[f]]

JoinsOf(u) == {j \in joins : j.user = u}

Rows(r, u, slots) ==
  {[user |-> u, company |-> s.company, n |-> s.n, by |-> r] : s \in slots}

Goto(r, label) == pc' = [pc EXCEPT ![r] = label] /\ UNCHANGED resp

Answer(r, a) == /\ pc' = [pc EXCEPT ![r] = "done"]
                /\ resp' = [resp EXCEPT ![r] = a]

At(r, label, ops) == pc[r] = label /\ req[r].op \in ops

(***************************************************************************)
(* The handlers: bind and validate the body, then call the service.  A      *)
(* body that does not bind or validate is answered before any statement.    *)
(***************************************************************************)
Reject(r) ==
  /\ pc[r] = "idle"
  /\ Answer(r, "invalid")
  /\ UNCHANGED <<tables, req, memory, faults>>

Arrive(r) ==
  /\ pc[r] = "idle"
  /\ \E q \in Calls :
       /\ req' = [req EXCEPT ![r] = q]
       /\ \/ /\ q.op \in UserOps \cup CompanyOps
             /\ Goto(r, "find")
             /\ UNCHANGED todo
          \/ /\ q.op = "CreateCompany"
             /\ Goto(r, "save")
             /\ UNCHANGED todo
          \/ /\ q.op = "CreateUser"
             /\ todo' = [todo EXCEPT ![r] = DOMAIN q.list]
             /\ Goto(r, IF q.list = <<>> THEN "save" ELSE "resolve")
  /\ UNCHANGED <<tables, row, have, want, cleared, held, faults>>

-----------------------------------------------------------------------------
(* Reads.  First() and Preload() see committed rows with deleted_at NULL.    *)

FindUser(r) ==
  /\ At(r, "find", UserOps)
  /\ LET u == req[r].id IN
     \/ /\ ~Live(users, u)
        /\ Answer(r, "notfound")
        /\ UNCHANGED row
     \/ /\ Live(users, u)
        /\ row' = [row EXCEPT ![r] = users[u].val]
        /\ CASE req[r].op = "GetUser"    -> Answer(r, "ok")
             [] req[r].op = "DeleteUser" -> Goto(r, "delete")
             [] req[r].op = "UpdateUser" -> Goto(r, "joins")
  /\ UNCHANGED <<tables, req, have, todo, want, cleared, held, faults>>

FindCompany(r) ==
  /\ At(r, "find", CompanyOps)
  /\ LET c == req[r].id IN
     \/ /\ ~Live(companies, c)
        /\ Answer(r, "notfound")
        /\ UNCHANGED row
     \/ /\ Live(companies, c)
        /\ row' = [row EXCEPT ![r] = companies[c].val]
        /\ CASE req[r].op = "GetCompany"    -> Answer(r, "ok")
             [] req[r].op = "DeleteCompany" -> Goto(r, "delete")
             [] req[r].op = "UpdateCompany" -> Goto(r, "update")
  /\ UNCHANGED <<tables, req, have, todo, want, cleared, held, faults>>

(* The first of the two statements of Preload("Companies"). *)
PreloadJoins(r) ==
  /\ At(r, "joins", {"UpdateUser"})
  /\ have' = [have EXCEPT ![r] = {[company |-> j.company, n |-> j.n] :
                                     j \in JoinsOf(req[r].id)}]
  /\ Goto(r, "comps")
  /\ UNCHANGED <<tables, req, row, todo, want, cleared, held, faults>>

(* Mutant: empty ids are looked up like any other. *)
RequestedAll(list) == DOMAIN list

(* requestedCompanyIDs: one entry per distinct non-empty spelling. *)
Requested(list) ==
  {i \in DOMAIN list : list[i] # Blank /\ \A k \in 1 .. i - 1 : list[k] # list[i]}

(* The second statement, and the choice of what to associate. *)
PreloadCompanies(r) ==
  /\ At(r, "comps", {"UpdateUser"})
  /\ LET found == {s \in have[r] : Live(companies, s.company)}
         list  == req[r].list
     IN /\ have' = [have EXCEPT ![r] = found]
        /\ want' = [want EXCEPT ![r] = IF list = <<>> THEN found ELSE {}]
        /\ todo' = [todo EXCEPT ![r] = Requested(list)]
        /\ Goto(r, IF Requested(list) = {} THEN "write" ELSE "resolve")
  /\ UNCHANGED <<tables, req, row, cleared, held, faults>>

(* Create walks the list in order; Update ranges over a Go map. *)
NextEntry(r, i) ==
  /\ i \in todo[r]
  /\ req[r].op = "CreateUser" => \A k \in todo[r] : i <= k

Associated(r, i) ==
  /\ req[r].op = "UpdateUser"
  /\ \E s \in have[r] : Canonical[s.company] = req[r].list[i]

(* Mutant: the error of companyRepo.GetOneByID is dropped. *)
ResolveUnchecked(r) ==
  /\ At(r, "resolve", {"CreateUser", "UpdateUser"})
  /\ \E i \in todo[r] :
       /\ want' = [want EXCEPT ![r] = @ \cup
                     {[company |-> CompanyOf[req[r].list[i]], n |-> i]}]
       /\ todo' = [todo EXCEPT ![r] = @ \ {i}]
       /\ Goto(r, IF todo[r] # {i} THEN "resolve"
                  ELSE IF req[r].op = "CreateUser" THEN "save" ELSE "write")
  /\ UNCHANGED <<tables, req, row, have, cleared, held, faults>>

Resolve(r) ==
  /\ At(r, "resolve", {"CreateUser", "UpdateUser"})
  /\ \E i \in todo[r] :
       /\ NextEntry(r, i)
       /\ LET c == CompanyOf[req[r].list[i]] IN
          \/ /\ Associated(r, i) \/ Live(companies, c)
             /\ want' = [want EXCEPT ![r] = @ \cup {[company |-> c, n |-> i]}]
             /\ todo' = [todo EXCEPT ![r] = @ \ {i}]
             /\ Goto(r, IF todo[r] # {i} THEN "resolve"
                        ELSE IF req[r].op = "CreateUser" THEN "save" ELSE "write")
          \/ /\ ~Associated(r, i) /\ ~Live(companies, c)
             /\ Answer(r, "notfound")
             /\ UNCHANGED <<want, todo>>
  /\ UNCHANGED <<tables, req, row, have, cleared, held, faults>>

-----------------------------------------------------------------------------
(* Writes.  A statement or transaction that fails leaves nothing behind.     *)

(* Mutant: a transaction that failed is not rolled back, and keeps its locks. *)
NeverRolledBack(q) ==
  \/ pc[q] \in {"keys", "commit"}
  \/ req[q].op = "UpdateUser" /\ resp[q] = "dberror"

InTx(q) == pc[q] \in {"keys", "commit"}

NewVal(q) == Merge(users[req[q].id].val, Merge(row[q], req[q].val))

(* The row a request writes, and what is to be in it. *)
Own(q)    == IF req[q].op = "UpdateUser" THEN req[q].id ELSE Blank
Writes(q) == IF req[q].op = "UpdateUser" THEN NewVal(q) ELSE req[q].val

(* A transaction that has found its user live holds the lock of the row.     *)
Locks(q, u) == InTx(q) /\ req[q].id = u /\ Live(users, u)
Locked(u)   == \E q \in Requests : Locks(q, u)

(* In the middle of an UPDATE that found its row, or of an INSERT.           *)
Writer(q) == Locks(q, req[q].id) \/ At(q, "save", {"CreateUser"})

(* The keys still to be entered into their indexes: those that change.       *)
Unclaimed(q) ==
  {k \in UserKeys \ held[q] :
     req[q].op = "UpdateUser" => Writes(q)[k] # users[Own(q)].val[k]}

NextKey(q)  == IF "email" \in Unclaimed(q) THEN "email" ELSE "kc"
Claiming(q) == /\ Writer(q) /\ pc[q] # "commit" /\ Unclaimed(q) # {}
               /\ req[q].op = "CreateUser" => StripeColumn

(* Key k with value v is in the index of an open transaction's doing: in the *)
(* row it is writing, or in the one it is replacing.                         *)
HasKey(q, k, v) ==
  \/ Writer(q) /\ k \in held[q] /\ Writes(q)[k] = v
  \/ Locks(q, req[q].id) /\ users[req[q].id].val[k] = v

(* Mutant: keys of open transactions are not looked at. *)
NeverBusy(r, k) == FALSE

(* A unique index makes a statement wait for whoever has its key.            *)
KeyBusy(r, k) == \E q \in Requests \ {r} : HasKey(q, k, Writes(r)[k])

(* One index after the other takes the new row, or refuses it.               *)
ClaimKey(r) ==
  /\ Claiming(r)
  /\ LET k == NextKey(r) IN
     /\ ~KeyBusy(r, k)
     /\ \/ /\ Taken(users, {k}, Own(r), Writes(r))
           /\ Answer(r, "dberror")
           /\ UNCHANGED held
        \/ /\ ~Taken(users, {k}, Own(r), Writes(r))
           /\ held' = [held EXCEPT ![r] = @ \cup {k}]
           /\ UNCHANGED <<pc, resp>>
  /\ UNCHANGED <<tables, req, row, have, todo, want, cleared, faults>>

(* Waiting for a key with locks in hand may be mutual.  (Who waits for a row *)
(* has written nothing yet, so nobody waits for it.)                         *)
WaitsFor(q, p) ==
  /\ q # p /\ Claiming(q)
  /\ HasKey(p, NextKey(q), Writes(q)[NextKey(q)])

Deadlocked(r) ==
  \E S \in SUBSET Requests :
    /\ r \in S
    /\ \A q \in S : (\E p \in S : WaitsFor(q, p)) /\ (\E p \in S : WaitsFor(p, q))

(* PostgreSQL ends one of the transactions that wait for each other.         *)
BreakDeadlock(r) ==
  /\ Deadlocked(r)
  /\ Answer(r, "dberror")
  /\ UNCHANGED <<tables, req, memory, faults>>

(* What the caller hears of a COMMIT that has taken effect: success, or an   *)
(* error if the connection was lost before the answer came.                  *)
Outcome(r) ==
  \/ Answer(r, "ok") /\ UNCHANGED faults
  \/ /\ faults < MaxFaults
     /\ faults' = faults + 1
     /\ Answer(r, "dberror")

(* A new user: abstractRepository.Save presets a fresh id, so GORM's UPDATE  *)
(* of all columns finds no row and it falls back to INSERT; the join rows    *)
(* go with it.  GORM saves associations after that UPDATE too, before the    *)
(* INSERT, so the foreign key may already refuse a list that is not empty.   *)
SaveUser(r) ==
  /\ At(r, "save", {"CreateUser"})
  /\ \/ /\ StripeColumn
        /\ Unclaimed(r) = {}
        /\ \E u \in Users :
             /\ users[u].st = "absent"
             /\ users' = [users EXCEPT ![u] = [st |-> "live", val |-> req[r].val]]
             /\ joins' = joins \cup Rows(r, u, want[r])
        /\ Outcome(r)
     \/ /\ held[r] = {}
        /\ ~StripeColumn \/ want[r] # {}
        /\ Answer(r, "dberror")
        /\ UNCHANGED <<users, joins, faults>>
  /\ UNCHANGED <<companies, req, memory>>

(* BEGIN and the UPDATE, which waits for the lock of its row; it matches no  *)
(* row, which is no error, once the user is gone.                            *)
BeginUpdate(r) ==
  /\ At(r, "write", {"UpdateUser"})
  /\ ~Locked(req[r].id)
  /\ Goto(r, "keys")
  /\ UNCHANGED <<tables, req, memory, faults>>

(* Mutant: no transaction, each statement commits by itself. *)
ClearAutocommit(r) ==
  /\ At(r, "keys", {"UpdateUser"})
  /\ ~Claiming(r)
  /\ LET u == req[r].id IN
     /\ users' = IF Live(users, u) THEN [users EXCEPT ![u].val = NewVal(r)] ELSE users
     /\ joins' = joins \ JoinsOf(u)
  /\ cleared' = [cleared EXCEPT ![r] = {}]
  /\ Goto(r, "commit")
  /\ UNCHANGED <<companies, req, row, have, todo, want, held, faults>>

(* The DELETE of Association.Clear. *)
Clear(r) ==
  /\ At(r, "keys", {"UpdateUser"})
  /\ ~Claiming(r)
  /\ cleared' = [cleared EXCEPT ![r] = JoinsOf(req[r].id)]
  /\ Goto(r, "commit")
  /\ UNCHANGED <<tables, req, row, have, todo, want, held, faults>>

(* Mutant: Association.Clear is left out. *)
CommitWithoutClear(r) ==
  /\ At(r, "commit", {"UpdateUser"})
  /\ LET u == req[r].id IN
     /\ users' = IF Live(users, u)
                 THEN [users EXCEPT ![u] = [st |-> "live", val |-> NewVal(r)]]
                 ELSE users
     /\ joins' = joins \cup Rows(r, u, want[r])
  /\ Outcome(r)
  /\ UNCHANGED <<companies, req, memory>>

(* Mutant: Save instead of Updates, which writes deleted_at back to NULL. *)
CommitBySave(r) ==
  /\ At(r, "commit", {"UpdateUser"})
  /\ LET u == req[r].id IN
     /\ users' = [users EXCEPT ![u] = [st |-> "live", val |-> NewVal(r)]]
     /\ joins' = (joins \ cleared[r]) \cup Rows(r, u, want[r])
  /\ Outcome(r)
  /\ UNCHANGED <<companies, req, memory>>

(* The INSERT of Association.Append, and COMMIT. *)
CommitUpdate(r) ==
  /\ At(r, "commit", {"UpdateUser"})
  /\ LET u == req[r].id IN
     /\ users' = IF Live(users, u)
                 THEN [users EXCEPT ![u] = [st |-> "live", val |-> NewVal(r)]]
                 ELSE users
     /\ joins' = (joins \ cleared[r]) \cup Rows(r, u, want[r])
  /\ Outcome(r)
  /\ UNCHANGED <<companies, req, memory>>

(* Mutant: Unscoped().Delete, the row is removed. *)
HardDeleteUser(r) ==
  /\ At(r, "delete", {"DeleteUser"})
  /\ users' = [users EXCEPT ![req[r].id].st = "absent"]
  /\ Outcome(r)
  /\ UNCHANGED <<companies, joins, req, memory>>

(* The soft delete waits for the row lock and matches live rows only. *)
DeleteUserRow(r) ==
  /\ At(r, "delete", {"DeleteUser"})
  /\ LET u == req[r].id IN
     /\ ~Locked(u)
     /\ users' = IF Live(users, u) THEN [users EXCEPT ![u].st = "gone"] ELSE users
  /\ Outcome(r)
  /\ UNCHANGED <<companies, joins, req, memory>>

(* The writes of companies are single statements, each one step: two that    *)
(* want each other's key both fail, in either order and in a deadlock.       *)
SaveCompany(r) ==
  /\ At(r, "save", {"CreateCompany"})
  /\ LET val == req[r].val IN
     \/ /\ ~Taken(companies, CompanyKeys, Blank, val)
        /\ \E c \in Companies :
             /\ companies[c].st = "absent"
             /\ companies' = [companies EXCEPT ![c] = [st |-> "live", val |-> val]]
        /\ Outcome(r)
     \/ /\ Taken(companies, CompanyKeys, Blank, val)
        /\ Answer(r, "dberror")
        /\ UNCHANGED <<companies, faults>>
  /\ UNCHANGED <<users, joins, req, memory>>

UpdateCompanyRow(r) ==
  /\ At(r, "update", {"UpdateCompany"})
  /\ LET c   == req[r].id
         val == Merge(companies[c].val, Merge(row[r], req[r].val))
     IN \/ /\ Live(companies, c)
           /\ ~Taken(companies, CompanyKeys, c, val)
           /\ companies' = [companies EXCEPT ![c] = [st |-> "live", val |-> val]]
           /\ Outcome(r)
        \/ /\ Live(companies, c)
           /\ Taken(companies, CompanyKeys, c, val)
           /\ Answer(r, "dberror")
           /\ UNCHANGED <<companies, faults>>
        \/ /\ ~Live(companies, c)
           /\ Answer(r, "ok")
           /\ UNCHANGED <<companies, faults>>
  /\ UNCHANGED <<users, joins, req, memory>>

(* Mutant: Unscoped().Delete, the row is removed. *)
HardDeleteCompany(r) ==
  /\ At(r, "delete", {"DeleteCompany"})
  /\ companies' = [companies EXCEPT ![req[r].id].st = "absent"]
  /\ Outcome(r)
  /\ UNCHANGED <<users, joins, req, memory>>

DeleteCompanyRow(r) ==
  /\ At(r, "delete", {"DeleteCompany"})
  /\ LET c == req[r].id IN
     companies' = IF Live(companies, c)
                  THEN [companies EXCEPT ![c].st = "gone"] ELSE companies
  /\ Outcome(r)
  /\ UNCHANGED <<users, joins, req, memory>>

-----------------------------------------------------------------------------
(* A statement fails (connection lost, timeout) before any COMMIT.  The      *)
(* services answer every failed read as NotFoundError and every failed write *)
(* as DatabaseError; an open transaction rolls back.                         *)
Reading(r) ==
  \/ pc[r] \in {"find", "joins"}
  \/ pc[r] = "comps" /\ have[r] # {}
  \/ pc[r] = "resolve" /\ \E i \in todo[r] : NextEntry(r, i) /\ ~Associated(r, i)

Writing(r) == pc[r] \in {"save", "write", "keys", "commit", "delete", "update"}

StatementFails(r) ==
  /\ faults < MaxFaults
  /\ faults' = faults + 1
  /\ \/ Reading(r) /\ Answer(r, "notfound")
     \/ Writing(r) /\ Answer(r, "dberror")
  /\ UNCHANGED <<tables, req, memory>>

(* The steps a request's goroutine takes by itself once it has arrived. *)
Step(r) ==
  \/ FindUser(r) \/ FindCompany(r) \/ PreloadJoins(r) \/ PreloadCompanies(r)
  \/ Resolve(r)
  \/ SaveUser(r) \/ BeginUpdate(r) \/ ClaimKey(r) \/ BreakDeadlock(r)
  \/ Clear(r) \/ CommitUpdate(r) \/ DeleteUserRow(r)
  \/ SaveCompany(r) \/ UpdateCompanyRow(r) \/ DeleteCompanyRow(r)

Finished == (\A r \in Requests : pc[r] = "done") /\ UNCHANGED vars

Next ==
  \/ \E r \in Requests : Reject(r) \/ Arrive(r) \/ Step(r) \/ StatementFails(r)
  \/ Finished

Spec == Init /\ [][Next]_vars

FairSpec == Spec /\ \A r \in Requests : WF_vars(Step(r))

-----------------------------------------------------------------------------
(* Properties. *)

(* Every variable keeps to its type: in particular what a request resolved   *)
(* and what the join table holds are companies, never an empty id.           *)
TypeOK ==
  /\ users \in [Users -> UserRow]
  /\ companies \in [Companies -> CompanyRow]
  /\ joins \subseteq JoinRow
  /\ pc \in [Requests -> {"idle", "find", "joins", "comps", "resolve", "save",
                          "write", "keys", "commit", "delete", "update", "done"}]
  /\ req \in [Requests -> Calls \cup {NoCall}]
  /\ resp \in [Requests -> {"none", "ok", "notfound", "dberror", "invalid"}]
  /\ row \in [Requests -> [UserFields -> Field] \cup [CompanyFields -> Field]]
  /\ have \in [Requests -> SUBSET Slot]
  /\ todo \in [Requests -> SUBSET Nat]
  /\ want \in [Requests -> SUBSET Slot]
  /\ cleared \in [Requests -> SUBSET JoinRow]
  /\ held \in [Requests -> SUBSET UserKeys]
  /\ faults \in 0 .. MaxFaults

(* No two rows, deleted ones included, share a unique key, however the       *)
(* requests' statements and open transactions interleave.                    *)
UniqueKeys == Distinct(users, UserKeys) /\ Distinct(companies, CompanyKeys)

(* The memberships of a live user were all written by one request: Clear and *)
(* Append replace the list whole, and two overlapping updates never mix.     *)
OneWriterPerUser ==
  \A j, k \in joins :
    j.user = k.user /\ Live(users, j.user) => j.by = k.by

(* A membership names a user and a company whose rows exist: an unknown id   *)
(* in a request's list ends the request before it is written.                *)
NoDanglingMembership ==
  \A j \in joins : users[j.user].st # "absent" /\ companies[j.company].st # "absent"

(* The tables change only in the step in which some request is answered: of  *)
(* its success or, where the answer to its COMMIT was lost, of a database    *)
(* error.  Whoever is refused, loses a race or is rolled back leaves nothing. *)
NoTraceUnlessInDoubt ==
  [][tables' # tables =>
       \E r \in Requests :
         /\ resp[r] = "none"
         /\ resp'[r] = "ok" \/ (resp'[r] = "dberror" /\ faults' # faults)]_vars

(* A soft-deleted row never changes again: an update that read the entity    *)
(* while it was live must not bring it back or rewrite it.                   *)
TombstonesFrozen ==
  [][/\ \A u \in Users : users[u].st = "gone" => users'[u] = users[u]
     /\ \A c \in Companies : companies[c].st = "gone" => companies'[c] = companies[c]]_vars

MemberOf(u) == {j.company : j \in JoinsOf(u)}

(* Request r's update of u takes effect in this step. *)
Commits(r, u) == /\ req[r].op = "UpdateUser" /\ req[r].id = u
                 /\ pc[r] = "commit" /\ Live(users, u)
                 /\ resp'[r] = "ok" \/ (resp'[r] = "dberror" /\ tables' # tables)

Named(list) == {CompanyOf[list[i]] : i \in {k \in DOMAIN list : list[k] # Blank}}

(* The different texts by which a list names a company.                      *)
TextsFor(list, c) ==
  {list[i] : i \in {k \in DOMAIN list : list[k] # Blank /\ CompanyOf[list[k]] = c}}

(* Whatever has happened since it read: an update that takes effect sets the *)
(* fields it names and makes no value up for another, which gets what it has *)
(* or what the request read; a list that is not empty replaces the           *)
(* memberships by the companies it names and no others, each as often as it  *)
(* is spelled differently.                                                   *)
UpdateDoesAsAsked ==
  [][\A r \in Requests, u \in Users :
       Commits(r, u) =>
         LET q == req[r] IN
         /\ \A f \in UserFields :
              users'[u].val[f] \in IF q.val[f] # Blank THEN {q.val[f]}
                                   ELSE {users[u].val[f], row[r][f]}
         /\ q.list # <<>> =>
              /\ MemberOf(u)' = Named(q.list)
              /\ \A c \in Named(q.list) :
                   Cardinality({j \in JoinsOf(u)' : j.company = c}) =
                     Cardinality(TextsFor(q.list, c))]_vars

(* services/user.go:218, "Update user fields if provided in request": a      *)
(* field the request does not provide keeps its value.                       *)
UnprovidedFieldsKept ==
  [][\A r \in Requests, u \in Users :
       Commits(r, u) => \A f \in UserFields :
         req[r].val[f] = Blank => users'[u].val[f] = users[u].val[f]]_vars

(* Every request is answered: no lock or key a request waits for is held     *)
(* for ever, nor by requests that wait for each other, given that each       *)
(* goroutine that can run a statement runs it.                               *)
EveryRequestAnswered ==
  \A r \in Requests : pc[r] # "idle" ~> pc[r] = "done"

(* The services implement the registry they promise. *)
Reg == INSTANCE Registry WITH
         UserVals    <- [UserFields -> Field],
         CompanyVals <- [CompanyFields -> Field],
         people <- [u \in Users |->
                      [st  |-> users[u].st, val |-> users[u].val,
                       in  |-> IF Live(users, u) THEN MemberOf(u) ELSE {}]],
         orgs   <- companies
ImplementsRegistry == Reg!Spec

-----------------------------------------------------------------------------
(* The inductive invariant: the properties above with what they rest on. *)

Updating == {"joins", "comps", "write", "keys", "commit"}

(* What a request has read agrees with the step it is at. *)
ReadsOK ==
  \A r \in Requests :
    /\ pc[r] \in Updating => req[r].op = "UpdateUser"
    /\ pc[r] \in Updating \/ (pc[r] = "resolve" /\ req[r].op = "UpdateUser") =>
         /\ req[r].id \in Users
         /\ users[req[r].id].st # "absent"
    /\ pc[r] \in Updating \cup {"idle", "resolve"} => row[r] \in [UserFields -> Field]
    /\ pc[r] = "update" => row[r] \in [CompanyFields -> Field]

(* The companies a request holds have rows. *)
CompaniesOK ==
  \A r \in Requests : \A s \in have[r] \cup want[r] :
    companies[s.company].st # "absent"

(* Open transactions hold different users, and a key that one has indexed is *)
(* neither in another's hands nor in the row of another user; before Clear   *)
(* all that change are indexed.                                              *)
PendingOK ==
  /\ \A q \in Requests :
       pc[q] \in {"idle", "find", "joins", "comps", "resolve", "write"} => held[q] = {}
  /\ \A q \in Requests : Writer(q) =>
       /\ \A k \in held[q] : ~Taken(users, {k}, Own(q), Writes(q))
       /\ pc[q] = "commit" => Unclaimed(q) = {}
       /\ \A p \in Requests \ {q} : Writer(p) =>
            /\ InTx(p) /\ InTx(q) => req[p].id # req[q].id
            /\ \A k \in held[p] \cap held[q] : Writes(p)[k] # Writes(q)[k]

(* A transaction deletes join rows of its own user, and, of a live one, all. *)
ClearedOK ==
  \A q \in Requests : pc[q] = "commit" =>
    /\ \A j \in cleared[q] : j.user = req[q].id
    /\ Live(users, req[q].id) => JoinsOf(req[q].id) \subseteq cleared[q]

IInv == /\ TypeOK /\ ReadsOK /\ CompaniesOK /\ UniqueKeys /\ PendingOK
        /\ ClearedOK /\ OneWriterPerUser /\ NoDanglingMembership
============================================================================
