------------------------------- MODULE Listing -------------------------------
(***************************************************************************)
(* GET /v1/users and GET /v1/companies: a page of a table, found by a COUNT *)
(* and a SELECT and, for users, the two statements of Preload("Companies"). *)
(* There is no transaction: each statement sees what is committed when it   *)
(* runs, and other requests commit changes between them.                    *)
(*                                                                         *)
(* Abstractions.  Of a row's columns the model keeps created_at, a          *)
(* company's name as a place in the alphabet, and in which columns the text *)
(* a client searches for occurs: a call searches for it or for nothing.  A  *)
(* change of a row is one step, its COMMIT.                                 *)
(***************************************************************************)
EXTENDS Integers, Sequences, FiniteSets, SequencesExt

CONSTANTS
  Users, Companies,   \* ids of the two tables
  Requests,           \* list requests in progress
  Values,             \* contents a row may be given
  Calls,              \* the calls clients may make
  Tables,             \* the database states to start from
  None,               \* a parameter that is absent; a page or size that does not parse
  Bad,                \* a date that does not parse
  MaxInt,             \* the greatest int: 2^63 - 1 where an int has 64 bits
  MaxChanges          \* how many rows other requests change meanwhile

Ids     == Users \cup Companies
Value   == [made : Nat, name : Nat, hits : SUBSET {"first_name", "last_name", "email", "name"}]
Row     == [st : {"absent", "live", "gone"}, is : Value]
Columns == {"created_at", "name", "other"}

Call == [of : {"users", "companies"}, page : Int \cup {None}, size : Int \cup {None},
         from : Nat \cup {None, Bad}, to : Nat \cup {None, Bad}, text : BOOLEAN,
         sort : Seq([by : Columns, desc : BOOLEAN])]

ASSUME NoneNew    == None \notin Int /\ Bad \notin Int /\ None # Bad
ASSUME CallsOK    == Calls \subseteq Call
ASSUME ValuesOK   == Values \subseteq Value
ASSUME TablesOK   == \A t \in Tables : /\ t.rows \in [Ids -> Row]
                                       /\ t.members \subseteq Users \X Companies
ASSUME SizesOK    == MaxInt \in Nat /\ MaxChanges \in Nat
ASSUME IdsDiffer  == Users \cap Companies = {}
ASSUME IdsFinite  == IsFiniteSet(Ids)

VARIABLES
  rows, members,   \* the tables users and companies; user_companies
  changes,         \* changes made by other requests so far
  pc, req, resp,   \* per request: next statement, its call, its answer
  total, data,     \* per request: the count, and the ids selected
  with,            \* per request: <<user, company>> as preloaded
  seen             \* history: the database while the request was in progress

database == <<rows, members, changes>>
local    == <<total, data, with>>
vars     == <<database, pc, req, resp, local, seen>>

NoCall == [of |-> "none"]

Init ==
  /\ \E t \in Tables : rows = t.rows /\ members = t.members
  /\ changes = 0
  /\ pc    = [r \in Requests |-> "idle"]
  /\ req   = [r \in Requests |-> NoCall]
  /\ resp  = [r \in Requests |-> "none"]
  /\ total = [r \in Requests |-> 0]
  /\ data  = [r \in Requests |-> <<>>]
  /\ with  = [r \in Requests |-> {}]
  /\ seen  = [r \in Requests |-> {}]

Now == [rows |-> rows, members |-> members]

InProgress(r) == pc[r] \notin {"idle", "done"}

Record == seen' = [r \in Requests |-> IF InProgress(r) \/ InProgress(r)'
                                      THEN seen[r] \cup {Now'} ELSE seen[r]]

-----------------------------------------------------------------------------
(* What the handler makes of the query parameters. *)

DefaultPageSize == 10

Page(q) == IF q.page = None \/ q.page <= 0 THEN 1 ELSE q.page
Size(q) == IF q.size = None \/ q.size < 0 THEN DefaultPageSize ELSE q.size

ShouldPaginate(q) == Size(q) > 0

(* Two's complement, Go's int. *)
Wrap(n) == ((n + MaxInt + 1) % (2 * MaxInt + 2)) - MaxInt - 1

(* Mutant: the page number skips rows, not pages. *)
OffsetByRow(q) == Wrap(Page(q) - 1)

GetOffset(q) == Wrap((Page(q) - 1) * Size(q))

(* Only the handler of users looks at the sort fields. *)
Invalid(q) ==
  \/ q.of = "users" /\ \E i \in DOMAIN q.sort : q.sort[i].by \notin {"created_at", "name"}
  \/ Bad \in {q.from, q.to}
  \/ None \notin {q.from, q.to} /\ q.to < q.from

-----------------------------------------------------------------------------
(* The query. *)

InRange(v, q) == /\ q.from # None => v.made >= q.from
                 /\ q.to # None => v.made <= q.to

(* Where(first).Or(last).Or(email).Where(start).Where(end): AND binds closer *)
(* than OR, and GORM puts parentheses around the whole for deleted_at.       *)
Selects(v, q) ==
  IF ~q.text THEN InRange(v, q)
  ELSE IF q.of = "companies" THEN "name" \in v.hits /\ InRange(v, q)
  ELSE \/ v.hits \cap {"first_name", "last_name"} # {}
       \/ "email" \in v.hits /\ InRange(v, q)

TableOf(q) == IF q.of = "users" THEN Users ELSE Companies

(* Mutant: soft-deleted rows are found. *)
MatchingWithDeleted(tbl, q) == {x \in TableOf(q) : tbl[x].st # "absent" /\ Selects(tbl[x].is, q)}

(* Mutant: the query is not tied to a table. *)
MatchingAnywhere(tbl, q) == {x \in Ids : tbl[x].st = "live" /\ Selects(tbl[x].is, q)}

Matching(tbl, q) == {x \in TableOf(q) : tbl[x].st = "live" /\ Selects(tbl[x].is, q)}

(* users has no column name.  companies' sort goes into ORDER BY as it was   *)
(* sent: "other" is one of its other columns, or PostgreSQL refuses it.      *)
HasColumn(q, by) == by = "created_at" \/ (by = "name" /\ q.of = "companies")
MayBeColumn(q, by) == HasColumn(q, by) \/ q.of = "companies"

Order(q) == IF q.sort = <<>> THEN <<[by |-> "created_at", desc |-> TRUE]>> ELSE q.sort

Key(v, by) == IF by = "name" THEN v.name ELSE v.made

(* v comes before w: of what another column orders nothing is known.         *)
Before(v, w, order) ==
  \E i \in DOMAIN order :
    /\ \A k \in 1 .. i : order[k].by # "other"
    /\ \A k \in 1 .. i - 1 : Key(v, order[k].by) = Key(w, order[k].by)
    /\ LET a == Key(v, order[i].by)
           b == Key(w, order[i].by)
       IN IF order[i].desc THEN a > b ELSE a < b

(* ORDER BY leaves open the order of rows with equal keys. *)
Listings(tbl, q) ==
  {s \in SetToSeqs(Matching(tbl, q)) :
     \A i, j \in DOMAIN s : i < j => ~Before(tbl[s[j]].is, tbl[s[i]].is, Order(q))}

(* LIMIT and OFFSET; GORM leaves out an offset that is not positive. *)
Slice(s, q) ==
  LET skip == IF GetOffset(q) > 0 THEN GetOffset(q) ELSE 0
      last == IF skip + Size(q) < Len(s) THEN skip + Size(q) ELSE Len(s)
  IN IF ShouldPaginate(q) THEN SubSeq(s, skip + 1, last) ELSE s

-----------------------------------------------------------------------------
Answer(r, a) == /\ pc' = [pc EXCEPT ![r] = "done"]
                /\ resp' = [resp EXCEPT ![r] = a]

Goto(r, label) == pc' = [pc EXCEPT ![r] = label] /\ UNCHANGED resp

(* GetUsers, GetCompanies: parse, validate, build the query. *)
GetList(r) ==
  /\ pc[r] = "idle"
  /\ \E q \in Calls :
       /\ req' = [req EXCEPT ![r] = q]
       /\ \/ Invalid(q) /\ Answer(r, "invalid")
          \/ ~Invalid(q) /\ Goto(r, IF ShouldPaginate(q) THEN "count" ELSE "select")
  /\ UNCHANGED <<database, local>>

(* Mutant: the COUNT is sent without the WHERE of the query. *)
CountAll(r) ==
  /\ pc[r] = "count"
  /\ LET n == Cardinality({x \in TableOf(req[r]) : rows[x].st = "live"}) IN
     /\ total' = [total EXCEPT ![r] = n]
     /\ IF n = 0 THEN Answer(r, "ok") ELSE Goto(r, "select")
  /\ UNCHANGED <<database, req, data, with>>

(* The COUNT, which GORM sends without ORDER BY.  Nothing counted is the     *)
(* answer.                                                                   *)
Count(r) ==
  /\ pc[r] = "count"
  /\ LET n == Cardinality(Matching(rows, req[r])) IN
     /\ total' = [total EXCEPT ![r] = n]
     /\ IF n = 0 THEN Answer(r, "ok") ELSE Goto(r, "select")
  /\ UNCHANGED <<database, req, data, with>>

Find(r) ==
  /\ pc[r] = "select"
  /\ LET q == req[r] IN
     \/ /\ \E i \in DOMAIN Order(q) : ~HasColumn(q, Order(q)[i].by)
        /\ Answer(r, "dberror")
        /\ UNCHANGED data
     \/ /\ \A i \in DOMAIN Order(q) : MayBeColumn(q, Order(q)[i].by)
        /\ \E s \in Listings(rows, q) :
             /\ data' = [data EXCEPT ![r] = Slice(s, q)]
             /\ IF q.of = "users" /\ Slice(s, q) # <<>> THEN Goto(r, "joins")
                ELSE Answer(r, "ok")
  /\ UNCHANGED <<database, req, total, with>>

(* Mutant: the rows of every user are taken for the page's. *)
PreloadAll(r) ==
  /\ pc[r] = "joins"
  /\ with' = [with EXCEPT ![r] = ToSet(data[r]) \X {m[2] : m \in members}]
  /\ Goto(r, "companies")
  /\ UNCHANGED <<database, req, total, data>>

PreloadJoins(r) ==
  /\ pc[r] = "joins"
  /\ with' = [with EXCEPT ![r] = {m \in members : m[1] \in ToSet(data[r])}]
  /\ IF with'[r] = {} THEN Answer(r, "ok") ELSE Goto(r, "companies")
  /\ UNCHANGED <<database, req, total, data>>

PreloadCompanies(r) ==
  /\ pc[r] = "companies"
  /\ with' = [with EXCEPT ![r] = {m \in @ : rows[m[2]].st = "live"}]
  /\ Answer(r, "ok")
  /\ UNCHANGED <<database, req, total, data>>

(* A statement fails: repository, service and handler return DatabaseError,  *)
(* and nothing else.                                                         *)
StatementFails(r) ==
  /\ InProgress(r)
  /\ Answer(r, "dberror")
  /\ total' = [total EXCEPT ![r] = 0]
  /\ data' = [data EXCEPT ![r] = <<>>]
  /\ with' = [with EXCEPT ![r] = {}]
  /\ UNCHANGED <<database, req>>

-----------------------------------------------------------------------------
(* Other requests: what the services commit to the tables. *)

Put(x) ==
  /\ rows[x].st \in {"absent", "live"}
  /\ \E v \in Values :
       /\ rows[x].st = "live" => v.made = rows[x].is.made
       /\ rows' = [rows EXCEPT ![x] = [st |-> "live", is |-> v]]
  /\ \E cs \in SUBSET Companies :
       /\ \A c \in cs : rows[c].st # "absent"
       /\ members' = IF x \in Users THEN {m \in members : m[1] # x} \cup ({x} \X cs)
                     ELSE members

Delete(x) ==
  /\ rows[x].st = "live"
  /\ rows' = [rows EXCEPT ![x].st = "gone"]
  /\ UNCHANGED members

OtherRequest ==
  /\ changes < MaxChanges
  /\ changes' = changes + 1
  /\ \E x \in Ids : Put(x) \/ Delete(x)
  /\ UNCHANGED <<pc, req, resp, local>>

Step(r) == Count(r) \/ Find(r) \/ PreloadJoins(r) \/ PreloadCompanies(r)

Finished == (\A r \in Requests : pc[r] = "done") /\ UNCHANGED vars

Next ==
  \/ \E r \in Requests : (GetList(r) \/ Step(r) \/ StatementFails(r)) /\ Record
  \/ OtherRequest /\ Record
  \/ Finished

Spec == Init /\ [][Next]_vars

-----------------------------------------------------------------------------
(* Properties. *)

(* Types; what is selected is of the table asked for. *)
TypeOK ==
  /\ rows \in [Ids -> Row]
  /\ members \subseteq Users \X Companies
  /\ changes \in 0 .. MaxChanges
  /\ pc \in [Requests -> {"idle", "count", "select", "joins", "companies", "done"}]
  /\ req \in [Requests -> Calls \cup {NoCall}]
  /\ resp \in [Requests -> {"none", "ok", "dberror", "invalid"}]
  /\ total \in [Requests -> 0 .. Cardinality(Ids)]
  /\ data \in [Requests -> Seq(Ids)]
  /\ \A r \in Requests : /\ IsInjective(data[r])
                         /\ data[r] # <<>> => ToSet(data[r]) \subseteq TableOf(req[r])
  /\ with \in [Requests -> SUBSET (Users \X Companies)]

Listed(r) == resp[r] = "ok"
Shown(r)  == ToSet(data[r])

(* However other requests' commits fall between the statements, each row a   *)
(* list shows was live at some time during the call, each company it shows   *)
(* with a user was that user's and was live at some time, the total was true *)
(* at some time, and no page is longer than asked for.                       *)
ListedWereThere ==
  \A r \in Requests : Listed(r) =>
    /\ \A x \in Shown(r) : \E t \in seen[r] : t.rows[x].st = "live"
    /\ \A m \in with[r] : /\ m[1] \in Shown(r)
                          /\ \E t \in seen[r] : m \in t.members
                          /\ \E t \in seen[r] : t.rows[m[2]].st = "live"
    /\ ShouldPaginate(req[r]) =>
         /\ Len(data[r]) <= Size(req[r])
         /\ \E t \in seen[r] : total[r] = Cardinality(Matching(t.rows, req[r]))

(* Nothing was committed while r was in progress, and its page's offset is   *)
(* an int. *)
Quiet(r) == Cardinality(seen[r]) = 1
Fits(q)  == (Page(q) - 1) * Size(q) <= MaxInt

(* What a caller may take from the query parameters: the text and the range. *)
Wanted(v, q) == /\ q.text => IF q.of = "companies" THEN "name" \in v.hits
                             ELSE v.hits \cap {"first_name", "last_name", "email"} # {}
                /\ InRange(v, q)

OrMixed(q) == q.of = "users" /\ q.text /\ (q.from # None \/ q.to # None)

(* A list nothing interferes with is exact: the total counts what the        *)
(* parameters ask for, the page has the length that is left of it, and users *)
(* come with all their live companies.                                       *)
QuietPageExact ==
  \A r \in Requests :
    Listed(r) /\ Quiet(r) /\ Fits(req[r]) /\ ~OrMixed(req[r]) =>
      LET q == req[r]
          t == CHOOSE s \in seen[r] : TRUE
          all == {x \in TableOf(q) : t.rows[x].st = "live" /\ Wanted(t.rows[x].is, q)}
          left == Cardinality(all) - (Page(q) - 1) * Size(q)
      IN /\ Shown(r) \subseteq all
         /\ IF ShouldPaginate(q)
            THEN /\ total[r] = Cardinality(all)
                 /\ Len(data[r]) = IF left <= 0 THEN 0
                                   ELSE IF left < Size(q) THEN left ELSE Size(q)
            ELSE Shown(r) = all
         /\ q.of = "users" =>
              with[r] = {m \in t.members : m[1] \in Shown(r) /\ t.rows[m[2]].st = "live"}

(* Two pages of one quiet listing, ordered by keys no two rows share, do not *)
(* overlap and follow each other in that order, and no row that belongs      *)
(* between two consecutive pages is on neither.                              *)
PagesLineUp ==
  \A r, s \in Requests :
    LET q == req[r]
        p == req[s]
    IN /\ Listed(r) /\ Listed(s) /\ Quiet(r) /\ Quiet(s) /\ seen[r] = seen[s]
       /\ p = [q EXCEPT !.page = p.page] /\ Fits(q) /\ Fits(p) /\ Page(q) < Page(p)
       /\ ShouldPaginate(q)
       => LET t == CHOOSE u \in seen[r] : TRUE
              all == Matching(t.rows, q)
          IN (\A x, y \in all : x # y =>
                  Before(t.rows[x].is, t.rows[y].is, Order(q))
                    \/ Before(t.rows[y].is, t.rows[x].is, Order(q)))
             => \A x \in Shown(r), y \in Shown(s) :
                  /\ Before(t.rows[x].is, t.rows[y].is, Order(q))
                  /\ Page(p) = Page(q) + 1 =>
                       \A z \in all \ (Shown(r) \cup Shown(s)) :
                         ~ /\ Before(t.rows[x].is, t.rows[z].is, Order(q))
                           /\ Before(t.rows[z].is, t.rows[y].is, Order(q))

(* handlers/user.go:179, "@Param start_date query string false": the users   *)
(* listed were created in the range asked for.                               *)
DateRangeRespected ==
  \A r \in Requests : Listed(r) =>
    \A x \in Shown(r) : \E t \in seen[r] : InRange(t.rows[x].is, req[r])
============================================================================
