---------------------------- MODULE ListingProofs ----------------------------
(***************************************************************************)
(* Theorems about Listing, for all tables of finitely many rows, all list   *)
(* requests, and any number of changes committed between their statements.  *)
(***************************************************************************)
EXTENDS Listing, FiniteSetTheorems, SequenceTheorems, TLAPS

Snapshot == [rows : [Ids -> Row], members : SUBSET (Users \X Companies)]

(* What a request holds is what some database it has met had: the count,    *)
(* the page, the memberships of the page's users, and the live companies    *)
(* among them, each perhaps of another moment.                              *)
Counted(r) == \E t \in seen[r] : total[r] = Cardinality(Matching(t.rows, req[r]))
Paged(r)   == \E t \in seen[r] : \E l \in Listings(t.rows, req[r]) : data[r] = Slice(l, req[r])
Joined(r)  == \E t \in seen[r] : with[r] = {m \in t.members : m[1] \in Shown(r)}
Loaded(r)  == \E t, u \in seen[r] :
                with[r] = {m \in t.members : m[1] \in Shown(r) /\ u.rows[m[2]].st = "live"}

(* A request in progress has met the database of now. *)
SeenOK(r) ==
  /\ seen[r] \subseteq Snapshot
  /\ IsFiniteSet(seen[r])
  /\ InProgress(r) => Now \in seen[r]

(* What a request has read by the statement it is at. *)
Place(r) ==
  /\ resp[r] # "none" <=> pc[r] = "done"
  /\ InProgress(r) \/ Listed(r) => req[r] \in Calls
  /\ pc[r] = "count" => ShouldPaginate(req[r])
  /\ pc[r] \in {"joins", "companies"} => req[r].of = "users"
  /\ pc[r] \notin {"joins", "companies"} /\ ~Listed(r) => data[r] = <<>>
  /\ pc[r] # "companies" /\ ~Listed(r) => with[r] = {}
  /\ ShouldPaginate(req[r]) /\ (pc[r] \in {"select", "joins", "companies"} \/ Listed(r)) =>
       Counted(r)
  /\ pc[r] \in {"joins", "companies"} \/ Listed(r) => Paged(r)
  /\ pc[r] = "companies" => Joined(r)
  /\ Listed(r) => IF req[r].of = "users" THEN Loaded(r) ELSE with[r] = {}

LInv == TypeOK /\ \A r \in Requests : SeenOK(r) /\ Place(r)

-----------------------------------------------------------------------------
(* Page arithmetic. *)

LEMMA WrapType == ASSUME NEW n \in Int PROVE Wrap(n) \in Int
  <1>1. ASSUME NEW a \in Int, NEW b \in Nat \ {0} PROVE a % b \in Int
    OBVIOUS
  <1> QED BY <1>1, SizesOK DEF Wrap

(* An int that fits is left as it is. *)
LEMMA WrapFits == ASSUME NEW n \in 0 .. MaxInt PROVE Wrap(n) = n
  <1>1. ASSUME NEW a \in Nat, NEW b \in Nat, a < b PROVE a % b = a
    BY <1>1
  <1> QED BY <1>1, SizesOK DEF Wrap

LEMMA PageFacts ==
  ASSUME NEW q \in Call
  PROVE  /\ Page(q) \in Nat \ {0}
         /\ Size(q) \in Nat
         /\ (Page(q) - 1) * Size(q) \in Nat
         /\ GetOffset(q) \in Int
         /\ Fits(q) => GetOffset(q) = (Page(q) - 1) * Size(q)
  <1>1. Page(q) \in Nat \ {0} /\ Size(q) \in Nat
    BY NoneNew DEF Call, Page, Size, DefaultPageSize
  <1>2. (Page(q) - 1) * Size(q) \in Nat
    <2>1. ASSUME NEW a \in Nat, NEW b \in Nat PROVE a * b \in Nat
      OBVIOUS
    <2> QED BY <1>1, <2>1
  <1>3. GetOffset(q) \in Int
    BY <1>2, WrapType DEF GetOffset
  <1>4. Fits(q) => GetOffset(q) = (Page(q) - 1) * Size(q)
    BY <1>2, WrapFits, SizesOK DEF GetOffset, Fits
  <1> QED BY <1>1, <1>2, <1>3, <1>4

(* What LIMIT and OFFSET leave of a list: a page of it, element by element.  *)
LEMMA SliceFacts ==
  ASSUME NEW q \in Call, NEW S, NEW l \in Seq(S)
  PROVE  LET skip == IF GetOffset(q) > 0 THEN GetOffset(q) ELSE 0
             left == Len(l) - skip
         IN  /\ Slice(l, q) \in Seq(S)
             /\ ~ShouldPaginate(q) => Slice(l, q) = l
             /\ ShouldPaginate(q) =>
                  /\ Len(Slice(l, q)) = IF left <= 0 THEN 0
                                        ELSE IF left < Size(q) THEN left ELSE Size(q)
                  /\ \A k \in 1 .. Len(Slice(l, q)) : /\ k + skip \in 1 .. Len(l)
                                                      /\ Slice(l, q)[k] = l[k + skip]
  <1> DEFINE skip == IF GetOffset(q) > 0 THEN GetOffset(q) ELSE 0
             last == IF skip + Size(q) < Len(l) THEN skip + Size(q) ELSE Len(l)
             left == Len(l) - skip
  <1>1. skip \in Nat /\ Size(q) \in Nat /\ Len(l) \in Nat /\ last \in Nat /\ last <= Len(l)
    BY PageFacts
  <1>2. CASE ShouldPaginate(q)
    <2>1. Slice(l, q) = SubSeq(l, skip + 1, last)
      BY <1>2 DEF Slice
    <2>2. \A k \in skip + 1 .. last : l[k] \in S
      BY <1>1, ElementOfSeq
    <2>3. /\ SubSeq(l, skip + 1, last) \in Seq(S)
          /\ Len(SubSeq(l, skip + 1, last)) = IF skip + 1 <= last THEN last - skip ELSE 0
          /\ \A k \in 1 .. last - skip : SubSeq(l, skip + 1, last)[k] = l[skip + k]
      <3> HIDE DEF skip, last
      <3>1. skip + 1 \in Int /\ last \in Int
        BY <1>1
      <3>2. /\ SubSeq(l, skip + 1, last) \in Seq(S)
            /\ Len(SubSeq(l, skip + 1, last)) =
                 IF skip + 1 <= last THEN last - (skip + 1) + 1 ELSE 0
            /\ \A k \in 1 .. last - (skip + 1) + 1 :
                 SubSeq(l, skip + 1, last)[k] = l[skip + 1 + k - 1]
        BY <2>2, <3>1, SubSeqProperties
      <3> QED BY <1>1, <3>2
    <2> HIDE DEF skip
    <2>4. Size(q) > 0
      BY <1>2 DEF ShouldPaginate
    <2>5. last - skip = IF left <= 0 THEN last - skip
                        ELSE IF left < Size(q) THEN left ELSE Size(q)
      BY <1>1, <2>4
    <2>6. left <= 0 <=> last <= skip
      BY <1>1, <2>4
    <2>7. Len(Slice(l, q)) = IF left <= 0 THEN 0
                             ELSE IF left < Size(q) THEN left ELSE Size(q)
      <3> HIDE DEF last, left
      <3> QED BY <1>1, <2>1, <2>3, <2>5, <2>6
    <2>8. \A k \in 1 .. Len(Slice(l, q)) : k \in 1 .. last - skip
      <3> HIDE DEF last
      <3> QED BY <1>1, <2>1, <2>3
    <2>9. \A k \in 1 .. Len(Slice(l, q)) : k + skip \in 1 .. Len(l) /\ Slice(l, q)[k] = l[k + skip]
      <3> HIDE DEF last
      <3> QED BY <1>1, <2>1, <2>3, <2>8
    <2>10. Slice(l, q) \in Seq(S)
      BY <2>1, <2>3
    <2> QED BY <1>2, <2>7, <2>9, <2>10 DEF skip
  <1>3. CASE ~ShouldPaginate(q)
    BY <1>3 DEF Slice
  <1> QED BY <1>2, <1>3

-----------------------------------------------------------------------------
(* The rows a query finds, and the lists PostgreSQL may make of them. *)

LEMMA MatchingFacts ==
  ASSUME NEW tbl, NEW q \in Call
  PROVE  /\ Matching(tbl, q) \subseteq TableOf(q)
         /\ TableOf(q) \subseteq Ids
         /\ IsFiniteSet(Matching(tbl, q))
         /\ Cardinality(Matching(tbl, q)) \in 0 .. Cardinality(Ids)
  <1>1. Matching(tbl, q) \subseteq TableOf(q) /\ TableOf(q) \subseteq Ids
    BY DEF Matching, TableOf, Ids, Call
  <1>2. /\ IsFiniteSet(Matching(tbl, q)) /\ Cardinality(Ids) \in Nat
        /\ Cardinality(Matching(tbl, q)) \in Nat
        /\ Cardinality(Matching(tbl, q)) <= Cardinality(Ids)
    BY <1>1, IdsFinite, FS_Subset, FS_CardinalityType
  <1> QED BY <1>1, <1>2

(* Such a list has each row once, and all of them. *)
LEMMA ListingsFacts ==
  ASSUME NEW tbl, NEW q \in Call, NEW l \in Listings(tbl, q)
  PROVE  /\ l \in Seq(Matching(tbl, q))
         /\ Len(l) = Cardinality(Matching(tbl, q))
         /\ \A k, m \in 1 .. Len(l) : l[k] = l[m] => k = m
         /\ \A x \in Matching(tbl, q) : \E k \in 1 .. Len(l) : l[k] = x
         /\ \A k, m \in 1 .. Len(l) : k < m => ~Before(tbl[l[m]].is, tbl[l[k]].is, Order(q))
  <1> DEFINE M == Matching(tbl, q)
             n == Cardinality(M)
  <1>1. IsFiniteSet(M) /\ n \in Nat
    BY MatchingFacts
  <1>2. l \in [1 .. n -> M] /\ \A k, m \in 1 .. n : k # m => l[k] # l[m]
    BY DEF Listings, SetToSeqs
  <1>3. l \in Seq(M) /\ Len(l) = n
    BY <1>1, <1>2
  <1>4. \A k, m \in 1 .. n : k < m => ~Before(tbl[l[m]].is, tbl[l[k]].is, Order(q))
    BY <1>2 DEF Listings
  <1>5. l \in Surjection(1 .. n, M)
    <2>1. l \in Injection(1 .. n, M)
      BY <1>2 DEF Injection, IsInjective
    <2>2. Cardinality(1 .. n) = n
      BY <1>1, FS_Interval
    <2> HIDE DEF M, n
    <2> QED BY <1>1, <2>1, <2>2, FS_Injection DEF n
  <1> QED BY <1>2, <1>3, <1>4, <1>5 DEF Surjection

(* When nothing matches, the empty list is what is found. *)
LEMMA EmptyListing ==
  ASSUME NEW tbl, NEW q \in Call, Cardinality(Matching(tbl, q)) = 0
  PROVE  <<>> \in Listings(tbl, q) /\ Slice(<<>>, q) = <<>>
  <1>1. Matching(tbl, q) = {}
    BY MatchingFacts, FS_EmptySet
  <1>2. <<>> \in [1 .. 0 -> {}]
    OBVIOUS
  <1>3. <<>> \in Listings(tbl, q)
    BY <1>1, <1>2, FS_EmptySet DEF Listings, SetToSeqs
  <1>4. Slice(<<>>, q) = <<>>
    <2>1. <<>> \in Seq({}) /\ Len(<<>>) = 0
      OBVIOUS
    <2>2. \A t \in Seq({}) : t = <<>>
      OBVIOUS
    <2> QED BY <2>1, <2>2, SliceFacts
  <1> QED BY <1>3, <1>4

(* A page has rows that match, each once, and is no longer than asked for.   *)
LEMMA PagedFacts ==
  ASSUME NEW tbl, NEW q \in Call, NEW l \in Listings(tbl, q)
  PROVE  /\ Slice(l, q) \in Seq(Matching(tbl, q))
         /\ IsInjective(Slice(l, q))
         /\ ToSet(Slice(l, q)) \subseteq Matching(tbl, q)
         /\ ShouldPaginate(q) => Len(Slice(l, q)) <= Size(q)
         /\ ~ShouldPaginate(q) => ToSet(Slice(l, q)) = Matching(tbl, q)
  <1> DEFINE M == Matching(tbl, q)
             d == Slice(l, q)
  <1>1. /\ l \in Seq(M) /\ Len(l) \in Nat
        /\ \A k, m \in 1 .. Len(l) : l[k] = l[m] => k = m
        /\ \A x \in M : \E k \in 1 .. Len(l) : l[k] = x
    BY ListingsFacts
  <1>2. d \in Seq(M) /\ Len(d) \in Nat /\ DOMAIN d = 1 .. Len(d)
    BY <1>1, SliceFacts
  <1>3. ToSet(d) \subseteq M
    BY <1>2 DEF ToSet
  <1>4. CASE ShouldPaginate(q)
    <2> DEFINE skip == IF GetOffset(q) > 0 THEN GetOffset(q) ELSE 0
    <2>1. skip \in Nat
      BY PageFacts
    <2>2. \A k \in 1 .. Len(d) : k + skip \in 1 .. Len(l) /\ d[k] = l[k + skip]
      BY <1>1, <1>4, SliceFacts
    <2>3. IsInjective(d)
      <3> HIDE DEF skip, d
      <3> SUFFICES ASSUME NEW a \in 1 .. Len(d), NEW b \in 1 .. Len(d), d[a] = d[b]
                   PROVE  a = b
        BY <1>2 DEF IsInjective
      <3>0. /\ a + skip \in 1 .. Len(l) /\ b + skip \in 1 .. Len(l)
            /\ l[a + skip] = l[b + skip]
        BY <2>2
      <3>1. a + skip = b + skip
        BY <1>1, <3>0
      <3> QED BY <1>2, <2>1, <3>1
    <2>4. Len(d) <= Size(q)
      <3>1. Len(l) - skip \in Int /\ Size(q) \in Nat
        BY <1>1, <2>1, PageFacts
      <3>2. Len(d) = IF Len(l) - skip <= 0 THEN 0
                     ELSE IF Len(l) - skip < Size(q) THEN Len(l) - skip ELSE Size(q)
        BY <1>1, <1>4, SliceFacts
      <3> HIDE DEF skip, d
      <3> QED BY <3>1, <3>2
    <2> QED BY <1>2, <1>3, <1>4, <2>3, <2>4
  <1>5. CASE ~ShouldPaginate(q)
    <2>1. d = l
      BY <1>1, <1>5, SliceFacts
    <2> QED BY <1>1, <1>2, <1>3, <1>5, <2>1 DEF IsInjective, ToSet
  <1> QED BY <1>4, <1>5

-----------------------------------------------------------------------------
(* The invariant. *)

LEMMA InitInv == Init => LInv
  <1> SUFFICES ASSUME Init PROVE LInv
    OBVIOUS
  <1>1. Cardinality(Ids) \in Nat
    BY IdsFinite, FS_CardinalityType
  <1>2. TypeOK
    BY <1>1, TablesOK, SizesOK DEF Init, TypeOK, IsInjective
  <1>3. \A r \in Requests : SeenOK(r)
    BY FS_EmptySet DEF Init, SeenOK, InProgress
  <1>4. \A r \in Requests : Place(r)
    BY DEF Init, Place, InProgress, Listed
  <1> QED BY <1>2, <1>3, <1>4 DEF LInv

(* What is recorded stays recorded, and the new database is added. *)
LEMMA RecordFacts ==
  ASSUME LInv, Record, rows' \in [Ids -> Row], members' \subseteq Users \X Companies
  PROVE  \A r \in Requests :
           /\ SeenOK(r)'
           /\ seen[r] \subseteq seen'[r]
           /\ InProgress(r) \/ InProgress(r)' => Now' \in seen'[r]
  <1> SUFFICES ASSUME NEW r \in Requests
               PROVE  /\ SeenOK(r)'
                      /\ seen[r] \subseteq seen'[r]
                      /\ InProgress(r) \/ InProgress(r)' => Now' \in seen'[r]
    OBVIOUS
  <1>1. seen'[r] = IF InProgress(r) \/ InProgress(r)' THEN seen[r] \cup {Now'} ELSE seen[r]
    BY DEF Record
  <1>2. Now' \in Snapshot
    BY DEF Now, Snapshot
  <1>3. seen[r] \subseteq Snapshot /\ IsFiniteSet(seen[r])
    BY DEF LInv, SeenOK
  <1>4. IsFiniteSet(seen[r] \cup {Now'})
    BY <1>3, FS_AddElement
  <1> QED BY <1>1, <1>2, <1>3, <1>4 DEF SeenOK

(* A request that does nothing keeps its place. *)
LEMMA Kept ==
  ASSUME NEW r \in Requests, Place(r), seen[r] \subseteq seen'[r],
         pc'[r] = pc[r], req'[r] = req[r], resp'[r] = resp[r],
         total'[r] = total[r], data'[r] = data[r], with'[r] = with[r]
  PROVE  Place(r)'
  <1>1. InProgress(r)' = InProgress(r) /\ Listed(r)' = Listed(r) /\ Shown(r)' = Shown(r)
    BY DEF InProgress, Listed, Shown
  <1>2. Counted(r) => Counted(r)'
    BY DEF Counted
  <1>3. Paged(r) => Paged(r)'
    BY DEF Paged
  <1>4. Joined(r) => Joined(r)'
    BY <1>1 DEF Joined
  <1>5. Loaded(r) => Loaded(r)'
    <2>1. ASSUME NEW t \in seen[r], NEW u \in seen[r],
                 with[r] = {m \in t.members : m[1] \in Shown(r) /\ u.rows[m[2]].st = "live"}
          PROVE  Loaded(r)'
      <3>1. t \in seen'[r] /\ u \in seen'[r]
        OBVIOUS
      <3> QED BY <1>1, <2>1, <3>1 DEF Loaded
    <2> QED BY <2>1 DEF Loaded
  <1> QED BY <1>1, <1>2, <1>3, <1>4, <1>5 DEF Place

(* What is shown has the type of what was found. *)
LEMMA DataTyped ==
  ASSUME NEW r \in Requests, Place(r)', SeenOK(r)'
  PROVE  /\ IsInjective(data'[r])
         /\ data'[r] # <<>> => ToSet(data'[r]) \subseteq TableOf(req'[r])
  <1>1. CASE data'[r] = <<>>
    BY <1>1 DEF IsInjective
  <1>2. CASE data'[r] # <<>>
    <2>1. Paged(r)' /\ req'[r] \in Call
      BY <1>2, CallsOK DEF Place, InProgress
    <2>2. PICK t \in seen'[r] : \E l \in Listings(t.rows, req'[r]) : data'[r] = Slice(l, req'[r])
      BY <2>1 DEF Paged
    <2> QED BY <2>1, <2>2, PagedFacts, MatchingFacts
  <1> QED BY <1>1, <1>2

(* A step of one request: what is left to show is about that request. *)
LEMMA StepInv ==
  ASSUME LInv, Record, UNCHANGED database, NEW r \in Requests,
         NEW p, pc' = [pc EXCEPT ![r] = p],
         p \in {"count", "select", "joins", "companies", "done"},
         NEW a, resp' = [resp EXCEPT ![r] = a], a \in {"none", "ok", "dberror", "invalid"},
         NEW q, req' = [req EXCEPT ![r] = q], q \in Calls \cup {NoCall},
         NEW n, total' = [total EXCEPT ![r] = n], n \in 0 .. Cardinality(Ids),
         NEW d, data' = [data EXCEPT ![r] = d], d \in Seq(Ids),
         NEW w, with' = [with EXCEPT ![r] = w], w \subseteq Users \X Companies,
         SeenOK(r)' /\ seen[r] \subseteq seen'[r] /\ Now' = Now
           /\ (InProgress(r) \/ InProgress(r)' => Now \in seen'[r]) => Place(r)'
  PROVE  LInv'
  <1>1. rows' = rows /\ members' = members /\ changes' = changes /\ Now' = Now
    BY DEF database, Now
  <1>2. \A s \in Requests : SeenOK(s)' /\ seen[s] \subseteq seen'[s]
                            /\ (InProgress(s) \/ InProgress(s)' => Now' \in seen'[s])
    BY <1>1, RecordFacts DEF LInv, TypeOK
  <1>3. \A s \in Requests : Place(s)'
    <2>1. Place(r)'
      BY <1>1, <1>2
    <2>2. ASSUME NEW s \in Requests \ {r} PROVE Place(s)'
      <3>1. /\ pc'[s] = pc[s] /\ req'[s] = req[s] /\ resp'[s] = resp[s]
            /\ total'[s] = total[s] /\ data'[s] = data[s] /\ with'[s] = with[s]
        BY DEF LInv, TypeOK
      <3> QED BY <1>2, <3>1, Kept DEF LInv
    <2> QED BY <2>1, <2>2
  <1>4. TypeOK'
    <2>1. \A s \in Requests : /\ IsInjective(data'[s])
                              /\ data'[s] # <<>> => ToSet(data'[s]) \subseteq TableOf(req'[s])
      BY <1>2, <1>3, DataTyped
    <2> QED BY <1>1, <2>1 DEF LInv, TypeOK
  <1> QED BY <1>2, <1>3, <1>4 DEF LInv

(* A variable that is left alone. *)
LEMMA Same ==
  ASSUME LInv, NEW r \in Requests
  PROVE  /\ req = [req EXCEPT ![r] = req[r]] /\ req[r] \in Calls \cup {NoCall}
         /\ total = [total EXCEPT ![r] = total[r]] /\ total[r] \in 0 .. Cardinality(Ids)
         /\ data = [data EXCEPT ![r] = data[r]] /\ data[r] \in Seq(Ids)
         /\ with = [with EXCEPT ![r] = with[r]] /\ with[r] \subseteq Users \X Companies
         /\ resp = [resp EXCEPT ![r] = resp[r]] /\ resp[r] \in {"none", "ok", "dberror", "invalid"}
  BY DEF LInv, TypeOK

LEMMA GetListInv ==
  ASSUME LInv, NEW r \in Requests, GetList(r), Record
  PROVE  LInv'
  <1>1. PICK q \in Calls :
          /\ req' = [req EXCEPT ![r] = q]
          /\ \/ Answer(r, "invalid")
             \/ Goto(r, IF ShouldPaginate(q) THEN "count" ELSE "select")
    BY DEF GetList
  <1>2. /\ pc[r] = "idle" /\ resp[r] = "none" /\ data[r] = <<>> /\ with[r] = {}
        /\ UNCHANGED <<database, total, data, with>>
    BY DEF GetList, local, LInv, Place, Listed
  <1>3. req'[r] = q
    BY <1>1 DEF LInv, TypeOK
  <1>4. CASE Answer(r, "invalid")
    <2>1. pc' = [pc EXCEPT ![r] = "done"] /\ resp' = [resp EXCEPT ![r] = "invalid"]
      BY <1>4 DEF Answer
    <2>2. pc'[r] = "done" /\ resp'[r] = "invalid"
      BY <2>1 DEF LInv, TypeOK
    <2>3. Place(r)'
      BY <1>2, <2>2 DEF Place, InProgress, Listed
    <2> QED BY <1>1, <1>2, <2>1, <2>3, Same, StepInv
  <1>5. CASE Goto(r, IF ShouldPaginate(q) THEN "count" ELSE "select")
    <2>1. /\ pc' = [pc EXCEPT ![r] = IF ShouldPaginate(q) THEN "count" ELSE "select"]
          /\ resp' = resp
      BY <1>5 DEF Goto
    <2>2. pc'[r] = (IF ShouldPaginate(q) THEN "count" ELSE "select") /\ resp'[r] = "none"
      BY <1>2, <2>1 DEF LInv, TypeOK
    <2>3. Place(r)'
      BY <1>2, <1>3, <2>2 DEF Place, InProgress, Listed
    <2> QED BY <1>1, <1>2, <2>1, <2>3, Same, StepInv
  <1> QED BY <1>1, <1>4, <1>5

LEMMA CountInv ==
  ASSUME LInv, NEW r \in Requests, Count(r), Record
  PROVE  LInv'
  <1> DEFINE q == req[r]
             n == Cardinality(Matching(rows, q))
  <1>1. /\ pc[r] = "count" /\ resp[r] = "none" /\ q \in Calls /\ q \in Call
        /\ ShouldPaginate(q) /\ data[r] = <<>> /\ with[r] = {}
    BY CallsOK DEF Count, LInv, Place, InProgress, Listed
  <1>2. n \in 0 .. Cardinality(Ids)
    BY <1>1, MatchingFacts
  <1>3. /\ total' = [total EXCEPT ![r] = n]
        /\ UNCHANGED <<database, req, data, with>>
        /\ IF n = 0 THEN Answer(r, "ok") ELSE Goto(r, "select")
    BY DEF Count
  <1>4. total'[r] = n /\ req'[r] = q /\ data'[r] = <<>> /\ with'[r] = {}
    BY <1>1, <1>3 DEF LInv, TypeOK
  <1>5. Now \in seen'[r] => Counted(r)'
    <2>1. Now.rows = rows
      BY DEF Now
    <2> QED BY <1>3, <1>4, <2>1 DEF Counted
  <1>6. CASE n = 0
    <2>1. pc' = [pc EXCEPT ![r] = "done"] /\ resp' = [resp EXCEPT ![r] = "ok"]
      BY <1>3, <1>6 DEF Answer
    <2>2. pc'[r] = "done" /\ resp'[r] = "ok"
      BY <2>1 DEF LInv, TypeOK
    <2>3. ASSUME Now \in seen'[r] PROVE Place(r)'
      <3>1. Paged(r)'
        <4>1. Now.rows = rows
          BY DEF Now
        <4>2. <<>> \in Listings(rows, q) /\ Slice(<<>>, q) = <<>>
          BY <1>1, <1>6, EmptyListing
        <4> QED BY <1>4, <2>3, <4>1, <4>2 DEF Paged
      <3>2. Loaded(r)'
        <4>1. \A x : x \notin Shown(r)'
          BY <1>4 DEF Shown, ToSet
        <4>2. with'[r] = {m \in Now.members : m[1] \in Shown(r)' /\ Now.rows[m[2]].st = "live"}
          BY <1>4, <4>1
        <4> QED BY <2>3, <4>2 DEF Loaded
      <3> QED BY <1>1, <1>4, <1>5, <2>2, <2>3, <3>1, <3>2 DEF Place, InProgress, Listed
    <2> QED BY <1>1, <1>2, <1>3, <2>1, <2>3, Same, StepInv DEF InProgress
  <1>7. CASE n # 0
    <2>1. pc' = [pc EXCEPT ![r] = "select"] /\ resp' = resp
      BY <1>3, <1>7 DEF Goto
    <2>2. pc'[r] = "select" /\ resp'[r] = "none"
      BY <1>1, <2>1 DEF LInv, TypeOK
    <2>3. ASSUME Now \in seen'[r] PROVE Place(r)'
      BY <1>1, <1>4, <1>5, <2>2, <2>3 DEF Place, InProgress, Listed
    <2> QED BY <1>1, <1>2, <1>3, <2>1, <2>3, Same, StepInv DEF InProgress
  <1> QED BY <1>6, <1>7

LEMMA FindInv ==
  ASSUME LInv, NEW r \in Requests, Find(r), Record
  PROVE  LInv'
  <1> DEFINE q == req[r]
  <1>1. /\ pc[r] = "select" /\ resp[r] = "none" /\ q \in Calls /\ q \in Call
        /\ data[r] = <<>> /\ with[r] = {}
        /\ ShouldPaginate(q) => Counted(r)
        /\ UNCHANGED <<database, req, total, with>>
    BY CallsOK DEF Find, LInv, Place, InProgress, Listed
  <1>2. total'[r] = total[r] /\ req'[r] = q /\ with'[r] = {}
    BY <1>1
  <1>3. CASE Answer(r, "dberror") /\ UNCHANGED data
    <2>1. pc' = [pc EXCEPT ![r] = "done"] /\ resp' = [resp EXCEPT ![r] = "dberror"]
      BY <1>3 DEF Answer
    <2>2. pc'[r] = "done" /\ resp'[r] = "dberror"
      BY <2>1 DEF LInv, TypeOK
    <2>3. Place(r)'
      BY <1>1, <1>2, <1>3, <2>2 DEF Place, InProgress, Listed
    <2> QED BY <1>1, <1>3, <2>1, <2>3, Same, StepInv
  <1>4. ASSUME NEW l \in Listings(rows, q), data' = [data EXCEPT ![r] = Slice(l, q)],
               IF q.of = "users" /\ Slice(l, q) # <<>> THEN Goto(r, "joins")
               ELSE Answer(r, "ok")
        PROVE  LInv'
    <2>1. Slice(l, q) \in Seq(Ids)
      BY <1>1, PagedFacts, MatchingFacts, SeqMonotonic
    <2>2. data'[r] = Slice(l, q)
      BY <1>4 DEF LInv, TypeOK
    <2>3. ASSUME Now \in seen'[r], seen[r] \subseteq seen'[r]
          PROVE  Paged(r)' /\ (ShouldPaginate(q) => Counted(r)')
      <3>1. Now.rows = rows
        BY DEF Now
      <3>2. Paged(r)'
        BY <1>2, <2>2, <2>3, <3>1 DEF Paged
      <3>3. Counted(r) => Counted(r)'
        BY <1>2, <2>3 DEF Counted
      <3> QED BY <1>1, <3>2, <3>3
    <2>4. CASE q.of = "users" /\ Slice(l, q) # <<>>
      <3>1. pc' = [pc EXCEPT ![r] = "joins"] /\ resp' = resp
        BY <1>4, <2>4 DEF Goto
      <3>2. pc'[r] = "joins" /\ resp'[r] = "none"
        BY <1>1, <3>1 DEF LInv, TypeOK
      <3>3. ASSUME Now \in seen'[r], seen[r] \subseteq seen'[r] PROVE Place(r)'
        BY <1>1, <1>2, <2>3, <2>4, <3>2, <3>3 DEF Place, InProgress, Listed
      <3> QED BY <1>1, <1>4, <2>1, <3>1, <3>3, Same, StepInv DEF InProgress
    <2>5. CASE ~(q.of = "users" /\ Slice(l, q) # <<>>)
      <3>1. pc' = [pc EXCEPT ![r] = "done"] /\ resp' = [resp EXCEPT ![r] = "ok"]
        BY <1>4, <2>5 DEF Answer
      <3>2. pc'[r] = "done" /\ resp'[r] = "ok"
        BY <3>1 DEF LInv, TypeOK
      <3>3. ASSUME Now \in seen'[r], seen[r] \subseteq seen'[r] PROVE Place(r)'
        <4>1. q.of = "users" => Loaded(r)'
          <5> SUFFICES ASSUME q.of = "users" PROVE Loaded(r)'
            OBVIOUS
          <5>1. \A x : x \notin Shown(r)'
            BY <2>2, <2>5 DEF Shown, ToSet
          <5>2. with'[r] = {m \in Now.members : m[1] \in Shown(r)' /\ Now.rows[m[2]].st = "live"}
            BY <1>2, <5>1
          <5> QED BY <3>3, <5>2 DEF Loaded
        <4> QED BY <1>1, <1>2, <2>3, <3>2, <3>3, <4>1 DEF Place, InProgress, Listed
      <3> QED BY <1>1, <1>4, <2>1, <3>1, <3>3, Same, StepInv DEF InProgress
    <2> QED BY <2>4, <2>5
  <1> QED BY <1>3, <1>4 DEF Find

LEMMA PreloadJoinsInv ==
  ASSUME LInv, NEW r \in Requests, PreloadJoins(r), Record
  PROVE  LInv'
  <1> DEFINE q == req[r]
             w == {m \in members : m[1] \in Shown(r)}
  <1>1. /\ pc[r] = "joins" /\ resp[r] = "none" /\ q \in Calls /\ q.of = "users"
        /\ Paged(r) /\ (ShouldPaginate(q) => Counted(r))
        /\ UNCHANGED <<database, req, total, data>>
    BY DEF PreloadJoins, LInv, Place, InProgress, Listed
  <1>2. with' = [with EXCEPT ![r] = w] /\ with'[r] = w /\ w \subseteq Users \X Companies
    BY DEF PreloadJoins, LInv, TypeOK, Shown
  <1>3. ASSUME seen[r] \subseteq seen'[r]
        PROVE  Paged(r)' /\ (Counted(r) => Counted(r)') /\ Shown(r)' = Shown(r)
    BY <1>1, <1>3 DEF Paged, Counted, Shown
  <1>4. CASE w = {}
    <2>1. pc' = [pc EXCEPT ![r] = "done"] /\ resp' = [resp EXCEPT ![r] = "ok"]
      BY <1>2, <1>4 DEF PreloadJoins, Answer
    <2>2. pc'[r] = "done" /\ resp'[r] = "ok"
      BY <2>1 DEF LInv, TypeOK
    <2>3. ASSUME Now \in seen'[r], seen[r] \subseteq seen'[r] PROVE Place(r)'
      <3>1. Now.members = members
        BY DEF Now
      <3>2. with'[r] = {m \in Now.members : m[1] \in Shown(r)' /\ Now.rows[m[2]].st = "live"}
        BY <1>2, <1>3, <1>4, <2>3, <3>1
      <3>3. Loaded(r)'
        BY <2>3, <3>2 DEF Loaded
      <3> QED BY <1>1, <1>3, <2>2, <2>3, <3>3 DEF Place, InProgress, Listed
    <2> QED BY <1>1, <1>2, <2>1, <2>3, Same, StepInv DEF InProgress
  <1>5. CASE w # {}
    <2>1. pc' = [pc EXCEPT ![r] = "companies"] /\ resp' = resp
      BY <1>2, <1>5 DEF PreloadJoins, Goto
    <2>2. pc'[r] = "companies" /\ resp'[r] = "none"
      BY <1>1, <2>1 DEF LInv, TypeOK
    <2>3. ASSUME Now \in seen'[r], seen[r] \subseteq seen'[r] PROVE Place(r)'
      <3>1. Now.members = members
        BY DEF Now
      <3>2. Joined(r)'
        BY <1>2, <1>3, <2>3, <3>1 DEF Joined
      <3> QED BY <1>1, <1>3, <2>2, <2>3, <3>2 DEF Place, InProgress, Listed
    <2> QED BY <1>1, <1>2, <2>1, <2>3, Same, StepInv DEF InProgress
  <1> QED BY <1>4, <1>5

LEMMA PreloadCompaniesInv ==
  ASSUME LInv, NEW r \in Requests, PreloadCompanies(r), Record
  PROVE  LInv'
  <1> DEFINE q == req[r]
             w == {m \in with[r] : rows[m[2]].st = "live"}
  <1>1. /\ pc[r] = "companies" /\ resp[r] = "none" /\ q \in Calls /\ q.of = "users"
        /\ Paged(r) /\ (ShouldPaginate(q) => Counted(r)) /\ Joined(r)
        /\ UNCHANGED <<database, req, total, data>>
    BY DEF PreloadCompanies, LInv, Place, InProgress, Listed
  <1>2. with' = [with EXCEPT ![r] = w] /\ with'[r] = w /\ w \subseteq Users \X Companies
    BY DEF PreloadCompanies, LInv, TypeOK
  <1>3. pc' = [pc EXCEPT ![r] = "done"] /\ resp' = [resp EXCEPT ![r] = "ok"]
    BY DEF PreloadCompanies, Answer
  <1>4. pc'[r] = "done" /\ resp'[r] = "ok"
    BY <1>3 DEF LInv, TypeOK
  <1>5. ASSUME Now \in seen'[r], seen[r] \subseteq seen'[r] PROVE Place(r)'
    <2>1. Paged(r)' /\ (Counted(r) => Counted(r)') /\ Shown(r)' = Shown(r)
      BY <1>1, <1>5 DEF Paged, Counted, Shown
    <2>2. PICK t \in seen[r] : with[r] = {m \in t.members : m[1] \in Shown(r)}
      BY <1>1 DEF Joined
    <2>3. Now.rows = rows
      BY DEF Now
    <2>4. with'[r] = {m \in t.members : m[1] \in Shown(r)' /\ Now.rows[m[2]].st = "live"}
      BY <1>2, <2>1, <2>2, <2>3
    <2>5. Loaded(r)'
      BY <1>5, <2>2, <2>4 DEF Loaded
    <2> QED BY <1>1, <1>4, <1>5, <2>1, <2>5 DEF Place, InProgress, Listed
  <1> QED BY <1>1, <1>2, <1>3, <1>5, Same, StepInv DEF InProgress

LEMMA StatementFailsInv ==
  ASSUME LInv, NEW r \in Requests, StatementFails(r), Record
  PROVE  LInv'
  <1>1. /\ pc' = [pc EXCEPT ![r] = "done"] /\ resp' = [resp EXCEPT ![r] = "dberror"]
        /\ total' = [total EXCEPT ![r] = 0] /\ data' = [data EXCEPT ![r] = <<>>]
        /\ with' = [with EXCEPT ![r] = {}] /\ UNCHANGED <<database, req>>
    BY DEF StatementFails, Answer
  <1>2. 0 \in 0 .. Cardinality(Ids) /\ <<>> \in Seq(Ids)
    BY IdsFinite, FS_CardinalityType
  <1>3. pc'[r] = "done" /\ resp'[r] = "dberror" /\ data'[r] = <<>> /\ with'[r] = {}
    BY <1>1 DEF LInv, TypeOK
  <1>4. Place(r)'
    BY <1>3 DEF Place, InProgress, Listed
  <1>5. req' = [req EXCEPT ![r] = req[r]] /\ req[r] \in Calls \cup {NoCall}
    BY <1>1, Same
  <1>6. ASSUME NEW d \in Seq(Ids), data' = [data EXCEPT ![r] = d],
               NEW w \in SUBSET (Users \X Companies), with' = [with EXCEPT ![r] = w],
               NEW n \in 0 .. Cardinality(Ids), total' = [total EXCEPT ![r] = n]
        PROVE  LInv'
    BY <1>1, <1>4, <1>5, <1>6, StepInv
  <1> QED BY <1>1, <1>2, <1>6

(* The commits of other requests: well-typed, and seen by all in progress.   *)
LEMMA OtherRequestInv == LInv /\ OtherRequest /\ Record => LInv'
  <1> SUFFICES ASSUME LInv, OtherRequest, Record PROVE LInv'
    OBVIOUS
  <1>1. PICK x \in Ids : Put(x) \/ Delete(x)
    BY DEF OtherRequest
  <1>2. rows' \in [Ids -> Row] /\ members' \subseteq Users \X Companies
    <2>1. CASE Put(x)
      <3>1. PICK v \in Values : rows' = [rows EXCEPT ![x] = [st |-> "live", is |-> v]]
        BY <2>1 DEF Put
      <3>2. [st |-> "live", is |-> v] \in Row
        BY ValuesOK DEF Row
      <3>3. members' \subseteq Users \X Companies
        BY <2>1 DEF Put, LInv, TypeOK
      <3> QED BY <3>1, <3>2, <3>3 DEF LInv, TypeOK
    <2>2. CASE Delete(x)
      <3>1. [rows[x] EXCEPT !.st = "gone"] \in Row
        BY DEF LInv, TypeOK, Row
      <3>2. rows' = [rows EXCEPT ![x] = [rows[x] EXCEPT !.st = "gone"]]
        BY <2>2 DEF Delete
      <3> QED BY <2>2, <3>1, <3>2 DEF Delete, LInv, TypeOK
    <2> QED BY <1>1, <2>1, <2>2
  <1>3. UNCHANGED <<pc, req, resp, total, data, with>>
    BY DEF OtherRequest, local
  <1>4. \A r \in Requests : SeenOK(r)' /\ Place(r)'
    BY <1>2, <1>3, RecordFacts, Kept DEF LInv
  <1>5. changes' \in 0 .. MaxChanges
    BY SizesOK DEF OtherRequest, LInv, TypeOK
  <1> QED BY <1>2, <1>3, <1>4, <1>5 DEF LInv, TypeOK

LEMMA NextInv == LInv /\ [Next]_vars => LInv'
  <1> SUFFICES ASSUME LInv, [Next]_vars PROVE LInv'
    OBVIOUS
  <1>1. CASE UNCHANGED vars
    <2>1. UNCHANGED <<rows, members, changes, pc, req, resp, total, data, with, seen>>
      BY <1>1 DEF vars, database, local
    <2>2. \A r \in Requests : Place(r)'
      BY <2>1, Kept DEF LInv
    <2>3. \A r \in Requests : SeenOK(r)'
      BY <2>1 DEF LInv, SeenOK, InProgress, Now
    <2> QED BY <2>1, <2>2, <2>3 DEF LInv, TypeOK
  <1> QED BY <1>1, GetListInv, CountInv, FindInv, PreloadJoinsInv, PreloadCompaniesInv,
             StatementFailsInv, OtherRequestInv DEF Next, Step, Finished

(* Whatever is committed between the statements of a list, what the request  *)
(* holds is what some database it has met had.                               *)
THEOREM Invariance == Spec => []LInv
  BY InitInv, NextInv, PTL DEF Spec

(* Types; what is selected is of the table asked for, each row once.         *)
THEOREM TypeCorrect == Spec => []TypeOK
  <1>1. LInv => TypeOK
    BY DEF LInv
  <1> QED BY <1>1, Invariance, PTL

-----------------------------------------------------------------------------
(* What a list shows. *)

(* Each row a list shows was live, each company it shows with a user was     *)
(* that user's and was live, and the total was true, at some time during the *)
(* call; no page is longer than asked for.                                   *)
THEOREM WereThere == Spec => []ListedWereThere
  <1>1. LInv => ListedWereThere
    <2> SUFFICES ASSUME LInv, NEW r \in Requests, Listed(r)
                 PROVE  /\ \A x \in Shown(r) : \E t \in seen[r] : t.rows[x].st = "live"
                        /\ \A m \in with[r] : /\ m[1] \in Shown(r)
                                              /\ \E t \in seen[r] : m \in t.members
                                              /\ \E t \in seen[r] : t.rows[m[2]].st = "live"
                        /\ ShouldPaginate(req[r]) =>
                             /\ Len(data[r]) <= Size(req[r])
                             /\ \E t \in seen[r] :
                                  total[r] = Cardinality(Matching(t.rows, req[r]))
      BY DEF ListedWereThere
    <2>1. /\ req[r] \in Call /\ Paged(r)
          /\ ShouldPaginate(req[r]) => Counted(r)
          /\ IF req[r].of = "users" THEN Loaded(r) ELSE with[r] = {}
      BY CallsOK DEF LInv, Place
    <2>2. PICK t \in seen[r] : \E l \in Listings(t.rows, req[r]) : data[r] = Slice(l, req[r])
      BY <2>1 DEF Paged
    <2>3. Shown(r) \subseteq Matching(t.rows, req[r])
      BY <2>1, <2>2, PagedFacts DEF Shown
    <2>4. \A x \in Shown(r) : t.rows[x].st = "live"
      BY <2>3 DEF Matching
    <2>5. \A m \in with[r] : /\ m[1] \in Shown(r)
                             /\ \E s \in seen[r] : m \in s.members
                             /\ \E s \in seen[r] : s.rows[m[2]].st = "live"
      <3>1. CASE req[r].of = "users"
        <4>1. PICK s \in seen[r], u \in seen[r] :
                with[r] = {m \in s.members : m[1] \in Shown(r) /\ u.rows[m[2]].st = "live"}
          BY <2>1, <3>1 DEF Loaded
        <4> QED BY <4>1
      <3>2. CASE req[r].of # "users"
        BY <2>1, <3>2
      <3> QED BY <3>1, <3>2
    <2>6. ShouldPaginate(req[r]) => Len(data[r]) <= Size(req[r])
      BY <2>1, <2>2, PagedFacts
    <2> QED BY <2>1, <2>4, <2>5, <2>6 DEF Counted
  <1> QED BY <1>1, Invariance, PTL

(* A request nothing interfered with has met one database. *)
LEMMA QuietFacts ==
  ASSUME LInv, NEW r \in Requests, Quiet(r)
  PROVE  LET t == CHOOSE s \in seen[r] : TRUE IN seen[r] = {t} /\ t \in Snapshot
  <1>1. IsFiniteSet(seen[r]) /\ Cardinality(seen[r]) = 1 /\ seen[r] \subseteq Snapshot
    BY DEF LInv, SeenOK, Quiet
  <1>2. \E t : seen[r] = {t}
    BY <1>1, FS_Singleton
  <1>3. PICK t : seen[r] = {t}
    BY <1>2
  <1>4. (CHOOSE s \in seen[r] : TRUE) = t
    BY <1>3
  <1> QED BY <1>1, <1>3, <1>4

(* What such a request lists is a page of one listing of one database.       *)
LEMMA QuietListing ==
  ASSUME LInv, NEW r \in Requests, Listed(r), Quiet(r)
  PROVE  LET q == req[r]
             t == CHOOSE s \in seen[r] : TRUE
         IN /\ q \in Call
            /\ t.rows \in [Ids -> Row]
            /\ ShouldPaginate(q) => total[r] = Cardinality(Matching(t.rows, q))
            /\ \E l \in Listings(t.rows, q) : data[r] = Slice(l, q)
            /\ q.of = "users" =>
                 with[r] = {m \in t.members : m[1] \in Shown(r) /\ t.rows[m[2]].st = "live"}
  <1> DEFINE t == CHOOSE s \in seen[r] : TRUE
  <1>1. seen[r] = {t} /\ t \in Snapshot
    BY QuietFacts
  <1>2. /\ req[r] \in Call /\ Paged(r)
        /\ ShouldPaginate(req[r]) => Counted(r)
        /\ req[r].of = "users" => Loaded(r)
    BY CallsOK DEF LInv, Place
  <1> HIDE DEF t
  <1>3. t.rows \in [Ids -> Row]
    BY <1>1 DEF Snapshot
  <1>4. ShouldPaginate(req[r]) => total[r] = Cardinality(Matching(t.rows, req[r]))
    BY <1>1, <1>2 DEF Counted
  <1>5. \E l \in Listings(t.rows, req[r]) : data[r] = Slice(l, req[r])
    BY <1>1, <1>2 DEF Paged
  <1>6. req[r].of = "users" =>
          with[r] = {m \in t.members : m[1] \in Shown(r) /\ t.rows[m[2]].st = "live"}
    BY <1>1, <1>2 DEF Loaded
  <1> QED BY <1>2, <1>3, <1>4, <1>5, <1>6 DEF t

(* Unless OR is mixed with a range, the query finds what is asked for.       *)
LEMMA FindsWanted ==
  ASSUME NEW q \in Call, ~OrMixed(q), NEW tbl \in [Ids -> Row]
  PROVE  Matching(tbl, q) =
           {x \in TableOf(q) : tbl[x].st = "live" /\ Wanted(tbl[x].is, q)}
  <1>1. ASSUME NEW v PROVE Selects(v, q) <=> Wanted(v, q)
    <2>1. q.of \in {"users", "companies"} /\ q.text \in BOOLEAN
      BY DEF Call
    <2>2. CASE ~q.text
      BY <2>2 DEF Selects, Wanted
    <2>3. CASE q.text /\ q.of = "companies"
      BY <2>3 DEF Selects, Wanted
    <2>4. CASE q.text /\ q.of = "users"
      <3>1. InRange(v, q)
        BY <2>4 DEF OrMixed, InRange
      <3> QED BY <2>4, <3>1 DEF Selects, Wanted
    <2> QED BY <2>1, <2>2, <2>3, <2>4
  <1> QED BY <1>1 DEF Matching

(* A list nothing interferes with is exact: the total counts what the        *)
(* parameters ask for, the page has the length that is left of it, and users *)
(* come with all their live companies.                                       *)
THEOREM QuietExact == Spec => []QuietPageExact
  <1>1. LInv => QuietPageExact
    <2> SUFFICES ASSUME LInv, NEW r \in Requests,
                        Listed(r), Quiet(r), Fits(req[r]), ~OrMixed(req[r])
                 PROVE  LET q == req[r]
                            t == CHOOSE s \in seen[r] : TRUE
                            all == {x \in TableOf(q) :
                                      t.rows[x].st = "live" /\ Wanted(t.rows[x].is, q)}
                            left == Cardinality(all) - (Page(q) - 1) * Size(q)
                        IN /\ Shown(r) \subseteq all
                           /\ IF ShouldPaginate(q)
                              THEN /\ total[r] = Cardinality(all)
                                   /\ Len(data[r]) = IF left <= 0 THEN 0
                                                     ELSE IF left < Size(q) THEN left
                                                     ELSE Size(q)
                              ELSE Shown(r) = all
                           /\ q.of = "users" =>
                                with[r] = {m \in t.members :
                                             m[1] \in Shown(r) /\ t.rows[m[2]].st = "live"}
      BY DEF QuietPageExact
    <2> DEFINE q == req[r]
               t == CHOOSE s \in seen[r] : TRUE
               all == {x \in TableOf(q) : t.rows[x].st = "live" /\ Wanted(t.rows[x].is, q)}
               left == Cardinality(all) - (Page(q) - 1) * Size(q)
    <2>1. /\ q \in Call /\ t.rows \in [Ids -> Row]
          /\ ShouldPaginate(q) => total[r] = Cardinality(Matching(t.rows, q))
          /\ \E l \in Listings(t.rows, q) : data[r] = Slice(l, q)
          /\ q.of = "users" =>
               with[r] = {m \in t.members : m[1] \in Shown(r) /\ t.rows[m[2]].st = "live"}
      BY QuietListing
    <2>2. Matching(t.rows, q) = all
      <3> HIDE DEF t
      <3> QED BY <2>1, FindsWanted
    <2>3. PICK l \in Listings(t.rows, q) : data[r] = Slice(l, q)
      BY <2>1
    <2> HIDE DEF t, all
    <2>4. /\ Shown(r) \subseteq all
          /\ ~ShouldPaginate(q) => Shown(r) = all
      BY <2>1, <2>2, <2>3, PagedFacts DEF Shown
    <2>5. ASSUME ShouldPaginate(q)
          PROVE  Len(data[r]) = IF left <= 0 THEN 0
                                ELSE IF left < Size(q) THEN left ELSE Size(q)
      <3>1. l \in Seq(all) /\ Len(l) = Cardinality(all)
        BY <2>1, <2>2, ListingsFacts
      <3>2. (IF GetOffset(q) > 0 THEN GetOffset(q) ELSE 0) = (Page(q) - 1) * Size(q)
        <4>1. GetOffset(q) = (Page(q) - 1) * Size(q) /\ GetOffset(q) \in Nat
          BY <2>1, PageFacts
        <4> QED BY <4>1
      <3> QED BY <2>1, <2>3, <2>5, <3>1, <3>2, SliceFacts
    <2> QED BY <2>1, <2>2, <2>4, <2>5 DEF t, all
  <1> QED BY <1>1, Invariance, PTL

(* ORDER BY compares rows by the first of its columns they differ in.        *)
LEMMA OrderType ==
  ASSUME NEW q \in Call
  PROVE  Order(q) \in Seq([by : Columns, desc : BOOLEAN])
  <1>1. [by |-> "created_at", desc |-> TRUE] \in [by : Columns, desc : BOOLEAN]
    BY DEF Columns
  <1>2. <<[by |-> "created_at", desc |-> TRUE]>> \in Seq([by : Columns, desc : BOOLEAN])
    BY <1>1
  <1>3. q.sort \in Seq([by : Columns, desc : BOOLEAN])
    BY DEF Call
  <1> QED BY <1>2, <1>3 DEF Order

LEMMA KeyType ==
  ASSUME NEW v \in Value, NEW by
  PROVE  Key(v, by) \in Nat
  BY DEF Key, Value

LEMMA BeforeAsymmetric ==
  ASSUME NEW q \in Call, NEW v \in Value, NEW w \in Value, Before(v, w, Order(q))
  PROVE  ~Before(w, v, Order(q))
  <1> DEFINE o == Order(q)
             a(i) == Key(v, o[i].by)
             b(i) == Key(w, o[i].by)
  <1>1. \A i \in DOMAIN o : a(i) \in Nat /\ b(i) \in Nat
    BY KeyType
  <1>2. DOMAIN o \subseteq Nat \ {0}
    BY OrderType
  <1>3. PICK i \in DOMAIN o : /\ \A k \in 1 .. i - 1 : a(k) = b(k)
                              /\ IF o[i].desc THEN a(i) > b(i) ELSE a(i) < b(i)
    BY DEF Before
  <1>4. ASSUME Before(w, v, o) PROVE FALSE
    <2>1. PICK j \in DOMAIN o : /\ \A k \in 1 .. j - 1 : b(k) = a(k)
                                /\ IF o[j].desc THEN b(j) > a(j) ELSE b(j) < a(j)
      BY <1>4 DEF Before
    <2> HIDE DEF o, a, b
    <2>2. i < j \/ j < i \/ i = j
      BY <1>2
    <2>3. i < j => i \in 1 .. j - 1
      BY <1>2
    <2>4. j < i => j \in 1 .. i - 1
      BY <1>2
    <2> QED BY <1>1, <1>3, <2>1, <2>2, <2>3, <2>4
  <1> QED BY <1>4

LEMMA BeforeTransitive ==
  ASSUME NEW q \in Call, NEW u \in Value, NEW v \in Value, NEW w \in Value,
         Before(u, v, Order(q)), Before(v, w, Order(q))
  PROVE  Before(u, w, Order(q))
  <1> DEFINE o == Order(q)
             a(i) == Key(u, o[i].by)
             b(i) == Key(v, o[i].by)
             c(i) == Key(w, o[i].by)
  <1>1. \A i \in DOMAIN o : a(i) \in Nat /\ b(i) \in Nat /\ c(i) \in Nat
    BY KeyType
  <1>2. DOMAIN o \subseteq Nat \ {0}
    BY OrderType
  <1>3. PICK i \in DOMAIN o : /\ \A k \in 1 .. i : o[k].by # "other"
                              /\ \A k \in 1 .. i - 1 : a(k) = b(k)
                              /\ IF o[i].desc THEN a(i) > b(i) ELSE a(i) < b(i)
    BY DEF Before
  <1>4. PICK j \in DOMAIN o : /\ \A k \in 1 .. j : o[k].by # "other"
                              /\ \A k \in 1 .. j - 1 : b(k) = c(k)
                              /\ IF o[j].desc THEN b(j) > c(j) ELSE b(j) < c(j)
    BY DEF Before
  <1>5. \E h \in DOMAIN o : /\ \A k \in 1 .. h : o[k].by # "other"
                            /\ \A k \in 1 .. h - 1 : a(k) = c(k)
                            /\ IF o[h].desc THEN a(h) > c(h) ELSE a(h) < c(h)
    <2> HIDE DEF o, a, b, c
    <2>1. CASE i < j
      <3>1. i \in 1 .. j - 1 /\ \A k \in 1 .. i - 1 : k \in 1 .. j - 1
        BY <1>2, <2>1
      <3>2. \A k \in 1 .. i - 1 : a(k) = c(k)
        BY <1>3, <1>4, <3>1
      <3> QED BY <1>3, <1>4, <3>1, <3>2
    <2>2. CASE j < i
      <3>1. j \in 1 .. i - 1 /\ \A k \in 1 .. j - 1 : k \in 1 .. i - 1
        BY <1>2, <2>2
      <3>2. \A k \in 1 .. j - 1 : a(k) = c(k)
        BY <1>3, <1>4, <3>1
      <3> QED BY <1>3, <1>4, <3>1, <3>2
    <2>3. CASE i = j
      <3>1. \A k \in 1 .. i - 1 : a(k) = c(k)
        BY <1>3, <1>4, <2>3
      <3> QED BY <1>1, <1>3, <1>4, <2>3, <3>1
    <2> QED BY <1>2, <2>1, <2>2, <2>3
  <1> QED BY <1>5 DEF Before

(* Keys no two rows share leave one listing only: what stands earlier in one *)
(* than in another comes before it.                                          *)
LEMMA Rank ==
  ASSUME NEW tbl \in [Ids -> Row], NEW q \in Call,
         NEW l \in Listings(tbl, q), NEW m \in Listings(tbl, q),
         \A x, y \in Matching(tbl, q) : x # y =>
           Before(tbl[x].is, tbl[y].is, Order(q)) \/ Before(tbl[y].is, tbl[x].is, Order(q)),
         NEW i \in 1 .. Len(l), NEW j \in 1 .. Len(m), i < j
  PROVE  Before(tbl[l[i]].is, tbl[m[j]].is, Order(q))
  <1> DEFINE M == Matching(tbl, q)
             B(x, y) == Before(tbl[x].is, tbl[y].is, Order(q))
  <1>1. /\ l \in Seq(M) /\ Len(l) \in Nat
        /\ \A x \in M : \E k \in 1 .. Len(l) : l[k] = x
        /\ \A g, h \in 1 .. Len(l) : g < h => ~B(l[h], l[g])
    <2>1. l \in Seq(M) /\ \A x \in M : \E k \in 1 .. Len(l) : l[k] = x
      BY ListingsFacts
    <2>2. \A g, h \in 1 .. Len(l) : g < h => ~B(l[h], l[g])
      BY ListingsFacts
    <2> QED BY <2>1, <2>2, LenProperties
  <1>2. /\ m \in Seq(M) /\ Len(m) \in Nat
        /\ \A g, h \in 1 .. Len(m) : m[g] = m[h] => g = h
        /\ \A g, h \in 1 .. Len(m) : g < h => ~B(m[h], m[g])
    <2>1. m \in Seq(M) /\ \A g, h \in 1 .. Len(m) : m[g] = m[h] => g = h
      BY ListingsFacts
    <2>2. \A g, h \in 1 .. Len(m) : g < h => ~B(m[h], m[g])
      BY ListingsFacts
    <2> QED BY <2>1, <2>2, LenProperties
  <1>3. l[i] \in M /\ m[j] \in M /\ \A k \in 1 .. Len(m) : m[k] \in M
    BY <1>1, <1>2, ElementOfSeq
  <1>4. \A x \in M : tbl[x].is \in Value
    BY MatchingFacts DEF Row
  <1>5. \A x, y \in M : B(x, y) => ~B(y, x)
    BY <1>4, BeforeAsymmetric
  <1>6. \A x, y, z \in M : B(x, y) /\ B(y, z) => B(x, z)
    BY <1>4, BeforeTransitive
  <1>7. \A x, y \in M : x # y => B(x, y) \/ B(y, x)
    OBVIOUS
  <1> HIDE DEF M, B
  <1>8. ASSUME l[i] = m[j] \/ B(m[j], l[i]) PROVE FALSE
    <2>1. \A k \in 1 .. j - 1 : k \in 1 .. Len(m) /\ k < j /\ k # j
      BY <1>2
    <2>2. \A k \in 1 .. j - 1 : B(m[k], l[i])
      <3> SUFFICES ASSUME NEW k \in 1 .. j - 1 PROVE B(m[k], l[i])
        OBVIOUS
      <3>1. m[k] # m[j] /\ ~B(m[j], m[k]) /\ m[k] \in M
        BY <1>2, <1>3, <2>1
      <3>2. B(m[k], m[j])
        BY <1>3, <1>7, <3>1
      <3> QED BY <1>3, <1>6, <1>8, <3>1, <3>2
    <2>3. \A k \in 1 .. j - 1 : \E h \in 1 .. i - 1 : l[h] = m[k]
      <3> SUFFICES ASSUME NEW k \in 1 .. j - 1 PROVE \E h \in 1 .. i - 1 : l[h] = m[k]
        OBVIOUS
      <3>1. m[k] \in M
        BY <1>3, <2>1
      <3>2. PICK h \in 1 .. Len(l) : l[h] = m[k]
        BY <1>1, <3>1
      <3>3. ~(i < h)
        BY <1>1, <2>2, <3>2
      <3>4. h # i
        BY <1>3, <1>5, <2>2, <3>2
      <3>5. h \in 1 .. i - 1
        BY <1>1, <3>3, <3>4
      <3> QED BY <3>2, <3>5
    <2> DEFINE f == [k \in 1 .. j - 1 |-> CHOOSE h \in 1 .. i - 1 : l[h] = m[k]]
    <2>4. \A k \in 1 .. j - 1 : f[k] \in 1 .. i - 1 /\ l[f[k]] = m[k]
      BY <2>3
    <2>5. f \in Injection(1 .. j - 1, 1 .. i - 1)
      <3>1. f \in [1 .. j - 1 -> 1 .. i - 1]
        BY <2>4
      <3> HIDE DEF f
      <3>2. \A g, h \in 1 .. j - 1 : f[g] = f[h] => g = h
        BY <1>2, <2>1, <2>4
      <3>3. DOMAIN f = 1 .. j - 1
        BY <3>1
      <3> QED BY <3>1, <3>2, <3>3 DEF Injection, IsInjective
    <2> HIDE DEF f
    <2>6. /\ IsFiniteSet(1 .. j - 1) /\ Cardinality(1 .. j - 1) = j - 1
          /\ IsFiniteSet(1 .. i - 1) /\ Cardinality(1 .. i - 1) = i - 1
      <3>1. i \in Nat \ {0} /\ j \in Nat \ {0}
        <4>1. Len(l) \in Nat /\ Len(m) \in Nat
          BY <1>1, <1>2
        <4> QED BY <4>1
      <3>2. ASSUME NEW n \in Nat \ {0}
            PROVE  IsFiniteSet(1 .. n - 1) /\ Cardinality(1 .. n - 1) = n - 1
        <4>1. 1 \in Int /\ n - 1 \in Int /\ ~(1 > n - 1 /\ n # 1) /\ n - 1 - 1 + 1 = n - 1
          OBVIOUS
        <4>2. /\ IsFiniteSet(1 .. n - 1)
              /\ Cardinality(1 .. n - 1) = IF 1 > n - 1 THEN 0 ELSE n - 1 - 1 + 1
          BY <4>1, FS_Interval
        <4> QED BY <4>1, <4>2
      <3> QED BY <3>1, <3>2
    <2>7. j - 1 <= i - 1
      BY <2>5, <2>6, FS_Injection
    <2> QED BY <2>7
  <1>9. l[i] # m[j] /\ ~B(m[j], l[i])
    BY <1>8
  <1> QED BY <1>3, <1>7, <1>9 DEF B

(* A later page of the same listing starts where this one ends, or after.    *)
LEMMA PagesApart ==
  ASSUME NEW q \in Call, NEW p \in Call, Size(p) = Size(q), Page(q) < Page(p)
  PROVE  (Page(q) - 1) * Size(q) + Size(q) <= (Page(p) - 1) * Size(p)
  <1>1. Page(q) - 1 \in Nat /\ Page(p) - 1 \in Nat /\ Size(q) \in Nat /\ Page(q) - 1 < Page(p) - 1
    BY PageFacts
  <1>2. ASSUME NEW a \in Nat, NEW b \in Nat, NEW n \in Nat, a < b PROVE a * n + n <= b * n
    BY <1>2
  <1> QED BY <1>1, <1>2

(* Where a row of a page stands in the listing.                              *)
LEMMA PageOf ==
  ASSUME NEW tbl, NEW q \in Call, Fits(q), ShouldPaginate(q), NEW l \in Listings(tbl, q),
         NEW x \in ToSet(Slice(l, q))
  PROVE  \E i \in 1 .. Len(l) : /\ l[i] = x
                                /\ (Page(q) - 1) * Size(q) < i
                                /\ i <= (Page(q) - 1) * Size(q) + Size(q)
  <1> DEFINE off == (Page(q) - 1) * Size(q)
             d   == Slice(l, q)
  <1>1. off \in Nat /\ Size(q) \in Nat /\ GetOffset(q) = off
    BY PageFacts
  <1>2. l \in Seq(Matching(tbl, q))
    BY ListingsFacts
  <1> HIDE DEF off
  <1>3. (IF GetOffset(q) > 0 THEN GetOffset(q) ELSE 0) = off
    BY <1>1
  <1>4. d \in Seq(Matching(tbl, q)) /\ Len(d) <= Size(q)
    BY PagedFacts
  <1>5. \A k \in 1 .. Len(d) : k + off \in 1 .. Len(l) /\ d[k] = l[k + off]
    BY <1>2, <1>3, SliceFacts
  <1> HIDE DEF d
  <1>6. PICK k \in 1 .. Len(d) : d[k] = x
    BY <1>4 DEF ToSet, d
  <1>7. k \in Nat /\ 0 < k /\ k <= Size(q)
    <2>1. Len(d) \in Nat
      BY <1>4
    <2> QED BY <1>1, <1>4, <1>6, <2>1
  <1>8. off < k + off /\ k + off <= off + Size(q)
    BY <1>1, <1>7
  <1> QED BY <1>5, <1>6, <1>8 DEF off

(* And the rows that stand there are on the page. *)
LEMMA OnPage ==
  ASSUME NEW tbl, NEW q \in Call, Fits(q), ShouldPaginate(q), NEW l \in Listings(tbl, q),
         NEW i \in 1 .. Len(l), (Page(q) - 1) * Size(q) < i,
         i <= (Page(q) - 1) * Size(q) + Size(q)
  PROVE  l[i] \in ToSet(Slice(l, q))
  <1> DEFINE off == (Page(q) - 1) * Size(q)
             d   == Slice(l, q)
  <1>1. off \in Nat /\ Size(q) \in Nat /\ GetOffset(q) = off
    BY PageFacts
  <1>2. l \in Seq(Matching(tbl, q)) /\ Len(l) \in Nat
    BY ListingsFacts
  <1>3. off < i /\ i <= off + Size(q)
    OBVIOUS
  <1> HIDE DEF off
  <1>4. (IF GetOffset(q) > 0 THEN GetOffset(q) ELSE 0) = off
    BY <1>1
  <1>5. /\ d \in Seq(Matching(tbl, q))
        /\ Len(d) = IF Len(l) - off <= 0 THEN 0
                    ELSE IF Len(l) - off < Size(q) THEN Len(l) - off ELSE Size(q)
        /\ \A k \in 1 .. Len(d) : d[k] = l[k + off]
    BY <1>2, <1>4, SliceFacts
  <1> HIDE DEF d
  <1>6. i - off \in 1 .. Len(d) /\ (i - off) + off = i
    BY <1>1, <1>2, <1>3, <1>5
  <1>7. d[i - off] = l[i]
    BY <1>5, <1>6
  <1> QED BY <1>5, <1>6, <1>7 DEF ToSet, d

(* Two pages of one quiet listing, ordered by keys no two rows share, do not *)
(* overlap and follow each other in that order, and no row that belongs      *)
(* between two consecutive pages is on neither.                              *)
THEOREM PagesFollow == Spec => []PagesLineUp
  <1>1. LInv => PagesLineUp
    <2> SUFFICES ASSUME LInv, NEW r \in Requests, NEW s \in Requests,
                        Listed(r), Listed(s), Quiet(r), Quiet(s), seen[r] = seen[s],
                        req[s] = [req[r] EXCEPT !.page = req[s].page],
                        Fits(req[r]), Fits(req[s]), Page(req[r]) < Page(req[s]),
                        ShouldPaginate(req[r])
                 PROVE  LET t == CHOOSE u \in seen[r] : TRUE
                            all == Matching(t.rows, req[r])
                        IN (\A x, y \in all : x # y =>
                                Before(t.rows[x].is, t.rows[y].is, Order(req[r]))
                                  \/ Before(t.rows[y].is, t.rows[x].is, Order(req[r])))
                           => \A x \in Shown(r), y \in Shown(s) :
                                /\ Before(t.rows[x].is, t.rows[y].is, Order(req[r]))
                                /\ Page(req[s]) = Page(req[r]) + 1 =>
                                     \A z \in all \ (Shown(r) \cup Shown(s)) :
                                       ~ /\ Before(t.rows[x].is, t.rows[z].is, Order(req[r]))
                                         /\ Before(t.rows[z].is, t.rows[y].is, Order(req[r]))
      BY DEF PagesLineUp
    <2> DEFINE q == req[r]
               p == req[s]
               t == CHOOSE u \in seen[r] : TRUE
               all == Matching(t.rows, q)
               B(x, y) == Before(t.rows[x].is, t.rows[y].is, Order(q))
    <2> SUFFICES ASSUME \A x, y \in all : x # y => B(x, y) \/ B(y, x),
                        NEW x \in Shown(r), NEW y \in Shown(s)
                 PROVE  /\ B(x, y)
                        /\ Page(p) = Page(q) + 1 =>
                             \A z \in all \ (Shown(r) \cup Shown(s)) : ~(B(x, z) /\ B(z, y))
      OBVIOUS
    <2>1. /\ q \in Call /\ t.rows \in [Ids -> Row]
          /\ \E l \in Listings(t.rows, q) : data[r] = Slice(l, q)
      BY QuietListing
    <2>2. /\ p \in Call
          /\ \E m \in Listings(t.rows, p) : data[s] = Slice(m, p)
      BY QuietListing
    <2> HIDE DEF t
    <2>3. PICK l \in Listings(t.rows, q) : data[r] = Slice(l, q)
      BY <2>1
    <2>4. PICK m \in Listings(t.rows, p) : data[s] = Slice(m, p)
      BY <2>2
    <2>5. /\ p.of = q.of /\ p.size = q.size /\ p.from = q.from /\ p.to = q.to
          /\ p.text = q.text /\ p.sort = q.sort
      BY <2>1, <2>2 DEF Call
    <2>6. Size(p) = Size(q) /\ ShouldPaginate(p) /\ Order(p) = Order(q)
      BY <2>5 DEF Size, ShouldPaginate, Order
    <2>7. Matching(t.rows, p) = all
      <3>1. \A v : Selects(v, p) <=> Selects(v, q)
        BY <2>5 DEF Selects, InRange
      <3> QED BY <2>5, <3>1 DEF Matching, TableOf
    <2>8. m \in Listings(t.rows, q)
      BY <2>6, <2>7 DEF Listings
    <2> DEFINE a == (Page(q) - 1) * Size(q)
               b == (Page(p) - 1) * Size(p)
    <2>9. PICK i \in 1 .. Len(l) : l[i] = x /\ a < i /\ i <= a + Size(q)
      BY <2>1, <2>3, PageOf DEF Shown
    <2>10. PICK j \in 1 .. Len(m) : m[j] = y /\ b < j /\ j <= b + Size(q)
      BY <2>2, <2>4, <2>6, PageOf DEF Shown
    <2>11. i < j
      <3>1. a \in Nat /\ b \in Nat /\ Size(q) \in Nat /\ a + Size(q) <= b
        BY <2>1, <2>2, <2>6, PageFacts, PagesApart
      <3>2. i \in Int /\ j \in Int
        OBVIOUS
      <3> HIDE DEF a, b
      <3> QED BY <2>9, <2>10, <3>1, <3>2
    <2>12. B(x, y)
      BY <2>1, <2>8, <2>9, <2>10, <2>11, Rank
    <2>13. ASSUME Page(p) = Page(q) + 1, NEW z \in all \ (Shown(r) \cup Shown(s)),
                  B(x, z), B(z, y)
           PROVE  FALSE
      <3>1. /\ \A g \in all : t.rows[g].is \in Value
            /\ x \in all /\ y \in all
        <4>1. x \in all /\ y \in all
          BY <2>1, <2>3, <2>2, <2>4, <2>7, PagedFacts DEF Shown
        <4>2. \A g \in all : t.rows[g].is \in Value
          BY <2>1, MatchingFacts DEF Row
        <4> QED BY <4>1, <4>2
      <3>2. ~B(z, z) /\ ~B(z, x) /\ ~B(y, z) /\ x # z /\ y # z
        BY <2>1, <2>13, <3>1, BeforeAsymmetric
      <3>3. PICK k \in 1 .. Len(l) : l[k] = z
        BY <2>1, <2>3, ListingsFacts
      <3>4. PICK h \in 1 .. Len(m) : m[h] = z
        BY <2>1, <2>8, ListingsFacts
      <3>5. i < k
        <4>1. \A e, f \in 1 .. Len(l) : e < f => ~B(l[f], l[e])
          BY <2>1, <2>3, ListingsFacts
        <4>2. ~(k < i) /\ k # i
          BY <2>9, <2>13, <3>2, <3>3, <4>1
        <4> QED BY <4>2
      <3>6. h < j
        <4>1. \A e, f \in 1 .. Len(m) : e < f => ~B(m[f], m[e])
          BY <2>1, <2>8, ListingsFacts
        <4>2. ~(j < h) /\ j # h
          BY <2>10, <2>13, <3>2, <3>4, <4>1
        <4> QED BY <4>2
      <3>7. ~(a < k /\ k <= a + Size(q))
        BY <2>1, <2>3, <2>13, <3>3, OnPage DEF Shown
      <3>8. ~(b < h /\ h <= b + Size(q))
        BY <2>2, <2>4, <2>6, <2>13, <3>4, OnPage DEF Shown
      <3>9. /\ a \in Nat /\ b \in Nat /\ Size(q) \in Nat /\ b = a + Size(q)
        <4>1. Page(q) \in Nat /\ Size(q) \in Nat /\ a \in Nat /\ b \in Nat
          BY <2>1, <2>2, <2>6, PageFacts
        <4>2. ASSUME NEW e \in Nat, NEW n \in Nat PROVE (e + 1 - 1) * n = (e - 1) * n + n
          BY <4>2
        <4> QED BY <2>6, <2>13, <4>1, <4>2
      <3>10. h < k
        <4>1. i \in Int /\ j \in Int /\ k \in Int /\ h \in Int
          OBVIOUS
        <4> HIDE DEF a, b
        <4> QED BY <2>9, <2>10, <3>5, <3>6, <3>7, <3>8, <3>9, <4>1
      <3>11. B(z, z)
        BY <2>1, <2>3, <2>8, <3>3, <3>4, <3>10, Rank
      <3> QED BY <3>2, <3>11
    <2> QED BY <2>12, <2>13
  <1> QED BY <1>1, Invariance, PTL
=============================================================================
