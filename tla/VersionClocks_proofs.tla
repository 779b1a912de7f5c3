------------------------ MODULE VersionClocks_proofs ------------------------
(***************************************************************************)
(* Proofs about the version clocks, for any nodes, any size of the table   *)
(* and any number of payloads.                                             *)
(***************************************************************************)
EXTENDS VersionClocks, VectorClock_proofs

Rec == [member_id : Node, sequence_number : 0 .. MaxCounter]

\* Every record has a number its originator has given to a payload.
Numbers ==
    \A n \in Node : \A e \in Entries(clock[n]) :
        1 <= e.sequence_number /\ e.sequence_number <= counter[e.member_id]

Inv == /\ clock = [n \in Node |-> clock[n]]
       /\ TypeOK
       /\ TableShape
       /\ Numbers

IsClock(c) == IsTable(c, Rec, MAX_VECTOR_SIZE)

-----------------------------------------------------------------------------
(* Clocks as functions from originators to numbers *)

LEMMA InvClocks ==
    (TypeOK /\ TableShape) <=> /\ \A n \in Node : IsClock(clock[n])
                               /\ counter \in [Node -> 0 .. MaxCounter]
BY DEF TypeOK, TableShape, Clocks, Rec, IsClock, IsTable

\* A record is what the clock counts for its member, ...
LEMMA CountEntry ==
    ASSUME NEW c, IsClock(c), NEW e \in Entries(c)
    PROVE  /\ Count(c, e.member_id) = e.sequence_number
           /\ e.member_id \in Ids(c)
           /\ Has(c, e.member_id)
           /\ e \in Rec
<1>1. PICK i \in DOMAIN c.records : e = c.records[i]
  BY DEF Entries
<1>2. Has(c, e.member_id) /\ FindById(c, e.member_id) = i
  BY <1>1, FoundOnly DEF IsClock
<1>3. c.records \in Seq(Rec)
  BY DEF IsClock, IsTable
<1> QED
  BY <1>1, <1>2, <1>3 DEF Count, Ids

\* ... and nothing else is counted.
LEMMA CountId ==
    ASSUME NEW c, IsClock(c), NEW id
    PROVE  /\ id \in Ids(c) <=> \E e \in Entries(c) : e.member_id = id
           /\ id \in Ids(c) <=> Has(c, id)
           /\ id \in Ids(c) <=> FindById(c, id) # 0
           /\ id \notin Ids(c) => Count(c, id) = 0
           /\ Count(c, id) \in 0 .. MaxCounter
<1>1. c.records \in Seq(Rec)
  BY DEF IsClock, IsTable
<1>2. id \in Ids(c) <=> \E e \in Entries(c) : e.member_id = id
  BY DEF Ids, Entries
<1>3. id \in Ids(c) <=> Has(c, id)
  BY DEF Ids, Has
<1>4. id \in Ids(c) <=> FindById(c, id) # 0
  BY <1>1, <1>3, Found
<1>5. id \notin Ids(c) => Count(c, id) = 0
  BY <1>3 DEF Count
<1>6. ASSUME NEW e \in Entries(c), e.member_id = id
      PROVE  Count(c, id) \in 0 .. MaxCounter
  BY <1>6, CountEntry DEF Rec
<1> QED
  BY <1>2, <1>3, <1>4, <1>5, <1>6, MaxCounterAssumption

\* What may happen to the numbers of a clock that learns: no number falls, or its
\* record has made room for a newcomer.
Learned(c, d) ==
    \A id \in Node :
        \/ Count(d, id) >= Count(c, id)
        \/ /\ id \notin Ids(d)
           /\ Len(d.records) = MAX_VECTOR_SIZE
           /\ Ids(d) \ Ids(c) # {}

LEMMA SetLearns ==
    ASSUME NEW c, IsClock(c), NEW r \in Rec, r.sequence_number >= Count(c, r.member_id),
           NEW d, d = SetRecord(c, r, MAX_VECTOR_SIZE)
    PROVE  IsClock(d) /\ Learned(c, d)
<1>1. IsClock(d) /\ Len(c.records) <= Len(d.records)
  BY SetKeepsTable, VectorSizeIsPositive DEF IsClock
<1>2. /\ r \in Entries(d)
      /\ \A e \in Entries(c) :
            \/ e \in Entries(d)
            \/ e.member_id = r.member_id
            \/ /\ ~Has(c, r.member_id) /\ Len(c.records) = MAX_VECTOR_SIZE
               /\ \A f \in Entries(d) : f.member_id # e.member_id
  BY SetAddsOnly, VectorSizeIsPositive DEF IsClock
<1>3. ASSUME NEW id \in Node
      PROVE  \/ Count(d, id) >= Count(c, id)
             \/ /\ id \notin Ids(d)
                /\ Len(d.records) = MAX_VECTOR_SIZE
                /\ Ids(d) \ Ids(c) # {}
  <2>1. Count(c, id) \in 0 .. MaxCounter /\ Count(d, id) \in 0 .. MaxCounter
    BY <1>1, CountId
  <2>2. CASE id \notin Ids(c)
    BY <2>1, <2>2, CountId
  <2>3. CASE id = r.member_id
    BY <1>1, <1>2, <2>3, CountEntry
  <2>4. CASE id \in Ids(c) /\ id # r.member_id
    <3>1. PICK e \in Entries(c) : e.member_id = id
      BY <2>4, CountId
    <3>2. Count(c, id) = e.sequence_number
      BY <3>1, CountEntry
    <3>3. CASE e \in Entries(d)
      BY <1>1, <2>1, <3>1, <3>2, <3>3, CountEntry
    <3>4. CASE /\ ~Has(c, r.member_id) /\ Len(c.records) = MAX_VECTOR_SIZE
               /\ \A f \in Entries(d) : f.member_id # e.member_id
      <4>1. id \notin Ids(d)
        BY <1>1, <3>1, <3>4, CountId
      <4>2. r.member_id \in Ids(d) \ Ids(c)
        BY <1>1, <1>2, <3>4, CountId, CountEntry
      <4>3. Len(d.records) = MAX_VECTOR_SIZE
        <5>1. Len(d.records) <= MAX_VECTOR_SIZE /\ Len(d.records) \in Nat
          BY <1>1 DEF IsClock, IsTable
        <5> QED
          BY <1>1, <3>4, <5>1, VectorSizeIsPositive
      <4> QED
        BY <4>1, <4>2, <4>3
    <3> QED
      BY <1>2, <2>4, <3>1, <3>3, <3>4
  <2> QED
    BY <2>2, <2>3, <2>4
<1> QED
  BY <1>1, <1>3 DEF Learned

-----------------------------------------------------------------------------
(* Comparing clocks *)

\* The loop of vector_clock_compare over the records of x.first.
CompareStep(x, res, r) ==
    LET i == FindById(x.second, r.member_id)
    IN  IF i = 0 THEN resolve_comp_result(res, "AFTER")
        ELSE LET n == x.second.records[i].sequence_number
             IN  IF r.sequence_number > n
                 THEN resolve_comp_result(res, "AFTER")
                 ELSE IF r.sequence_number < n
                 THEN resolve_comp_result(res, "BEFORE")
                 ELSE res

Answer(less, more) ==
    IF less THEN IF more THEN "CONFLICT" ELSE "BEFORE"
    ELSE IF more THEN "AFTER" ELSE "EQUAL"

\* After k records, the result is the order of the clocks on their members.
LessUpTo(x, k) == \E i \in 1 .. k :
    x.first.records[i].sequence_number < Count(x.second, x.first.records[i].member_id)

MoreUpTo(x, k) == \E i \in 1 .. k :
    x.first.records[i].sequence_number > Count(x.second, x.first.records[i].member_id)

Compared(x, k, res) == res = Answer(LessUpTo(x, k), MoreUpTo(x, k))

CompareLoop == INSTANCE FoldInduction WITH op <- CompareStep, Good <- Compared

\* Every record of the clock carries a number of at least 1, as a version does.
Positive(c) == \A e \in Entries(c) : e.sequence_number >= 1

LEMMA AnswerStep ==
    ASSUME NEW l \in BOOLEAN, NEW m \in BOOLEAN
    PROVE  /\ resolve_comp_result(Answer(l, m), "AFTER") = Answer(l, TRUE)
           /\ resolve_comp_result(Answer(l, m), "BEFORE") = Answer(TRUE, m)
BY DEF Answer, resolve_comp_result

LEMMA CompareCommon ==
    ASSUME NEW a, NEW b, IsClock(a), IsClock(b), Positive(a),
           NEW x, x = [first |-> a, second |-> b]
    PROVE  CompareLoop!Loop(x, "EQUAL", a.records)
             = Answer(LessUpTo(x, Len(a.records)), MoreUpTo(x, Len(a.records)))
<1> DEFINE n == Len(a.records)
<1>1. /\ a.records \in Seq(Rec) /\ n \in Nat /\ DOMAIN a.records = 1 .. n
      /\ x.first = a /\ x.second = b
  BY DEF IsClock, IsTable
<1>2. Compared(x, 0, "EQUAL")
  BY DEF Compared, LessUpTo, MoreUpTo, Answer
<1>3. ASSUME NEW k \in 0 .. n - 1, NEW res, Compared(x, k, res)
      PROVE  Compared(x, k + 1, CompareStep(x, res, a.records[k + 1]))
  <2> DEFINE r == a.records[k + 1]
             N == Count(b, r.member_id)
  <2>1. k \in Nat /\ k + 1 \in 1 .. n /\ r \in Rec /\ r \in Entries(a)
    BY <1>1 DEF Entries
  <2>2. r.sequence_number \in Nat /\ r.sequence_number >= 1 /\ N \in Nat
    BY <2>1, CountId, MaxCounterAssumption DEF Rec, Positive
  <2>3. /\ LessUpTo(x, k + 1) <=> (LessUpTo(x, k) \/ r.sequence_number < N)
        /\ MoreUpTo(x, k + 1) <=> (MoreUpTo(x, k) \/ r.sequence_number > N)
    <3>1. \A i : i \in 1 .. k + 1 <=> i \in 1 .. k \/ i = k + 1
      BY <2>1
    <3> QED
      BY <1>1, <3>1 DEF LessUpTo, MoreUpTo
  <2>4. LessUpTo(x, k) \in BOOLEAN /\ MoreUpTo(x, k) \in BOOLEAN
    BY DEF LessUpTo, MoreUpTo
  <2>5. FindById(b, r.member_id) = 0 => N = 0
    BY CountId
  <2>6. FindById(b, r.member_id) # 0 =>
            N = b.records[FindById(b, r.member_id)].sequence_number
    BY CountId DEF Count
  <2> DEFINE i == FindById(b, r.member_id)
             m == b.records[i].sequence_number
  <2>7. CompareStep(x, res, r) =
            IF i = 0 THEN resolve_comp_result(res, "AFTER")
            ELSE IF r.sequence_number > m THEN resolve_comp_result(res, "AFTER")
            ELSE IF r.sequence_number < m THEN resolve_comp_result(res, "BEFORE")
            ELSE res
    BY <1>1 DEF CompareStep
  <2> HIDE DEF r, N, i
  <2>8. CompareStep(x, res, r) =
            IF r.sequence_number > N THEN resolve_comp_result(res, "AFTER")
            ELSE IF r.sequence_number < N THEN resolve_comp_result(res, "BEFORE")
            ELSE res
    BY <2>2, <2>5, <2>6, <2>7 DEF i
  <2>9. CASE r.sequence_number > N
    <3>1. ~(r.sequence_number < N)
      BY <2>2, <2>9
    <3>2. LessUpTo(x, k + 1) = LessUpTo(x, k) /\ MoreUpTo(x, k + 1) = TRUE
      BY <2>3, <2>9, <3>1 DEF LessUpTo, MoreUpTo
    <3> QED
      BY <1>3, <2>4, <2>8, <2>9, <3>2, AnswerStep DEF Compared, r
  <2>10. CASE r.sequence_number < N
    <3>1. ~(r.sequence_number > N)
      BY <2>2, <2>10
    <3>2. LessUpTo(x, k + 1) = TRUE /\ MoreUpTo(x, k + 1) = MoreUpTo(x, k)
      BY <2>3, <2>10, <3>1 DEF LessUpTo, MoreUpTo
    <3> QED
      BY <1>3, <2>4, <2>8, <2>10, <3>1, <3>2, AnswerStep DEF Compared, r
  <2>11. CASE ~(r.sequence_number > N) /\ ~(r.sequence_number < N)
    <3>1. /\ LessUpTo(x, k + 1) = LessUpTo(x, k)
          /\ MoreUpTo(x, k + 1) = MoreUpTo(x, k)
      BY <2>3, <2>11 DEF LessUpTo, MoreUpTo
    <3> QED
      BY <1>3, <2>8, <2>11, <3>1 DEF Compared, r
  <2> QED
    BY <2>9, <2>10, <2>11
<1> HIDE DEF n
<1>4. Compared(x, n, CompareLoop!Loop(x, "EQUAL", a.records))
  BY <1>1, <1>2, <1>3, CompareLoop!LoopInvariant
<1> QED
  BY <1>4 DEF Compared, n

\* vector_clock_compare decides the pointwise order.
LEMMA ComparePointwise ==
    ASSUME NEW a, NEW b, IsClock(a), IsClock(b), Positive(a), Positive(b)
    PROVE  vector_clock_compare(a, b) = Order(a, b)
<1> DEFINE x      == [first |-> a, second |-> b]
           common == CompareLoop!Loop(x, "EQUAL", a.records)
           less   == LessUpTo(x, Len(a.records))
           more   == MoreUpTo(x, Len(a.records))
           rest   == \E i \in DOMAIN b.records : IsMissing(a, b.records[i])
<1>1. vector_clock_compare(a, b) =
          IF rest THEN resolve_comp_result(common, "BEFORE") ELSE common
  BY DEF vector_clock_compare, CompareLoop!Loop, CompareLoop!Last, FoldLeft, MapThenFoldSet,
         Max, CompareStep
<1>2. common = Answer(less, more)
  BY CompareCommon
<1>3. less \in BOOLEAN /\ more \in BOOLEAN /\ rest \in BOOLEAN
  BY DEF LessUpTo, MoreUpTo
<1> HIDE DEF common
<1>4. vector_clock_compare(a, b) = Answer(less \/ rest, more)
  <2>1. CASE rest
    <3>1. (less \/ rest) = TRUE
      BY <2>1
    <3> HIDE DEF less, more, rest
    <3> QED
      BY <1>1, <1>2, <1>3, <2>1, <3>1, AnswerStep
  <2>2. CASE ~rest
    <3>1. (less \/ rest) = less
      BY <1>3, <2>2
    <3> HIDE DEF less, more, rest
    <3> QED
      BY <1>1, <1>2, <2>2, <3>1
  <2> QED
    BY <2>1, <2>2
<1>5. /\ a.records \in Seq(Rec) /\ b.records \in Seq(Rec)
      /\ DOMAIN a.records = 1 .. Len(a.records)
  BY DEF IsClock, IsTable
<1>6. \A id \in Node : Count(a, id) \in Nat /\ Count(b, id) \in Nat
  BY CountId, MaxCounterAssumption
<1>7. (less \/ rest) <=> \E id \in Node : Count(a, id) < Count(b, id)
  <2>1. ASSUME less PROVE \E id \in Node : Count(a, id) < Count(b, id)
    <3>1. PICK i \in DOMAIN a.records :
              a.records[i].sequence_number < Count(b, a.records[i].member_id)
      BY <1>5, <2>1 DEF LessUpTo
    <3>2. a.records[i] \in Entries(a)
      BY DEF Entries
    <3> QED
      BY <3>1, <3>2, CountEntry DEF Rec
  <2>2. ASSUME rest PROVE \E id \in Node : Count(a, id) < Count(b, id)
    <3>1. PICK i \in DOMAIN b.records : IsMissing(a, b.records[i])
      BY <2>2
    <3> DEFINE e == b.records[i]
    <3>2. e \in Entries(b)
      BY DEF Entries
    <3>3. e \in Rec /\ Count(b, e.member_id) = e.sequence_number
      BY <3>2, CountEntry
    <3>4. Count(a, e.member_id) = 0
      BY <3>1, CountId DEF IsMissing
    <3>5. e.sequence_number >= 1
      BY <3>2 DEF Positive
    <3> HIDE DEF e
    <3> QED
      BY <3>3, <3>4, <3>5 DEF Rec
  <2>3. ASSUME NEW id \in Node, Count(a, id) < Count(b, id), ~rest
        PROVE  less
    <3>1. Count(b, id) # 0
      BY <1>6, <2>3
    <3>2. id \in Ids(b)
      BY <3>1, CountId
    <3>3. PICK e \in Entries(b) : e.member_id = id
      BY <3>2, CountId
    <3>4. PICK j \in DOMAIN b.records : e = b.records[j]
      BY DEF Entries
    <3>5. FindById(a, id) # 0
      BY <2>3, <3>3, <3>4 DEF IsMissing
    <3>6. PICK f \in Entries(a) : f.member_id = id
      BY <3>5, CountId
    <3>7. PICK i \in DOMAIN a.records : f = a.records[i]
      BY DEF Entries
    <3>8. Count(a, id) = a.records[i].sequence_number /\ a.records[i].member_id = id
      BY <3>6, <3>7, CountEntry
    <3> QED
      BY <1>5, <2>3, <3>8 DEF LessUpTo
  <2> QED
    BY <2>1, <2>2, <2>3
<1>8. more <=> \E id \in Node : Count(a, id) > Count(b, id)
  <2>1. ASSUME more PROVE \E id \in Node : Count(a, id) > Count(b, id)
    <3>1. PICK i \in DOMAIN a.records :
              a.records[i].sequence_number > Count(b, a.records[i].member_id)
      BY <1>5, <2>1 DEF MoreUpTo
    <3>2. a.records[i] \in Entries(a)
      BY DEF Entries
    <3> QED
      BY <3>1, <3>2, CountEntry DEF Rec
  <2>2. ASSUME NEW id \in Node, Count(a, id) > Count(b, id)
        PROVE  more
    <3>1. Count(a, id) # 0
      BY <1>6, <2>2
    <3>2. PICK f \in Entries(a) : f.member_id = id
      BY <3>1, CountId
    <3>3. PICK i \in DOMAIN a.records : f = a.records[i]
      BY DEF Entries
    <3>4. Count(a, id) = a.records[i].sequence_number /\ a.records[i].member_id = id
      BY <3>2, <3>3, CountEntry
    <3> QED
      BY <1>5, <2>2, <3>4 DEF MoreUpTo
  <2> QED
    BY <2>1, <2>2
<1> HIDE DEF less, more, rest
<1>9. Order(a, b) = Answer(less \/ rest, more)
  BY <1>3, <1>7, <1>8 DEF Order, Answer
<1> QED
  BY <1>4, <1>9

-----------------------------------------------------------------------------
(* Merging clocks *)

\* The first loop of a merge: the common records take the larger number.
RaisedRecord(second, r) ==
    LET i == FindById(second, r.member_id)
    IN  IF i # 0 /\ second.records[i].sequence_number > r.sequence_number
        THEN second.records[i] ELSE r

RaisedBy(first, second) ==
    [first EXCEPT !.records =
        [j \in DOMAIN first.records |-> RaisedRecord(second, first.records[j])]]

\* The second one: the records that first does not have are set.
MergeStep(x, c, r) ==
    IF IsMissing(x.first, r)
    THEN vector_clock_set(c, r.member_id, r.sequence_number) ELSE c

\* After k records of the second clock: nothing is there that is not in one of
\* the two, what is gone was overwritten by a newcomer, and if there is room for
\* every originator nothing is gone.
Merged(x, k, c) ==
    /\ IsClock(c)
    /\ \A e \in Entries(c) :
          \/ e \in Entries(x.raised)
          \/ e \in Entries(x.second) /\ IsMissing(x.first, e)
    /\ \A e \in Entries(x.raised) :
          \/ e \in Entries(c)
          \/ /\ e.member_id \notin Ids(c)
             /\ Len(c.records) = MAX_VECTOR_SIZE
             /\ Ids(c) \ Ids(x.first) # {}
    /\ Cardinality(Ids(x.first) \cup Ids(x.second)) <= MAX_VECTOR_SIZE =>
          /\ Entries(x.raised) \subseteq Entries(c)
          /\ \A j \in 1 .. k : IsMissing(x.first, x.second.records[j]) =>
                                 x.second.records[j] \in Entries(c)

MergeLoop == INSTANCE FoldInduction WITH op <- MergeStep, Good <- Merged

LEMMA MergeIsLoop ==
    ASSUME NEW a, NEW b, NEW x, x = [first |-> a, second |-> b, raised |-> RaisedBy(a, b)]
    PROVE  Merge(a, b) = MergeLoop!Loop(x, RaisedBy(a, b), b.records)
<1>1. x.first = a
  OBVIOUS
<1> DEFINE raised == RaisedBy(a, b)
<1>2. raised = [a EXCEPT !.records = [j \in DOMAIN a.records |->
                    RaisedRecord(b, a.records[j])]]
  BY DEF RaisedBy
<1>3. Merge(a, b) = FoldLeft(LAMBDA c, r : IF IsMissing(a, r)
                               THEN vector_clock_set(c, r.member_id, r.sequence_number)
                               ELSE c, raised, b.records)
  BY DEF Merge, RaisedBy, RaisedRecord, FoldLeft, MapThenFoldSet, Max
<1> HIDE DEF raised
<1>4. MergeLoop!Loop(x, raised, b.records) =
        FoldLeft(LAMBDA c, r : IF IsMissing(a, r)
                               THEN vector_clock_set(c, r.member_id, r.sequence_number)
                               ELSE c, raised, b.records)
  BY <1>1 DEF MergeLoop!Loop, MergeLoop!Last, FoldLeft, MapThenFoldSet, Max, MergeStep
<1> QED
  BY <1>3, <1>4 DEF raised

\* The first loop leaves every record where it is.
LEMMA RaisedKeeps ==
    ASSUME NEW a, NEW b, IsClock(a), IsClock(b), NEW u, u = RaisedBy(a, b)
    PROVE  /\ IsClock(u)
           /\ Ids(u) = Ids(a)
           /\ \A e \in Entries(u) : e \in Entries(a) \/ e \in Entries(b)
           /\ \A id \in Ids(a) : /\ Count(u, id) >= Count(a, id)
                                 /\ Count(u, id) >= Count(b, id)
<1>1. /\ a.records \in Seq(Rec) /\ b.records \in Seq(Rec)
      /\ DOMAIN a.records = 1 .. Len(a.records) /\ Len(a.records) \in Nat
      /\ a \in [records : Seq(Rec), current_idx : 0 .. MAX_VECTOR_SIZE - 1]
  BY DEF IsClock, IsTable
<1> DEFINE R(r) == RaisedRecord(b, r)
<1>2. ASSUME NEW e \in Entries(a)
      PROVE  /\ R(e) \in Rec /\ R(e).member_id = e.member_id
             /\ R(e) \in Entries(a) \/ R(e) \in Entries(b)
             /\ R(e).sequence_number >= e.sequence_number
             /\ R(e).sequence_number >= Count(b, e.member_id)
  <2> DEFINE i == FindById(b, e.member_id)
  <2>1. e \in Rec
    BY CountEntry
  <2>2. CASE i = 0
    <3>1. R(e) = e
      BY <2>2 DEF RaisedRecord
    <3>2. Count(b, e.member_id) = 0
      BY <2>2, CountId
    <3> QED
      BY <2>1, <3>1, <3>2 DEF Rec
  <2>3. CASE i # 0
    <3>1. /\ Has(b, e.member_id)
          /\ i \in DOMAIN b.records
          /\ b.records[i].member_id = e.member_id
      BY <1>1, <2>3, Found
    <3>2. b.records[i] \in Entries(b)
      BY <3>1 DEF Entries
    <3>3. /\ b.records[i] \in Rec
          /\ Count(b, e.member_id) = b.records[i].sequence_number
      BY <3>1, <3>2, CountEntry
    <3>4. R(e) = IF b.records[i].sequence_number > e.sequence_number
                 THEN b.records[i] ELSE e
      BY <2>3 DEF RaisedRecord
    <3> HIDE DEF R, i
    <3> QED
      BY <2>1, <3>1, <3>2, <3>3, <3>4 DEF Rec
  <2> QED
    BY <2>2, <2>3
<1>3. u = [records |-> [j \in DOMAIN a.records |-> R(a.records[j])],
           current_idx |-> a.current_idx]
  BY <1>1 DEF RaisedBy
<1>4. /\ u.records = [j \in DOMAIN a.records |-> R(a.records[j])]
      /\ u.current_idx = a.current_idx
      /\ u = [records |-> u.records, current_idx |-> u.current_idx]
  BY <1>3
<1>5. \A j \in DOMAIN a.records : a.records[j] \in Entries(a)
  BY DEF Entries
<1> HIDE DEF R
<1>6. \A j \in DOMAIN a.records :
          u.records[j] = R(a.records[j]) /\ u.records[j] \in Rec
          /\ u.records[j].member_id = a.records[j].member_id
  BY <1>2, <1>4, <1>5
<1>7. /\ u.records \in Seq(Rec) /\ Len(u.records) = Len(a.records)
      /\ DOMAIN u.records = DOMAIN a.records
  BY <1>1, <1>4, <1>6
<1>8. IsClock(u)
  <2>1. u \in [records : Seq(Rec), current_idx : 0 .. MAX_VECTOR_SIZE - 1]
    BY <1>1, <1>4, <1>7
  <2> QED
    BY <1>4, <1>6, <1>7, <2>1 DEF IsClock, IsTable
<1>9. Ids(u) = Ids(a)
  BY <1>6, <1>7 DEF Ids
<1>10. \A e \in Entries(u) : e \in Entries(a) \/ e \in Entries(b)
  BY <1>2, <1>5, <1>6, <1>7 DEF Entries
<1>11. ASSUME NEW id \in Ids(a)
       PROVE  Count(u, id) >= Count(a, id) /\ Count(u, id) >= Count(b, id)
  <2>1. PICK j \in DOMAIN a.records : a.records[j].member_id = id
    BY DEF Ids
  <2>2. Count(a, id) = a.records[j].sequence_number
    BY <1>5, <2>1, CountEntry
  <2>3. u.records[j] \in Entries(u) /\ u.records[j].member_id = id
    BY <1>6, <1>7, <2>1 DEF Entries
  <2>4. Count(u, id) = R(a.records[j]).sequence_number
    BY <1>6, <1>8, <2>3, CountEntry
  <2> QED
    BY <1>2, <1>5, <2>1, <2>2, <2>4
<1> QED
  BY <1>8, <1>9, <1>10, <1>11

LEMMA IdsFinite ==
    ASSUME NEW c, IsClock(c)
    PROVE  IsFiniteSet(Ids(c))
<1> DEFINE f == [i \in 1 .. Len(c.records) |-> c.records[i].member_id]
<1>1. DOMAIN c.records = 1 .. Len(c.records) /\ Len(c.records) \in Nat
  BY DEF IsClock, IsTable
<1>2. f \in Surjection(1 .. Len(c.records), Ids(c))
  BY <1>1 DEF Surjection, Ids
<1>3. IsFiniteSet(1 .. Len(c.records))
  <2>1. \A k \in Nat : IsFiniteSet(1 .. k)
    BY FS_Interval
  <2> QED
    BY <1>1, <2>1
<1> HIDE DEF f
<1> QED
  BY <1>2, <1>3, FS_Surjection

LEMMA MergeKeeps ==
    ASSUME NEW a, NEW b, IsClock(a), IsClock(b),
           NEW x, x = [first |-> a, second |-> b, raised |-> RaisedBy(a, b)]
    PROVE  Merged(x, Len(b.records), Merge(a, b))
<1> DEFINE n == Len(b.records)
           u == RaisedBy(a, b)
<1>1. /\ b.records \in Seq(Rec) /\ n \in Nat /\ DOMAIN b.records = 1 .. n
      /\ x.first = a /\ x.second = b /\ x.raised = u
  BY DEF IsClock, IsTable
<1>2. IsClock(u) /\ Ids(u) = Ids(a)
  BY RaisedKeeps
<1>3. Merged(x, 0, u)
  BY <1>1, <1>2 DEF Merged
<1>4. ASSUME NEW k \in 0 .. n - 1, NEW c, Merged(x, k, c)
      PROVE  Merged(x, k + 1, MergeStep(x, c, b.records[k + 1]))
  <2> DEFINE r == b.records[k + 1]
             d == MergeStep(x, c, r)
             Room == Cardinality(Ids(a) \cup Ids(b)) <= MAX_VECTOR_SIZE
  <2>1. /\ k \in Nat /\ k + 1 \in DOMAIN b.records
        /\ r \in Entries(b) /\ r \in Rec
        /\ \A j \in 1 .. k + 1 : j \in 1 .. k \/ j = k + 1
    BY <1>1 DEF Entries
  <2>2. /\ IsClock(c)
        /\ \A e \in Entries(c) : \/ e \in Entries(u)
                                 \/ e \in Entries(b) /\ IsMissing(a, e)
        /\ \A e \in Entries(u) :
              \/ e \in Entries(c)
              \/ /\ e.member_id \notin Ids(c)
                 /\ Len(c.records) = MAX_VECTOR_SIZE
                 /\ Ids(c) \ Ids(a) # {}
        /\ Room =>
              /\ Entries(u) \subseteq Entries(c)
              /\ \A j \in 1 .. k : IsMissing(a, b.records[j]) =>
                                     b.records[j] \in Entries(c)
    BY <1>1, <1>4 DEF Merged
  <2>3. CASE ~IsMissing(a, r)
    <3>1. d = c
      BY <1>1, <2>3 DEF MergeStep
    <3> HIDE DEF d, u, r
    <3> QED
      BY <1>1, <2>1, <2>2, <2>3, <3>1 DEF Merged, d, r
  <2>4. CASE IsMissing(a, r)
    <3>1. d = SetRecord(c, r, MAX_VECTOR_SIZE)
      BY <1>1, <2>1, <2>4 DEF MergeStep, vector_clock_set, Record, Rec
    <3> HIDE DEF d
    <3>2. /\ IsClock(d) /\ Len(c.records) <= Len(d.records)
      BY <2>1, <2>2, <3>1, SetKeepsTable, VectorSizeIsPositive DEF IsClock
    <3>3. /\ r \in Entries(d)
          /\ \A e \in Entries(d) : e = r \/ e \in Entries(c)
          /\ \A e \in Entries(c) :
                \/ e \in Entries(d)
                \/ e.member_id = r.member_id
                \/ /\ ~Has(c, r.member_id) /\ Len(c.records) = MAX_VECTOR_SIZE
                   /\ \A f \in Entries(d) : f.member_id # e.member_id
      BY <2>1, <2>2, <3>1, SetAddsOnly, VectorSizeIsPositive DEF IsClock
    <3>4. r.member_id \notin Ids(a)
      BY <2>4, CountId DEF IsMissing
    <3>5. \A e \in Entries(u) : e.member_id \in Ids(a)
      BY <1>2, CountEntry
    <3>6. r.member_id \in Ids(d) \ Ids(a)
      BY <3>2, <3>3, <3>4, CountEntry
    <3>7. Len(c.records) = MAX_VECTOR_SIZE => Len(d.records) = MAX_VECTOR_SIZE
      <4>1. Len(d.records) <= MAX_VECTOR_SIZE /\ Len(d.records) \in Nat
        BY <3>2 DEF IsClock, IsTable
      <4> QED
        BY <3>2, <4>1, VectorSizeIsPositive
    <3>8. \A e \in Entries(d) : \/ e \in Entries(u)
                                \/ e \in Entries(b) /\ IsMissing(a, e)
      BY <2>1, <2>2, <2>4, <3>3
    <3> HIDE DEF u, r
    <3>9. ASSUME NEW e \in Entries(u)
          PROVE  \/ e \in Entries(d)
                 \/ /\ e.member_id \notin Ids(d)
                    /\ Len(d.records) = MAX_VECTOR_SIZE
                    /\ Ids(d) \ Ids(a) # {}
      <4>1. e.member_id # r.member_id
        BY <3>4, <3>5
      <4>2. CASE e \in Entries(c)
        <5>1. CASE e \in Entries(d)
          BY <5>1
        <5>2. CASE /\ ~Has(c, r.member_id) /\ Len(c.records) = MAX_VECTOR_SIZE
                   /\ \A f \in Entries(d) : f.member_id # e.member_id
          <6>1. e.member_id \notin Ids(d)
            BY <3>2, <5>2, CountId
          <6> QED
            BY <3>6, <3>7, <5>2, <6>1
        <5> QED
          BY <3>3, <4>1, <4>2, <5>1, <5>2
      <4>3. CASE e \notin Entries(c)
        <5>1. e.member_id \notin Ids(c) /\ Len(c.records) = MAX_VECTOR_SIZE
          BY <2>2, <4>3
        <5>2. \A f \in Entries(d) : f.member_id # e.member_id
          BY <2>2, <3>3, <4>1, <5>1, CountId
        <5>3. e.member_id \notin Ids(d)
          BY <3>2, <5>2, CountId
        <5> QED
          BY <3>6, <3>7, <5>1, <5>3
      <4> QED
        BY <4>2, <4>3
    <3>10. ASSUME Room
           PROVE  /\ Entries(u) \subseteq Entries(d)
                  /\ \A j \in 1 .. k + 1 : IsMissing(a, b.records[j]) =>
                                            b.records[j] \in Entries(d)
      <4> DEFINE S == Ids(a) \cup Ids(b)
      <4>1. IsFiniteSet(S) /\ Cardinality(S) <= MAX_VECTOR_SIZE
        BY <3>10, IdsFinite, FS_Union
      <4>2. \A e \in Entries(c) : e.member_id \in S
        BY <1>2, <2>2, <3>5, CountEntry
      <4>3. r.member_id \in S
        BY <2>1, CountEntry
      <4>4. HasRoom(c, r.member_id, MAX_VECTOR_SIZE)
        <5> HIDE DEF S
        <5> QED
          BY <2>2, <4>1, <4>2, <4>3, RoomForAll, VectorSizeIsPositive DEF IsClock
      <4>5. Entries(d) = {e \in Entries(c) : e.member_id # r.member_id} \cup {r}
        BY <2>1, <2>2, <3>1, <4>4, SetWithRoom, VectorSizeIsPositive DEF IsClock
      <4>6. Entries(u) \subseteq Entries(d)
        BY <2>2, <3>4, <3>5, <3>10, <4>5
      <4>7. ASSUME NEW j \in 1 .. k + 1, IsMissing(a, b.records[j])
            PROVE  b.records[j] \in Entries(d)
        <5>1. CASE j = k + 1
          BY <3>3, <5>1 DEF r
        <5>2. CASE j \in 1 .. k
          <6>1. b.records[j] \in Entries(c)
            BY <2>2, <3>10, <4>7, <5>2
          <6>2. j # k + 1 /\ j \in DOMAIN b.records
            BY <1>1, <2>1, <5>2
          <6>3. b.records[j].member_id # r.member_id
            BY <2>1, <6>2 DEF IsClock, IsTable, r
          <6> QED
            BY <4>5, <6>1, <6>3
        <5> QED
          BY <2>1, <5>1, <5>2
      <4> QED
        BY <4>6, <4>7
    <3> QED
      BY <1>1, <3>2, <3>8, <3>9, <3>10 DEF Merged, d, r
  <2> QED
    BY <2>3, <2>4
<1>5. Merge(a, b) = MergeLoop!Loop(x, u, b.records)
  BY MergeIsLoop
<1> HIDE DEF n, u
<1>6. Merged(x, n, MergeLoop!Loop(x, u, b.records))
  BY <1>1, <1>3, <1>4, MergeLoop!LoopInvariant
<1> QED
  BY <1>5, <1>6 DEF n

-----------------------------------------------------------------------------
(* The specification *)

LearnsStep ==
    \A n, id \in Node :
        /\ Count(clock'[n], id) <= counter'[id]
        /\ \/ Count(clock'[n], id) >= Count(clock[n], id)
           \/ /\ id \notin Ids(clock'[n])
              /\ Len(clock'[n].records) = MAX_VECTOR_SIZE
              /\ Ids(clock'[n]) \ Ids(clock[n]) # {}

\* In the initial state the clocks are empty.
LEMMA InvInit == Init => Inv
<1> SUFFICES ASSUME Init PROVE Inv
  OBVIOUS
<1>1. \A n \in Node : clock[n] = Table
  BY DEF Init
<1>2. IsTable(Table, Rec, MAX_VECTOR_SIZE) /\ Entries(Table) = {}
  BY EmptyTable, VectorSizeIsPositive
<1>3. TypeOK /\ TableShape
  BY <1>1, <1>2, InvClocks, MaxCounterAssumption DEF Init, IsClock
<1>4. Numbers
  BY <1>1, <1>2 DEF Numbers
<1> QED
  BY <1>3, <1>4 DEF Inv, Init

\* A step changes the clock of one node.  If that is a clock again, has only
\* numbers that were given, and has learned, the step keeps the invariant.
LEMMA OneClockChanges ==
    ASSUME Inv, NEW n \in Node, NEW d, clock' = [clock EXCEPT ![n] = d],
           IsClock(d), Learned(clock[n], d),
           counter' \in [Node -> 0 .. MaxCounter],
           \A id \in Node : counter[id] <= counter'[id],
           \A e \in Entries(d) : /\ 1 <= e.sequence_number
                                 /\ e.sequence_number <= counter'[e.member_id]
    PROVE  Inv' /\ LearnsStep
<1>1. /\ \A m \in Node : IsClock(clock[m])
      /\ counter \in [Node -> 0 .. MaxCounter]
  BY InvClocks DEF Inv
<1>2. /\ clock'[n] = d
      /\ \A m \in Node \ {n} : clock'[m] = clock[m]
      /\ clock' = [m \in Node |-> clock'[m]]
  BY DEF Inv
<1>3. \A m \in Node : IsClock(clock'[m])
  BY <1>1, <1>2
<1>4. ASSUME NEW m \in Node, NEW e \in Entries(clock'[m])
      PROVE  1 <= e.sequence_number /\ e.sequence_number <= counter'[e.member_id]
  <2>1. CASE m = n
    BY <1>2, <2>1
  <2>2. CASE m # n
    <3>1. e \in Entries(clock[m])
      BY <1>2, <2>2
    <3>2. e \in Rec
      BY <1>1, <3>1, CountEntry
    <3>3. 1 <= e.sequence_number /\ e.sequence_number <= counter[e.member_id]
      BY <3>1 DEF Inv, Numbers
    <3>4. /\ counter[e.member_id] <= counter'[e.member_id]
          /\ counter[e.member_id] \in Nat /\ counter'[e.member_id] \in Nat
          /\ e.sequence_number \in Nat
      BY <1>1, <3>2, MaxCounterAssumption DEF Rec
    <3> QED
      BY <3>3, <3>4
  <2> QED
    BY <2>1, <2>2
<1>5. Inv'
  <2>1. TypeOK' /\ TableShape'
    BY <1>3 DEF TypeOK, TableShape, Clocks, Rec, IsClock, IsTable
  <2>2. Numbers'
    BY <1>4 DEF Numbers
  <2> QED
    BY <1>2, <2>1, <2>2 DEF Inv
<1>6. ASSUME NEW m \in Node, NEW id \in Node
      PROVE  /\ Count(clock'[m], id) <= counter'[id]
             /\ \/ Count(clock'[m], id) >= Count(clock[m], id)
                \/ /\ id \notin Ids(clock'[m])
                   /\ Len(clock'[m].records) = MAX_VECTOR_SIZE
                   /\ Ids(clock'[m]) \ Ids(clock[m]) # {}
  <2>1. Count(clock'[m], id) <= counter'[id]
    <3>1. CASE id \notin Ids(clock'[m])
      BY <1>3, <3>1, CountId
    <3>2. CASE id \in Ids(clock'[m])
      <4>1. PICK e \in Entries(clock'[m]) : e.member_id = id
        BY <1>3, <3>2, CountId
      <4>2. Count(clock'[m], id) = e.sequence_number
        BY <1>3, <4>1, CountEntry
      <4> QED
        BY <1>4, <4>1, <4>2
    <3> QED
      BY <3>1, <3>2
  <2>2. CASE m = n
    BY <1>2, <2>1, <2>2 DEF Learned
  <2>3. CASE m # n
    <3>1. clock'[m] = clock[m] /\ Count(clock[m], id) \in Nat
      BY <1>1, <1>2, <2>3, CountId, MaxCounterAssumption
    <3> QED
      BY <2>1, <3>1
  <2> QED
    BY <2>2, <2>3
<1> QED
  BY <1>5, <1>6 DEF LearnsStep

\* A record is set to a number that is no step back.
LEMMA RecordSet ==
    ASSUME Inv, NEW n \in Node, NEW r \in Rec,
           clock' = [clock EXCEPT ![n] = SetRecord(clock[n], r, MAX_VECTOR_SIZE)],
           r.sequence_number >= Count(clock[n], r.member_id),
           1 <= r.sequence_number, r.sequence_number <= counter'[r.member_id],
           counter' \in [Node -> 0 .. MaxCounter],
           \A id \in Node : counter[id] <= counter'[id]
    PROVE  Inv' /\ LearnsStep
<1> DEFINE c == clock[n]
           d == SetRecord(c, r, MAX_VECTOR_SIZE)
<1>1. IsClock(c) /\ counter \in [Node -> 0 .. MaxCounter]
  BY InvClocks DEF Inv
<1>2. \A e \in Entries(c) : e \in Rec /\ 1 <= e.sequence_number
                            /\ e.sequence_number <= counter[e.member_id]
  BY <1>1, CountEntry DEF Inv, Numbers
<1> HIDE DEF c
<1>3. IsClock(d) /\ Learned(c, d)
  BY <1>1, SetLearns DEF c
<1>4. \A e \in Entries(d) : e = r \/ e \in Entries(c)
  BY <1>1, SetAddsOnly, VectorSizeIsPositive DEF IsClock
<1>5. ASSUME NEW e \in Entries(d)
      PROVE  1 <= e.sequence_number /\ e.sequence_number <= counter'[e.member_id]
  <2>1. CASE e \in Entries(c)
    <3>1. e.member_id \in Node /\ e.sequence_number \in Nat
      BY <1>2, <2>1, MaxCounterAssumption DEF Rec
    <3>2. /\ counter[e.member_id] \in Nat /\ counter'[e.member_id] \in Nat
          /\ counter[e.member_id] <= counter'[e.member_id]
      BY <1>1, <3>1, MaxCounterAssumption
    <3> QED
      BY <1>2, <2>1, <3>1, <3>2
  <2> QED
    BY <1>4, <2>1
<1> HIDE DEF d
<1> QED
  BY <1>3, <1>5, OneClockChanges DEF c, d

\* A number of the clock is one that was given.
LEMMA CountGiven ==
    ASSUME Inv, NEW n \in Node, NEW id \in Node
    PROVE  Count(clock[n], id) <= counter[id]
<1>1. IsClock(clock[n]) /\ counter \in [Node -> 0 .. MaxCounter]
  BY InvClocks DEF Inv
<1>2. id \in Ids(clock[n]) => \E e \in Entries(clock[n]) : e.member_id = id
  BY <1>1, CountId
<1> QED
  BY <1>1, <1>2, CountId, CountEntry DEF Inv, Numbers

\* The next number of a node.
LEMMA CounterStep ==
    ASSUME Inv, NEW n \in Node, counter[n] < MaxCounter,
           counter' = [counter EXCEPT ![n] = counter[n] + 1]
    PROVE  /\ counter' \in [Node -> 0 .. MaxCounter]
           /\ counter[n] \in Nat /\ counter[n] + 1 \in 0 .. MaxCounter
           /\ counter'[n] = counter[n] + 1
           /\ \A id \in Node : counter[id] <= counter'[id]
<1>1. counter \in [Node -> 0 .. MaxCounter]
  BY DEF Inv, TypeOK
<1> QED
  BY <1>1, MaxCounterAssumption

\* gossip_enqueue_data sets the own record to the new value of data_counter, ...
LEMMA PublishStep ==
    ASSUME Inv, NEW n \in Node, Publish(n)
    PROVE  Inv' /\ LearnsStep
<1> DEFINE r == Record(n, counter[n] + 1)
<1>1. /\ counter[n] < MaxCounter
      /\ counter' = [counter EXCEPT ![n] = counter[n] + 1]
      /\ clock' = [clock EXCEPT ![n] = SetRecord(clock[n], r, MAX_VECTOR_SIZE)]
  BY DEF Publish, vector_clock_set
<1>2. /\ counter' \in [Node -> 0 .. MaxCounter]
      /\ counter[n] \in Nat /\ counter[n] + 1 \in 0 .. MaxCounter
      /\ counter'[n] = counter[n] + 1
      /\ \A id \in Node : counter[id] <= counter'[id]
  BY <1>1, CounterStep
<1>3. r \in Rec /\ r.member_id = n /\ r.sequence_number = counter[n] + 1
  BY <1>2 DEF Record, Rec
<1>4. Count(clock[n], n) <= counter[n] /\ Count(clock[n], n) \in Nat
  BY CountGiven, CountId, InvClocks, MaxCounterAssumption DEF Inv
<1> HIDE DEF r
<1>5. /\ r.sequence_number >= Count(clock[n], r.member_id)
      /\ 1 <= r.sequence_number /\ r.sequence_number <= counter'[r.member_id]
  BY <1>2, <1>3, <1>4
<1> QED
  BY <1>1, <1>2, <1>3, <1>5, RecordSet

\* ... and vector_clock_increment counts it on.
LEMMA IncrementStep ==
    ASSUME Inv, NEW n \in Node, PublishByIncrement(n)
    PROVE  Inv' /\ LearnsStep
<1> DEFINE c == clock[n]
           i == FindById(c, n)
           r == Record(n, c.records[i].sequence_number + 1)
<1>1. /\ counter[n] < MaxCounter
      /\ counter' = [counter EXCEPT ![n] = counter[n] + 1]
      /\ Has(c, n)
      /\ clock' = [clock EXCEPT ![n] = vector_clock_increment(c, n)]
  BY DEF PublishByIncrement
<1>2. /\ counter' \in [Node -> 0 .. MaxCounter]
      /\ counter[n] \in Nat /\ counter[n] + 1 \in 0 .. MaxCounter
      /\ counter'[n] = counter[n] + 1
      /\ \A id \in Node : counter[id] <= counter'[id]
  BY <1>1, CounterStep
<1>3. IsClock(c) /\ c.records \in Seq(Rec)
  BY InvClocks DEF Inv, IsClock, IsTable
<1>4. /\ i \in DOMAIN c.records /\ i # 0 /\ c.records[i].member_id = n
      /\ Count(c, n) = c.records[i].sequence_number
  BY <1>1, <1>3, Found DEF Count
<1>5. c.records[i] = [member_id |-> n, sequence_number |-> c.records[i].sequence_number]
  <2>1. \A e \in Rec : e = [member_id |-> e.member_id,
                            sequence_number |-> e.sequence_number]
    BY DEF Rec
  <2>2. c.records[i] \in Rec
    BY <1>3, <1>4
  <2> HIDE DEF c, i
  <2> QED
    BY <1>4, <2>1, <2>2
<1>6. vector_clock_increment(c, n) = SetRecord(c, r, MAX_VECTOR_SIZE)
  <2>1. r.member_id = n
    BY DEF Record
  <2>2. SetRecord(c, r, MAX_VECTOR_SIZE) = [c EXCEPT !.records[i] = r]
    BY <1>4, <2>1 DEF SetRecord
  <2>3. [c.records[i] EXCEPT !.sequence_number = c.records[i].sequence_number + 1] = r
    BY <1>5 DEF Record
  <2>4. vector_clock_increment(c, n) =
            [c EXCEPT !.records[i].sequence_number = c.records[i].sequence_number + 1]
    BY <1>4 DEF vector_clock_increment
  <2> HIDE DEF c, i, r
  <2> QED
    BY <2>2, <2>3, <2>4
<1>7. Count(c, n) <= counter[n] /\ Count(c, n) \in Nat
  BY <1>3, CountGiven, CountId, MaxCounterAssumption
<1>8. r \in Rec /\ r.member_id = n /\ r.sequence_number = Count(c, n) + 1
  BY <1>2, <1>4, <1>7, MaxCounterAssumption DEF Record, Rec
<1> HIDE DEF r, i
<1>9. /\ r.sequence_number >= Count(clock[n], r.member_id)
      /\ 1 <= r.sequence_number /\ r.sequence_number <= counter'[r.member_id]
  BY <1>2, <1>7, <1>8
<1> QED
  BY <1>1, <1>2, <1>6, <1>8, <1>9, RecordSet

\* A single record is merged (gossip_handle_data).
LEMMA LearnRecordStep ==
    ASSUME Inv, NEW n \in Node, NEW m \in Node, LearnRecord(n, m)
    PROVE  Inv' /\ LearnsStep
<1>1. PICK i \in DOMAIN clock[m].records :
          clock' = [clock EXCEPT ![n] = MergeRecord(clock[n], clock[m].records[i])]
  BY DEF LearnRecord
<1> DEFINE r == clock[m].records[i]
<1>2. /\ counter' = counter /\ counter \in [Node -> 0 .. MaxCounter]
      /\ \A id \in Node : counter[id] <= counter'[id]
  BY MaxCounterAssumption DEF LearnRecord, Inv, TypeOK
<1>3. IsClock(clock[n]) /\ IsClock(clock[m])
  BY InvClocks DEF Inv
<1>4. r \in Entries(clock[m])
  BY DEF Entries
<1>5. r \in Rec /\ 1 <= r.sequence_number /\ r.sequence_number <= counter[r.member_id]
  BY <1>3, <1>4, CountEntry DEF Inv, Numbers
<1> HIDE DEF r
<1>6. CASE vector_clock_compare_with_record(clock[n], r) = "BEFORE"
  <2>1. MergeRecord(clock[n], r) = SetRecord(clock[n], r, MAX_VECTOR_SIZE)
    BY <1>5, <1>6 DEF MergeRecord, vector_clock_set, Record, Rec
  <2>2. r.sequence_number >= Count(clock[n], r.member_id)
    <3> DEFINE j == FindById(clock[n], r.member_id)
    <3>1. CASE j = 0
      <4>1. Count(clock[n], r.member_id) = 0
        BY <1>3, <3>1, CountId
      <4> QED
        BY <1>5, <4>1 DEF Rec
    <3>2. CASE j # 0
      <4>1. /\ Count(clock[n], r.member_id) = clock[n].records[j].sequence_number
            /\ Count(clock[n], r.member_id) \in Nat
        BY <1>3, <3>2, CountId, MaxCounterAssumption DEF Count
      <4>2. clock[n].records[j].sequence_number < r.sequence_number
        BY <1>6, <3>2 DEF vector_clock_compare_with_record
      <4> QED
        BY <1>5, <4>1, <4>2 DEF Rec
    <3> QED
      BY <3>1, <3>2
  <2> QED
    BY <1>1, <1>2, <1>5, <2>1, <2>2, RecordSet DEF r
<1>7. CASE vector_clock_compare_with_record(clock[n], r) # "BEFORE"
  <2>1. MergeRecord(clock[n], r) = clock[n]
    BY <1>7 DEF MergeRecord
  <2>2. Learned(clock[n], clock[n])
    BY <1>3, CountId, MaxCounterAssumption DEF Learned
  <2>3. clock' = [clock EXCEPT ![n] = clock[n]]
    BY <1>1, <2>1 DEF r
  <2> QED
    BY <1>2, <1>3, <2>2, <2>3, OneClockChanges DEF Inv, Numbers
<1> QED
  BY <1>6, <1>7

\* A whole clock is merged (vector_clock_compare).
LEMMA LearnClockStep ==
    ASSUME Inv, NEW n \in Node, NEW m \in Node, LearnClock(n, m)
    PROVE  Inv' /\ LearnsStep
<1> DEFINE a == clock[n]
           b == clock[m]
           u == RaisedBy(a, b)
           x == [first |-> a, second |-> b, raised |-> u]
           d == Merge(a, b)
<1>1. clock' = [clock EXCEPT ![n] = d] /\ counter' = counter
  BY DEF LearnClock
<1>2. /\ counter \in [Node -> 0 .. MaxCounter]
      /\ \A id \in Node : counter[id] <= counter'[id]
  BY <1>1, MaxCounterAssumption DEF Inv, TypeOK
<1>3. IsClock(a) /\ IsClock(b)
  BY InvClocks DEF Inv
<1>4. /\ IsClock(u) /\ Ids(u) = Ids(a)
      /\ \A e \in Entries(u) : e \in Entries(a) \/ e \in Entries(b)
      /\ \A id \in Ids(a) : Count(u, id) >= Count(a, id)
  BY <1>3, RaisedKeeps
<1>5. /\ IsClock(d)
      /\ \A e \in Entries(d) : e \in Entries(u) \/ e \in Entries(b)
      /\ \A e \in Entries(u) :
            \/ e \in Entries(d)
            \/ /\ e.member_id \notin Ids(d)
               /\ Len(d.records) = MAX_VECTOR_SIZE
               /\ Ids(d) \ Ids(a) # {}
  <2>1. Merged(x, Len(b.records), d)
    BY <1>3, MergeKeeps
  <2>2. x.first = a /\ x.second = b /\ x.raised = u
    OBVIOUS
  <2> HIDE DEF x, d, u
  <2> QED
    BY <2>1, <2>2 DEF Merged
<1> HIDE DEF d, u
<1>6. Learned(a, d)
  <2> SUFFICES ASSUME NEW id \in Node
               PROVE  \/ Count(d, id) >= Count(a, id)
                      \/ /\ id \notin Ids(d)
                         /\ Len(d.records) = MAX_VECTOR_SIZE
                         /\ Ids(d) \ Ids(a) # {}
    BY DEF Learned
  <2>1. CASE id \notin Ids(a)
    BY <1>3, <1>5, <2>1, CountId, MaxCounterAssumption
  <2>2. CASE id \in Ids(a)
    <3>1. PICK e \in Entries(u) : e.member_id = id
      BY <1>4, <2>2, CountId
    <3>2. e.sequence_number >= Count(a, id)
      BY <1>4, <2>2, <3>1, CountEntry
    <3>3. CASE e \in Entries(d)
      BY <1>5, <3>1, <3>2, <3>3, CountEntry
    <3> QED
      BY <1>5, <3>1, <3>3
  <2> QED
    BY <2>1, <2>2
<1>7. \A e \in Entries(d) : /\ 1 <= e.sequence_number
                            /\ e.sequence_number <= counter'[e.member_id]
  BY <1>1, <1>4, <1>5 DEF Inv, Numbers
<1> QED
  BY <1>1, <1>2, <1>5, <1>6, <1>7, OneClockChanges

LEMMA InvStep == Inv /\ [Next]_vars => Inv' /\ (UNCHANGED vars \/ LearnsStep)
<1> SUFFICES ASSUME Inv, [Next]_vars PROVE Inv' /\ (UNCHANGED vars \/ LearnsStep)
  OBVIOUS
<1>1. CASE UNCHANGED vars
  BY <1>1 DEF vars, Inv, TypeOK, TableShape, Numbers
<1>2. ASSUME NEW n \in Node, NEW m \in Node \ {n}, LearnRecord(n, m)
      PROVE  Inv' /\ LearnsStep
  BY <1>2, LearnRecordStep
<1>3. ASSUME NEW n \in Node, NEW m \in Node \ {n}, LearnClock(n, m)
      PROVE  Inv' /\ LearnsStep
  BY <1>3, LearnClockStep
<1>4. ASSUME NEW n \in Node, Publish(n)
      PROVE  Inv' /\ LearnsStep
  BY <1>4, PublishStep
<1>5. ASSUME NEW n \in Node, PublishByIncrement(n)
      PROVE  Inv' /\ LearnsStep
  BY <1>5, IncrementStep
<1> QED
  BY <1>1, <1>2, <1>3, <1>4, <1>5 DEF Next, Learn

\* Whatever the nodes number and learn, the clocks are tables of numbers that their
\* originators have given out: the inductive invariant of vector_clock_set_by_id.
THEOREM Invariant == Spec => []Inv
<1>1. Init => Inv
  BY InvInit
<1>2. Inv /\ [Next]_vars => Inv'
  BY InvStep
<1> QED
  BY <1>1, <1>2, PTL DEF Spec

\* The clocks of all nodes keep their types, whatever they learn from each other.
THEOREM TypeCorrect == Spec => []TypeOK
<1>1. Inv => TypeOK
  BY DEF Inv
<1> QED
  BY <1>1, Invariant, PTL

\* vector_clock_set_by_id never leaves a gap or a double in a table.
THEOREM ShapeKept == Spec => []TableShape
<1>1. Inv => TableShape
  BY DEF Inv
<1> QED
  BY <1>1, Invariant, PTL

\* vector_clock_compare decides the pointwise order of any two clocks that the
\* nodes can have, also after records have been overwritten.
THEOREM ComparesPointwise == Spec => []CompareIsPointwise
<1>1. Inv => CompareIsPointwise
  <2> SUFFICES ASSUME Inv, NEW n \in Node, NEW m \in Node
               PROVE  vector_clock_compare(clock[n], clock[m])
                        = Order(clock[n], clock[m])
    BY DEF CompareIsPointwise
  <2>1. IsClock(clock[n]) /\ IsClock(clock[m])
    BY InvClocks DEF Inv
  <2>2. Positive(clock[n]) /\ Positive(clock[m])
    <3>1. \A c \in {clock[n], clock[m]} : \A e \in Entries(c) :
              e \in Rec /\ 1 <= e.sequence_number
      BY <2>1, CountEntry DEF Inv, Numbers
    <3> QED
      BY <3>1 DEF Positive, Rec
  <2> QED
    BY <2>1, <2>2, ComparePointwise
<1> QED
  BY <1>1, Invariant, PTL

\* Learning a record or a clock never invents a number, and takes one back only
\* by overwriting its record in a full table.
THEOREM LearnsOnlyHolds == Spec => LearnsOnly
<1>1. Inv /\ [Next]_vars => [LearnsStep]_vars
  BY InvStep
<1>2. Spec => [][LearnsStep]_vars
  BY <1>1, Invariant, PTL DEF Spec
<1> QED
  BY <1>2 DEF LearnsOnly, LearnsStep

\* Merging a clock gives the least upper bound of the two, if there is a slot for
\* every originator.
THEOREM MergesToJoin == Spec => []MergeIsJoin
<1>1. Inv => MergeIsJoin
  <2> SUFFICES ASSUME Inv, NEW n \in Node, NEW m \in Node,
                      Cardinality(Ids(clock[n]) \cup Ids(clock[m])) <= MAX_VECTOR_SIZE,
                      NEW id \in Node
               PROVE  Count(Merge(clock[n], clock[m]), id)
                        = Max({Count(clock[n], id), Count(clock[m], id)})
    BY DEF MergeIsJoin
  <2> DEFINE a == clock[n]
             b == clock[m]
             u == RaisedBy(a, b)
             x == [first |-> a, second |-> b, raised |-> u]
             d == Merge(a, b)
  <2>1. IsClock(a) /\ IsClock(b)
    BY InvClocks DEF Inv
  <2>2. /\ IsClock(u) /\ Ids(u) = Ids(a)
        /\ \A e \in Entries(u) : e \in Entries(a) \/ e \in Entries(b)
        /\ \A i \in Ids(a) : Count(u, i) >= Count(a, i) /\ Count(u, i) >= Count(b, i)
    BY <2>1, RaisedKeeps
  <2>3. b.records \in Seq(Rec) /\ DOMAIN b.records = 1 .. Len(b.records)
    BY <2>1 DEF IsClock, IsTable
  <2>4. /\ IsClock(d)
        /\ \A e \in Entries(d) : \/ e \in Entries(u)
                                 \/ e \in Entries(b) /\ IsMissing(a, e)
        /\ Entries(u) \subseteq Entries(d)
        /\ \A e \in Entries(b) : IsMissing(a, e) => e \in Entries(d)
    <3>1. Merged(x, Len(b.records), d)
      BY <2>1, MergeKeeps
    <3>2. x.first = a /\ x.second = b /\ x.raised = u
      OBVIOUS
    <3> HIDE DEF x, d, u
    <3> QED
      BY <2>3, <3>1, <3>2 DEF Merged, Entries
  <2> HIDE DEF d, u
  <2>5. Count(a, id) \in Nat /\ Count(b, id) \in Nat /\ Count(d, id) \in Nat
    BY <2>1, <2>4, CountId, MaxCounterAssumption
  <2>6. /\ Count(d, id) >= Count(a, id) /\ Count(d, id) >= Count(b, id)
        /\ Count(d, id) = Count(a, id) \/ Count(d, id) = Count(b, id)
    <3>1. CASE id \in Ids(a)
      <4>1. PICK e \in Entries(u) : e.member_id = id
        BY <2>2, <3>1, CountId
      <4>2. Count(u, id) = e.sequence_number /\ Count(d, id) = e.sequence_number
        BY <2>2, <2>4, <4>1, CountEntry
      <4>3. e.sequence_number = Count(a, id) \/ e.sequence_number = Count(b, id)
        BY <2>1, <2>2, <4>1, CountEntry
      <4> QED
        BY <2>2, <3>1, <4>2, <4>3
    <3>2. CASE id \notin Ids(a) /\ id \in Ids(b)
      <4>1. PICK e \in Entries(b) : e.member_id = id
        BY <2>1, <3>2, CountId
      <4>2. IsMissing(a, e)
        BY <2>1, <3>2, <4>1, CountId DEF IsMissing
      <4>3. Count(d, id) = e.sequence_number /\ Count(b, id) = e.sequence_number
        BY <2>1, <2>4, <4>1, <4>2, CountEntry
      <4>4. Count(a, id) = 0
        BY <2>1, <3>2, CountId
      <4> QED
        BY <2>5, <4>3, <4>4
    <3>3. CASE id \notin Ids(a) /\ id \notin Ids(b)
      <4>1. \A e \in Entries(d) : e.member_id # id
        BY <2>1, <2>2, <2>4, <3>3, CountEntry
      <4>2. Count(d, id) = 0 /\ Count(a, id) = 0 /\ Count(b, id) = 0
        BY <2>1, <2>4, <3>3, <4>1, CountId
      <4> QED
        BY <4>2
    <3> QED
      BY <3>1, <3>2, <3>3
  <2> DEFINE A == Count(a, id)
             B == Count(b, id)
             D == Count(d, id)
  <2>7. D = Max({A, B})
    <3> HIDE DEF A, B, D
    <3>1. A \in Nat /\ B \in Nat /\ D \in Nat /\ D >= A /\ D >= B /\ (D = A \/ D = B)
      BY <2>5, <2>6 DEF A, B, D
    <3>2. \A y : (y \in {A, B} /\ \A z \in {A, B} : y >= z) <=> y = D
      BY <3>1
    <3> QED
      BY <3>2 DEF Max
  <2> QED
    BY <2>7 DEF d
<1> QED
  BY <1>1, Invariant, PTL

=============================================================================
