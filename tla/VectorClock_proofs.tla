------------------------- MODULE VectorClock_proofs -------------------------
(***************************************************************************)
(* What the operators on vector clocks and data logs do, for tables of any *)
(* size and records of any kind.                                           *)
(***************************************************************************)
EXTENDS VectorClock, FiniteSetTheorems, WellFoundedInduction, TLAPS

LEMMA VectorSizeIsPositive == MAX_VECTOR_SIZE \in Nat \ {0}
BY MaxVectorSizeAssumption

\* A table of at most max records of R: one per member id, and filled from the
\* front until it is full.
IsTable(t, R, max) ==
    /\ t \in [records : Seq(R), current_idx : 0 .. max - 1]
    /\ Len(t.records) <= max
    /\ Len(t.records) < max => t.current_idx = Len(t.records)
    /\ \A i, j \in DOMAIN t.records :
          t.records[i].member_id = t.records[j].member_id => i = j

Entries(t) == {t.records[i] : i \in DOMAIN t.records}

\* There is a slot for member id that is its own or free.
HasRoom(t, id, max) == Has(t, id) \/ Len(t.records) < max

-----------------------------------------------------------------------------
(* Looking up *)

\* vector_clock_find_by_member_id finds the record of a member if there is one.
LEMMA Found ==
    ASSUME NEW R, NEW t, t.records \in Seq(R), NEW id
    PROVE  /\ Has(t, id) => /\ FindById(t, id) \in DOMAIN t.records
                            /\ FindById(t, id) # 0
                            /\ t.records[FindById(t, id)].member_id = id
           /\ ~Has(t, id) => FindById(t, id) = 0
<1> DEFINE I == {i \in 1 .. Len(t.records) : t.records[i].member_id = id}
<1>1. FindById(t, id) = IF I # {} THEN Min(I) ELSE 0
  BY DEF FindById, SelectInSeq
<1>2. Has(t, id) <=> I # {}
  BY DEF Has
<1>3. CASE I # {}
  <2>1. I \in SUBSET Nat
    OBVIOUS
  <2>2. Min(I) \in I
    <3> HIDE DEF I
    <3>1. IsWellFoundedOn(OpToRel(<, Nat), Nat)
      BY NatLessThanWellFounded
    <3>2. PICK m \in I : \A n \in I : ~ (<<n, m>> \in OpToRel(<, Nat))
      BY <1>3, <2>1, <3>1, WFMin
    <3>3. \A n \in I : ~ (n < m)
      BY <2>1, <3>2 DEF OpToRel
    <3>4. \A n \in I : m <= n
      BY <2>1, <3>3
    <3> QED
      BY <3>4 DEF Min
  <2> QED
    BY <1>1, <1>2, <1>3, <2>2
<1> QED
  BY <1>1, <1>2, <1>3

\* In a table it finds the only one.
LEMMA FoundOnly ==
    ASSUME NEW R, NEW max, NEW t, IsTable(t, R, max), NEW i \in DOMAIN t.records
    PROVE  /\ Has(t, t.records[i].member_id)
           /\ FindById(t, t.records[i].member_id) = i
<1>1. Has(t, t.records[i].member_id)
  BY DEF Has
<1>2. t.records \in Seq(R)
  BY DEF IsTable
<1> QED
  BY <1>1, <1>2, Found DEF IsTable

-----------------------------------------------------------------------------
(* Setting a record *)

LEMMA EmptyTable ==
    ASSUME NEW R, NEW max \in Nat \ {0}
    PROVE  IsTable(Table, R, max) /\ Entries(Table) = {}
BY DEF IsTable, Table, Entries

\* The slot index stays within the table.
LEMMA Wraps ==
    ASSUME NEW n \in Nat, NEW max \in Nat \ {0}
    PROVE  n % max \in 0 .. max - 1 /\ (n < max => n % max = n)
OBVIOUS

\* The three things vector_clock_set_by_id may do to make u out of t: replace the
\* record of the same member, ...
Replaced(t, u, r) ==
    \E i \in DOMAIN t.records :
        /\ t.records[i].member_id = r.member_id
        /\ u.records = [t.records EXCEPT ![i] = r]
        /\ u.current_idx = t.current_idx

\* ... take the next free slot, ...
Added(t, u, r, max) ==
    /\ ~Has(t, r.member_id)
    /\ Len(t.records) < max
    /\ u.records = Append(t.records, r)
    /\ u.current_idx = (Len(t.records) + 1) % max

\* ... or overwrite the record of another member.
Overwritten(t, u, r, max) ==
    /\ ~Has(t, r.member_id)
    /\ Len(t.records) = max
    /\ \E s \in DOMAIN t.records :
          /\ u.records = [t.records EXCEPT ![s] = r]
          /\ u.current_idx = s % max

LEMMA SetCases ==
    ASSUME NEW R, NEW max \in Nat \ {0}, NEW t, IsTable(t, R, max), NEW r \in R,
           NEW u, u = SetRecord(t, r, max)
    PROVE  /\ u = [records |-> u.records, current_idx |-> u.current_idx]
           /\ Replaced(t, u, r) \/ Added(t, u, r, max) \/ Overwritten(t, u, r, max)
<1> DEFINE i == FindById(t, r.member_id)
           s == t.current_idx + 1
<1>1. /\ t.records \in Seq(R) /\ t.current_idx \in 0 .. max - 1
      /\ Len(t.records) <= max /\ DOMAIN t.records = 1 .. Len(t.records)
      /\ t = [records |-> t.records, current_idx |-> t.current_idx]
      /\ Len(t.records) < max => t.current_idx = Len(t.records)
  BY DEF IsTable
<1>2. CASE Has(t, r.member_id)
  <2>1. i \in DOMAIN t.records /\ i # 0 /\ t.records[i].member_id = r.member_id
    BY <1>1, <1>2, Found
  <2>2. u = [t EXCEPT !.records[i] = r]
    BY <2>1 DEF SetRecord
  <2> HIDE DEF i
  <2>3. u = [records |-> [t.records EXCEPT ![i] = r], current_idx |-> t.current_idx]
    BY <1>1, <2>2
  <2>4. /\ u = [records |-> u.records, current_idx |-> u.current_idx]
        /\ u.records = [t.records EXCEPT ![i] = r]
        /\ u.current_idx = t.current_idx
    BY <2>3
  <2> QED
    BY <2>1, <2>4 DEF Replaced
<1>3. CASE ~Has(t, r.member_id)
  <2>1. i = 0
    BY <1>1, <1>3, Found
  <2>2. u = [records     |-> IF s > Len(t.records) THEN Append(t.records, r)
                             ELSE [t.records EXCEPT ![s] = r],
             current_idx |-> s % max]
    BY <2>1 DEF SetRecord
  <2>3. /\ u = [records |-> u.records, current_idx |-> u.current_idx]
        /\ u.records = IF s > Len(t.records) THEN Append(t.records, r)
                       ELSE [t.records EXCEPT ![s] = r]
        /\ u.current_idx = s % max
    BY <2>2
  <2>4. CASE Len(t.records) < max
    BY <1>1, <1>3, <2>3, <2>4 DEF Added
  <2>5. CASE Len(t.records) = max
    <3>1. s \in DOMAIN t.records /\ ~(s > Len(t.records))
      BY <1>1, <2>5
    <3> HIDE DEF s
    <3> QED
      BY <1>1, <1>3, <2>3, <2>5, <3>1 DEF Overwritten
  <2> QED
    BY <1>1, <2>4, <2>5
<1> QED
  BY <1>2, <1>3

\* It leaves a table, which has the new record.
LEMMA SetKeepsTable ==
    ASSUME NEW R, NEW max \in Nat \ {0}, NEW t, IsTable(t, R, max), NEW r \in R,
           NEW u, u = SetRecord(t, r, max)
    PROVE  /\ IsTable(u, R, max)
           /\ r \in Entries(u)
           /\ Len(t.records) <= Len(u.records)
<1>1. /\ t.records \in Seq(R) /\ t.current_idx \in 0 .. max - 1
      /\ Len(t.records) <= max /\ DOMAIN t.records = 1 .. Len(t.records)
      /\ Len(t.records) < max => t.current_idx = Len(t.records)
      /\ \A i, j \in DOMAIN t.records :
            t.records[i].member_id = t.records[j].member_id => i = j
  BY DEF IsTable
<1>2. SUFFICES /\ u.records \in Seq(R) /\ u.current_idx \in 0 .. max - 1
               /\ Len(u.records) <= max
               /\ Len(u.records) < max => u.current_idx = Len(u.records)
               /\ \A i, j \in DOMAIN u.records :
                     u.records[i].member_id = u.records[j].member_id => i = j
               /\ \E i \in DOMAIN u.records : u.records[i] = r
               /\ Len(t.records) <= Len(u.records)
  <2>1. u = [records |-> u.records, current_idx |-> u.current_idx]
    BY SetCases
  <2>2. u \in [records : Seq(R), current_idx : 0 .. max - 1]
    BY <1>2, <2>1
  <2> QED
    BY <1>2, <2>2 DEF IsTable, Entries
<1>3. CASE Replaced(t, u, r)
  <2>1. PICK i \in DOMAIN t.records :
              /\ t.records[i].member_id = r.member_id
              /\ u.records = [t.records EXCEPT ![i] = r]
              /\ u.current_idx = t.current_idx
    BY <1>3 DEF Replaced
  <2>2. /\ u.records \in Seq(R) /\ Len(u.records) = Len(t.records)
        /\ DOMAIN u.records = DOMAIN t.records
        /\ \A j \in DOMAIN t.records : u.records[j].member_id = t.records[j].member_id
        /\ u.records[i] = r
    BY <1>1, <2>1
  <2> QED
    BY <1>1, <2>1, <2>2
<1>4. CASE Added(t, u, r, max)
  <2>1. PICK n \in Nat : n = Len(t.records) /\ n < max
    BY <1>1, <1>4 DEF Added
  <2>2. /\ u.records \in Seq(R) /\ Len(u.records) = n + 1
        /\ DOMAIN u.records = 1 .. n + 1 /\ DOMAIN t.records = 1 .. n
        /\ \A j \in 1 .. n : u.records[j] = t.records[j]
        /\ u.records[n + 1] = r /\ u.current_idx = (n + 1) % max
    BY <1>1, <1>4, <2>1 DEF Added
  <2>3. \A j \in 1 .. n : t.records[j].member_id # r.member_id
    BY <1>4, <2>2 DEF Has, Added
  <2>4. ASSUME NEW i \in 1 .. n + 1, NEW j \in 1 .. n + 1,
               u.records[i].member_id = u.records[j].member_id
        PROVE  i = j
    <3>1. i \in 1 .. n \/ i = n + 1
      OBVIOUS
    <3>2. j \in 1 .. n \/ j = n + 1
      OBVIOUS
    <3>3. \A k \in 1 .. n : u.records[k].member_id # r.member_id
      BY <2>2, <2>3
    <3>4. CASE i \in 1 .. n /\ j \in 1 .. n
      BY <1>1, <2>2, <2>4, <3>4
    <3> QED
      BY <2>2, <2>4, <3>1, <3>2, <3>3, <3>4
  <2>5. /\ (n + 1) % max \in 0 .. max - 1
        /\ n + 1 < max => (n + 1) % max = n + 1
    <3>1. n + 1 \in Nat
      OBVIOUS
    <3> QED
      BY <3>1, Wraps
  <2>6. n + 1 \in 1 .. n + 1 /\ n <= n + 1 /\ n + 1 <= max
    BY <2>1
  <2> QED
    BY <2>1, <2>2, <2>4, <2>5, <2>6
<1>5. CASE Overwritten(t, u, r, max)
  <2>1. PICK s \in DOMAIN t.records :
              u.records = [t.records EXCEPT ![s] = r] /\ u.current_idx = s % max
    BY <1>5 DEF Overwritten
  <2>2. /\ u.records \in Seq(R) /\ Len(u.records) = Len(t.records)
        /\ DOMAIN u.records = DOMAIN t.records
        /\ \A j \in DOMAIN t.records : j # s => u.records[j] = t.records[j]
        /\ u.records[s] = r
    BY <1>1, <2>1
  <2>3. Len(t.records) = max /\ u.current_idx \in 0 .. max - 1
    BY <1>1, <1>5, <2>1 DEF Overwritten
  <2>4. \A j \in DOMAIN t.records : t.records[j].member_id # r.member_id
    BY <1>5 DEF Has, Overwritten
  <2>5. \A i, j \in DOMAIN u.records :
            u.records[i].member_id = u.records[j].member_id => i = j
    BY <1>1, <2>2, <2>4
  <2> QED
    BY <2>2, <2>3, <2>5
<1> QED
  BY <1>3, <1>4, <1>5, SetCases

\* Whatever is in the table afterwards was there before, or is the new record;
\* whatever is not there any more had the same member, or its slot is taken.
LEMMA SetAddsOnly ==
    ASSUME NEW R, NEW max \in Nat \ {0}, NEW t, IsTable(t, R, max), NEW r \in R,
           NEW u, u = SetRecord(t, r, max)
    PROVE  /\ r \in Entries(u)
           /\ \A e \in Entries(u) : e = r \/ e \in Entries(t)
           /\ \A e \in Entries(t) :
                 \/ e \in Entries(u)
                 \/ e.member_id = r.member_id
                 \/ /\ ~Has(t, r.member_id) /\ Len(t.records) = max
                    /\ \A f \in Entries(u) : f.member_id # e.member_id
<1>1. t.records \in Seq(R)
  BY DEF IsTable
<1>2. r \in Entries(u)
  BY SetKeepsTable
<1>3. CASE Replaced(t, u, r)
  <2>1. PICK i \in DOMAIN t.records :
              /\ t.records[i].member_id = r.member_id
              /\ u.records = [t.records EXCEPT ![i] = r]
    BY <1>3 DEF Replaced
  <2>2. /\ DOMAIN u.records = DOMAIN t.records
        /\ \A j \in DOMAIN t.records : j # i => u.records[j] = t.records[j]
        /\ u.records[i] = r
    BY <1>1, <2>1
  <2> QED
    BY <1>2, <2>1, <2>2 DEF Entries
<1>4. CASE Added(t, u, r, max)
  <2>1. /\ DOMAIN u.records = 1 .. Len(t.records) + 1
        /\ DOMAIN t.records = 1 .. Len(t.records) /\ Len(t.records) \in Nat
        /\ \A j \in 1 .. Len(t.records) : u.records[j] = t.records[j]
        /\ u.records[Len(t.records) + 1] = r
    BY <1>1, <1>4 DEF Added
  <2>2. \A j \in DOMAIN u.records : j \in DOMAIN t.records \/ j = Len(t.records) + 1
    BY <2>1
  <2>3. \A e \in Entries(u) : e = r \/ e \in Entries(t)
    BY <2>1, <2>2 DEF Entries
  <2>4. DOMAIN t.records \subseteq DOMAIN u.records
    BY <2>1
  <2>5. \A e \in Entries(t) : e \in Entries(u)
    BY <2>1, <2>4 DEF Entries
  <2> QED
    BY <1>2, <2>3, <2>5
<1>5. CASE Overwritten(t, u, r, max)
  <2>0. PICK s \in DOMAIN t.records : u.records = [t.records EXCEPT ![s] = r]
    BY <1>5 DEF Overwritten
  <2>1. /\ DOMAIN u.records = DOMAIN t.records
        /\ \A j \in DOMAIN t.records : j # s => u.records[j] = t.records[j]
        /\ u.records[s] = r
    BY <1>1, <2>0
  <2>2. \A e \in Entries(u) : e = r \/ e \in Entries(t)
    BY <2>1 DEF Entries
  <2>3. ASSUME NEW j \in DOMAIN t.records, t.records[j] \notin Entries(u)
        PROVE  \A f \in Entries(u) : f.member_id # t.records[j].member_id
    <3>1. j = s
      BY <2>1, <2>3 DEF Entries
    <3>2. t.records[s].member_id # r.member_id
      BY <1>5 DEF Has, Overwritten
    <3>3. \A k \in DOMAIN t.records : k # s =>
              t.records[k].member_id # t.records[s].member_id
      BY DEF IsTable
    <3> QED
      BY <2>1, <3>1, <3>2, <3>3 DEF Entries
  <2>4. ~Has(t, r.member_id) /\ Len(t.records) = max
    BY <1>5 DEF Overwritten
  <2> QED
    BY <1>2, <2>2, <2>3, <2>4 DEF Entries
<1> QED
  BY <1>3, <1>4, <1>5, SetCases

\* Where there is room, only the record of the same member is replaced.
LEMMA SetWithRoom ==
    ASSUME NEW R, NEW max \in Nat \ {0}, NEW t, IsTable(t, R, max), NEW r \in R,
           HasRoom(t, r.member_id, max)
    PROVE  Entries(SetRecord(t, r, max)) =
               {e \in Entries(t) : e.member_id # r.member_id} \cup {r}
<1> DEFINE u == SetRecord(t, r, max)
<1>1. IsTable(u, R, max)
  BY SetKeepsTable
<1>2. /\ r \in Entries(u)
      /\ \A e \in Entries(u) : e = r \/ e \in Entries(t)
      /\ \A e \in Entries(t) : e.member_id # r.member_id => e \in Entries(u)
  BY SetAddsOnly DEF HasRoom
<1>3. \A e \in Entries(u) : e # r => e.member_id # r.member_id
  BY <1>1, <1>2 DEF IsTable, Entries
<1> HIDE DEF u
<1>4. Entries(u) = {e \in Entries(t) : e.member_id # r.member_id} \cup {r}
  BY <1>2, <1>3
<1> QED
  BY <1>4 DEF u

\* A table that is not smaller than the set of members has room for all of them.
LEMMA RoomForAll ==
    ASSUME NEW R, NEW max \in Nat \ {0}, NEW t, IsTable(t, R, max),
           NEW S, IsFiniteSet(S), Cardinality(S) <= max,
           \A e \in Entries(t) : e.member_id \in S, NEW id \in S
    PROVE  HasRoom(t, id, max)
<1> SUFFICES ASSUME ~Has(t, id), ~(Len(t.records) < max) PROVE FALSE
  BY DEF HasRoom
<1>1. /\ DOMAIN t.records = 1 .. max
      /\ \A i, j \in DOMAIN t.records :
            t.records[i].member_id = t.records[j].member_id => i = j
  BY DEF IsTable
<1> DEFINE T == S \ {id}
           f == [i \in 1 .. max |-> t.records[i].member_id]
<1>2. IsFiniteSet(T) /\ Cardinality(T) = Cardinality(S) - 1
  BY FS_RemoveElement
<1>3. Cardinality(S) \in Nat
  BY FS_CardinalityType
<1>4. \A i \in 1 .. max : t.records[i].member_id \in T
  BY <1>1 DEF Entries, Has
<1>5. f \in Injection(1 .. max, T)
  BY <1>1, <1>4 DEF Injection, IsInjective
<1> HIDE DEF T, f
<1>6. Cardinality(1 .. max) <= Cardinality(T)
  BY <1>2, <1>5, FS_Injection
<1>7. Cardinality(1 .. max) = max
  BY FS_Interval
<1> QED
  BY <1>2, <1>3, <1>6, <1>7

=============================================================================
