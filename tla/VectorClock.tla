---------------------------- MODULE VectorClock ----------------------------
(***************************************************************************)
(* Vector clocks (src/src/vector_clock.c).  A clock is a bounded table of  *)
(* records, at most one per member id; when the table is full, a record of *)
(* a new member overwrites another one, in ring order.  The data log of a  *)
(* node (gossip_data_log) is a table of the same kind, whose records also  *)
(* carry the payload.                                                      *)
(*                                                                         *)
(* The array and its size are a sequence; current_idx is the 0-based slot  *)
(* of the next new record, as in the code.  member_id_t is any value that  *)
(* identifies an originator.                                               *)
(***************************************************************************)
EXTENDS Integers, Sequences, SequencesExt

CONSTANT MAX_VECTOR_SIZE      \* records of a vector clock  (20)

\* The records of a clock that the other one lacks are found with a mask of 32 bits,
\* 1 << size: up to this size it is the set of these records.
ASSUME MaxVectorSizeAssumption == MAX_VECTOR_SIZE \in 1 .. 31

Table == [records |-> <<>>, current_idx |-> 0]

\* The position of the record of member id, 0 when there is none.
FindById(table, id) ==
    SelectInSeq(table.records, LAMBDA r : r.member_id = id)

Has(table, id) == \E i \in DOMAIN table.records : table.records[i].member_id = id

\* Mutant: the slot index does not wrap around.
SetRecordUnwrapped(table, r, max) ==
    LET i == FindById(table, r.member_id)
    IN  IF i # 0 THEN [table EXCEPT !.records[i] = r]
        ELSE [records |-> Append(table.records, r),
              current_idx |-> table.current_idx + 1]

\* Mutant: the record of the member is not looked up.
SetRecordAnew(table, r, max) ==
    LET slot == table.current_idx + 1
    IN  [records     |-> IF slot > Len(table.records)
                         THEN Append(table.records, r)
                         ELSE [table.records EXCEPT ![slot] = r],
         current_idx |-> slot % max]

\* Update the record of a member, or insert one: in the next free slot or,
\* when all max slots are taken, over the record whose turn it is.
SetRecord(table, r, max) ==
    LET i    == FindById(table, r.member_id)
        slot == table.current_idx + 1
    IN  IF i # 0
        THEN [table EXCEPT !.records[i] = r]
        ELSE [records     |-> IF slot > Len(table.records)
                              THEN Append(table.records, r)
                              ELSE [table.records EXCEPT ![slot] = r],
              current_idx |-> (table.current_idx + 1) % max]

-----------------------------------------------------------------------------
Record(id, n) == [member_id |-> id, sequence_number |-> n]

vector_clock_set(clock, id, n) ==
    SetRecord(clock, Record(id, n), MAX_VECTOR_SIZE)

\* Only a member that has a record already can be incremented.
vector_clock_increment(clock, id) ==
    LET i == FindById(clock, id)
    IN  IF i = 0 THEN clock ELSE [clock EXCEPT !.records[i].sequence_number = @ + 1]

\* Mutant: the last answer wins.
LastResult(prev, new) == new

\* EQUAL adds nothing; two different answers are a conflict.
resolve_comp_result(prev, new) ==
    IF prev # "EQUAL" /\ new # prev THEN "CONFLICT" ELSE new

\* Mutant: an equal record counts as news.
CompareNotStrict(clock, r) ==
    LET i == FindById(clock, r.member_id)
    IN  IF i = 0 THEN "BEFORE"
        ELSE IF clock.records[i].sequence_number > r.sequence_number THEN "AFTER"
        ELSE "BEFORE"

\* How a clock stands to one record, ...
vector_clock_compare_with_record(clock, r) ==
    LET i == FindById(clock, r.member_id)
        n == clock.records[i].sequence_number
    IN  IF i = 0 THEN "BEFORE"
        ELSE IF n > r.sequence_number THEN "AFTER"
        ELSE IF n < r.sequence_number THEN "BEFORE"
        ELSE "EQUAL"

\* Mutants: the record is set without a comparison, and not set at all.
MergeAnyRecord(clock, r) ==
    vector_clock_set(clock, r.member_id, r.sequence_number)

MergeNoRecord(clock, r) == clock

\* ... and the clock once the record is merged into it.
MergeRecord(clock, r) ==
    IF vector_clock_compare_with_record(clock, r) = "BEFORE"
    THEN vector_clock_set(clock, r.member_id, r.sequence_number)
    ELSE clock

\* A record of the second clock has no counterpart in first: its bit is what is
\* left of the second clock's mask after the loop over first.
IsMissing(first, r) == FindById(first, r.member_id) = 0

vector_clock_compare(first, second) ==
    LET Step(res, r) ==
            LET i == FindById(second, r.member_id)
            IN  IF i = 0 THEN resolve_comp_result(res, "AFTER")
                ELSE LET n == second.records[i].sequence_number
                     IN  IF r.sequence_number > n
                         THEN resolve_comp_result(res, "AFTER")
                         ELSE IF r.sequence_number < n
                         THEN resolve_comp_result(res, "BEFORE")
                         ELSE res
        common == FoldLeft(Step, "EQUAL", first.records)
    IN  IF \E i \in DOMAIN second.records : IsMissing(first, second.records[i])
        THEN resolve_comp_result(common, "BEFORE")
        ELSE common

\* Mutant: only the missing records are merged.
MergeMissing(first, second) ==
    FoldLeft(LAMBDA clock, r :
                 IF IsMissing(first, r)
                 THEN vector_clock_set(clock, r.member_id, r.sequence_number)
                 ELSE clock,
             first, second.records)

\* What vector_clock_compare makes of first when it is asked to merge: the
\* common records take the larger number, then the missing ones are set.
Merge(first, second) ==
    LET Raised(r) ==
            LET i == FindById(second, r.member_id)
            IN  IF i # 0 /\ second.records[i].sequence_number > r.sequence_number
                THEN second.records[i] ELSE r
        raised == [first EXCEPT !.records =
                       [j \in DOMAIN first.records |-> Raised(first.records[j])]]
    IN  FoldLeft(LAMBDA clock, r :
                     IF IsMissing(first, r)
                     THEN vector_clock_set(clock, r.member_id, r.sequence_number)
                     ELSE clock,
                 raised, second.records)

=============================================================================
