----------------------------- MODULE MemberSet -----------------------------
(***************************************************************************)
(* The set of known members of a node (src/src/member.c): an array without *)
(* duplicates, in order of arrival, and the capacity that is allocated for *)
(* it.  A member is its address and its uid (the time its process          *)
(* started); the version field is constant.                                *)
(***************************************************************************)
EXTENDS Integers, Sequences, SequencesExt

CONSTANT MEMBERS_INITIAL_CAPACITY      \* (32)

ASSUME InitialCapacityAssumption == MEMBERS_INITIAL_CAPACITY \in Nat \ {0}

cluster_member_set_init == [set |-> <<>>, capacity |-> MEMBERS_INITIAL_CAPACITY]

\* Mutant: the capacity stays.
NotExtended(capacity, size) == capacity

\* The capacity is doubled until size is less than three quarters of it, which
\* takes at most size rounds.
cluster_member_set_extend(capacity, size) ==
    FoldLeft(LAMBDA c, round : IF 4 * size < 3 * c THEN c ELSE 2 * c,
             capacity, [i \in 1 .. size |-> i])

\* Room is made for all the new members; those that are not there yet are
\* appended, one after the other.
cluster_member_set_put(members, new) ==
    [capacity |-> cluster_member_set_extend(members.capacity,
                                            Len(members.set) + Len(new)),
     set      |-> FoldLeft(LAMBDA ms, m : IF Contains(ms, m) THEN ms ELSE Append(ms, m),
                           members.set, new)]

\* Only the first member with the address goes; the others move up.
cluster_member_set_remove_by_addr(members, addr) ==
    [members EXCEPT !.set = RemoveFirstMatch(@, LAMBDA m : m.address = addr)]

\* Reservoir sampling, on the set of its outcomes: the reservoirs with member m
\* in one of the places, or in none.
ReplaceSome(rs, size, m) ==
    rs \cup {[r EXCEPT ![j] = m] : r \in rs, j \in 1 .. size}

\* The reservoir of k members holds the first k, then every later one may replace
\* one of them.
cluster_member_set_random_members(members, k) ==
    LET ms   == members.set
        size == IF Len(ms) > k THEN k ELSE Len(ms)
    IN  FoldLeft(LAMBDA rs, i : ReplaceSome(rs, size, ms[i]), {SubSeq(ms, 1, size)},
                 [i \in 1 .. Len(ms) - size |-> size + i])

=============================================================================
