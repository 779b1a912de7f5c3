--------------------------- MODULE FoldInduction ---------------------------
(***************************************************************************)
(* Induction over a loop.  The loops of the program are left folds in the  *)
(* modules; to prove something about one, a proof module instantiates this *)
(* module with the body of the loop and its invariant:                     *)
(*                                                                         *)
(*   op(x, a, e)     the accumulator after the loop body has seen e,       *)
(*   Good(x, k, a)   what holds of the accumulator after k elements,       *)
(*                                                                         *)
(* where x is whatever else the two depend on.  Being constants of the     *)
(* module, the operators are replaced by the instance, which spares the    *)
(* provers an instantiation they cannot do.  Loop is FoldLeft of           *)
(* SequencesExt with its definition unfolded.                              *)
(***************************************************************************)
EXTENDS WellFoundedInduction, TLAPS

CONSTANTS op(_, _, _), Good(_, _, _)

\* Every non-empty set of natural numbers has a least element.
LEMMA NatMin ==
    ASSUME NEW S \in SUBSET Nat, S # {}
    PROVE  \E m \in S : \A n \in S : m <= n
<1>1. IsWellFoundedOn(OpToRel(<, Nat), Nat)
  BY NatLessThanWellFounded
<1>2. PICK m \in S : \A n \in S : ~ (<<n, m>> \in OpToRel(<, Nat))
  BY <1>1, WFMin
<1>3. \A n \in S : ~ (n < m)
  BY <1>2 DEF OpToRel
<1> QED
  BY <1>3

\* Induction up to n, with a set in place of a predicate.
LEMMA SetInduction ==
    ASSUME NEW n \in Nat, NEW S,
           0 \in S, \A k \in 0 .. n - 1 : k \in S => k + 1 \in S
    PROVE  \A k \in 0 .. n : k \in S
<1> SUFFICES ASSUME NEW x \in 0 .. n, x \notin S
             PROVE  FALSE
  OBVIOUS
<1> DEFINE Bad == {k \in 0 .. n : k \notin S}
<1>1. Bad \in SUBSET Nat /\ Bad # {}
  OBVIOUS
<1>2. PICK m \in Bad : \A k \in Bad : m <= k
  BY <1>1, NatMin
<1>3. m # 0 /\ m - 1 \in 0 .. n - 1 /\ m - 1 \notin Bad
  BY <1>2
<1> QED
  BY <1>2, <1>3

\* The folds of the community modules take the elements from the last to the
\* first: the largest index is the one to be split off.
Last(s) == CHOOSE x \in s : \A y \in s : x >= y

LEMMA LargestIsLast ==
    ASSUME NEW k \in Nat, NEW s \in SUBSET (1 .. k + 1), k + 1 \in s
    PROVE  Last(s) = k + 1
<1>1. \A y \in s : k + 1 >= y
  OBVIOUS
<1>2. \A x : (x \in s /\ \A y \in s : x >= y) => x = k + 1
  OBVIOUS
<1> QED
  BY <1>1, <1>2 DEF Last

\* The recursive function by which FoldLeft is defined, on the sets of indices.
Iterates(x, base, seq, S, g) ==
    g = [s \in SUBSET S |->
            IF s = {} THEN base ELSE op(x, g[s \ {Last(s)}], seq[Last(s)])]

\* There is such a function.
LEMMA IterationExists ==
    ASSUME NEW x, NEW base, NEW seq, NEW n \in Nat
    PROVE  \E g : Iterates(x, base, seq, 1 .. n, g)
<1> DEFINE S == {k \in 0 .. n : \E g : Iterates(x, base, seq, 1 .. k, g)}
<1>1. 0 \in S
  <2>1. SUBSET (1 .. 0) = {{}}
    OBVIOUS
  <2> DEFINE g == [s \in SUBSET (1 .. 0) |-> base]
  <2>2. \A s \in SUBSET (1 .. 0) :
            g[s] = IF s = {} THEN base ELSE op(x, g[s \ {Last(s)}], seq[Last(s)])
    BY <2>1
  <2>3. Iterates(x, base, seq, 1 .. 0, g)
    BY <2>2 DEF Iterates
  <2> HIDE DEF g
  <2> QED
    BY <2>3
<1>2. ASSUME NEW k \in 0 .. n - 1, k \in S
      PROVE  k + 1 \in S
  <2>1. PICK g : Iterates(x, base, seq, 1 .. k, g)
    BY <1>2
  <2> DEFINE h == [s \in SUBSET (1 .. k + 1) |->
                      IF k + 1 \in s THEN op(x, g[s \ {k + 1}], seq[k + 1])
                      ELSE g[s]]
  <2>2. ASSUME NEW s \in SUBSET (1 .. k + 1)
        PROVE  h[s] = IF s = {} THEN base
                      ELSE op(x, h[s \ {Last(s)}], seq[Last(s)])
    <3>1. CASE k + 1 \in s
      <4>1. Last(s) = k + 1
        BY <3>1, LargestIsLast
      <4>2. s \ {k + 1} \in SUBSET (1 .. k + 1) /\ k + 1 \notin s \ {k + 1}
        OBVIOUS
      <4>3. h[s \ {k + 1}] = g[s \ {k + 1}]
        BY <4>2
      <4> QED
        BY <3>1, <4>1, <4>3
    <3>2. CASE k + 1 \notin s
      <4>1. s \in SUBSET (1 .. k)
        BY <3>2
      <4>2. h[s] = g[s]
        BY <3>2
      <4>3. g[s] = IF s = {} THEN base
                   ELSE op(x, g[s \ {Last(s)}], seq[Last(s)])
        BY <2>1, <4>1 DEF Iterates
      <4>4. s \ {Last(s)} \in SUBSET (1 .. k + 1) /\ k + 1 \notin s \ {Last(s)}
        BY <3>2
      <4>5. h[s \ {Last(s)}] = g[s \ {Last(s)}]
        BY <4>4
      <4> HIDE DEF h
      <4> QED
        BY <4>2, <4>3, <4>5
    <3> QED
      BY <3>1, <3>2
  <2>3. h = [s \in SUBSET (1 .. k + 1) |-> h[s]]
    OBVIOUS
  <2>4. Iterates(x, base, seq, 1 .. k + 1, h)
    <3> HIDE DEF h
    <3> QED
      BY <2>2, <2>3 DEF Iterates
  <2> HIDE DEF h
  <2> QED
    BY <2>4
<1>3. n \in S
  <2> HIDE DEF S
  <2> QED
    BY <1>1, <1>2, SetInduction
<1> QED
  BY <1>3

Loop(x, base, seq) ==
    LET iter == CHOOSE iter :
                    iter = [s \in SUBSET (DOMAIN seq) |->
                               IF s = {} THEN base
                               ELSE op(x, iter[s \ {Last(s)}], seq[Last(s)])]
    IN  iter[DOMAIN seq]

\* What holds before a loop and is kept by its body holds after it.
THEOREM LoopInvariant ==
    ASSUME NEW x, NEW base, NEW seq, NEW n \in Nat, DOMAIN seq = 1 .. n,
           Good(x, 0, base),
           \A k \in 0 .. n - 1 : \A a :
               Good(x, k, a) => Good(x, k + 1, op(x, a, seq[k + 1]))
    PROVE  Good(x, n, Loop(x, base, seq))
<1> DEFINE g == CHOOSE f : Iterates(x, base, seq, 1 .. n, f)
<1>1. Iterates(x, base, seq, 1 .. n, g)
  BY IterationExists
<1>2. Loop(x, base, seq) = g[1 .. n]
  BY DEF Loop, Iterates
<1> DEFINE S == {k \in 0 .. n : Good(x, k, g[1 .. k])}
<1> HIDE DEF g
<1>3. 0 \in S
  <2>1. {} \in SUBSET (1 .. n) /\ 1 .. 0 = {}
    OBVIOUS
  <2>2. g[{}] = base
    BY <1>1, <2>1 DEF Iterates
  <2> QED
    BY <2>1, <2>2
<1>4. ASSUME NEW k \in 0 .. n - 1, k \in S
      PROVE  k + 1 \in S
  <2>1. k \in Nat /\ k + 1 \in 0 .. n /\ Good(x, k, g[1 .. k])
    BY <1>4
  <2>2. 1 .. k + 1 \in SUBSET (1 .. n) /\ k + 1 \in 1 .. k + 1
    BY <2>1
  <2>3. (1 .. k + 1) \ {k + 1} = 1 .. k
    BY <2>1
  <2>4. Last(1 .. k + 1) = k + 1
    BY <2>1, <2>2, LargestIsLast
  <2>5. g[1 .. k + 1] = op(x, g[1 .. k], seq[k + 1])
    BY <1>1, <2>2, <2>3, <2>4 DEF Iterates
  <2> QED
    BY <2>1, <2>5
<1>5. n \in S
  <2>1. n \in 0 .. n
    OBVIOUS
  <2> HIDE DEF S
  <2> QED
    BY <1>3, <1>4, <2>1, SetInduction
<1> QED
  BY <1>2, <1>5

=============================================================================
