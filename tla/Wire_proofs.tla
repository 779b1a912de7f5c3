---------------------------- MODULE Wire_proofs ----------------------------
(***************************************************************************)
(* What is sent is what is read, and what is written stays within its      *)
(* buffer, for every size of buffer and every message.                     *)
(*                                                                         *)
(* The encoders place fields one after the other: Layout says where, as a  *)
(* list of offsets, and MessageFields which.  A message that is accepted   *)
(* ends within the buffer (AcceptedFits), and of its fields only the       *)
(* number shares bytes with what an attempt overwrites (PlacedApart).      *)
(* So a buffer keeps the message through the attempts for all recipients   *)
(* (PatchKeeps) and the decoders get it back from the bytes (DecodesTo).   *)
(* The invariant says that of each envelope; that nobody else is given the *)
(* buffer is what Outbound_proofs says of the queue.                       *)
(***************************************************************************)
EXTENDS Wire, Outbound_proofs, SequenceTheorems

-----------------------------------------------------------------------------
(* Where the fields of a message are placed *)

\* Buffers have a size.
LEMMA MaxSizeIsNat == MESSAGE_MAX_SIZE \in Nat
BY MessageMaxSizeAssumption

PlaceStep(x, p, f) == Place(p, f)

\* The offsets of the first k fields of fs when the first is at offset at, and
\* behind them where the cursor is.
Offsets(fs, at, k, off) ==
    /\ off \in [1 .. k + 1 -> Nat]
    /\ off[1] = at
    /\ \A i \in 1 .. k : off[i + 1] = off[i] + fs[i].width
    /\ \A i \in 1 .. k + 1 : off[i] <= off[k + 1]

\* p has exactly those fields, except for the empty ones, at their offsets.
HasPlaced(fs, off, k, p) ==
    /\ p.next = off[k + 1]
    /\ \A i \in 1 .. k : fs[i].width > 0 => /\ off[i] \in DOMAIN p.placed
                                            /\ p.placed[off[i]] = fs[i]
    /\ \A o \in DOMAIN p.placed : \E i \in 1 .. k : o = off[i] /\ fs[i].width > 0

LaidOut(x, k, p) ==
    \E off : Offsets(x.fields, x.at, k, off) /\ HasPlaced(x.fields, off, k, p)

PlaceLoop == INSTANCE FoldInduction WITH op <- PlaceStep, Good <- LaidOut

\* Placed is such a loop.
LEMMA PlaceIsLoop ==
    ASSUME NEW x, NEW base, NEW seq
    PROVE  FoldLeft(Place, base, seq) = PlaceLoop!Loop(x, base, seq)
BY DEF PlaceStep, PlaceLoop!Loop, PlaceLoop!Last, FoldLeft, MapThenFoldSet, Max

\* One more field.
LEMMA PlaceOne ==
    ASSUME NEW fs, NEW at \in Nat, NEW k \in Nat, fs[k + 1].width \in Nat,
           \A i \in 1 .. k : fs[i].width \in Nat,
           NEW p, NEW off, Offsets(fs, at, k, off), HasPlaced(fs, off, k, p)
    PROVE  \E new : Offsets(fs, at, k + 1, new) /\ HasPlaced(fs, new, k + 1, Place(p, fs[k + 1]))
<1>1. PICK w \in Nat : w = fs[k + 1].width
  OBVIOUS
<1>2. PICK z \in Nat : z = off[k + 1] /\ p.next = z
  BY DEF Offsets, HasPlaced
<1> DEFINE new == [i \in 1 .. (k + 1) + 1 |-> IF i = k + 2 THEN z + w ELSE off[i]]
<1>3. \A i \in 1 .. k + 1 : new[i] = off[i]
  OBVIOUS
<1>4. new[k + 2] = z + w /\ new[(k + 1) + 1] = z + w
  OBVIOUS
<1>5. new \in [1 .. (k + 1) + 1 -> Nat]
  BY DEF Offsets
<1> HIDE DEF new
<1>6. Offsets(fs, at, k + 1, new)
  <2>1. new[1] = at
    BY <1>3 DEF Offsets
  <2>2. ASSUME NEW i \in 1 .. k + 1
        PROVE  new[i + 1] = new[i] + fs[i].width
    <3>1. CASE i = k + 1
      BY <1>1, <1>2, <1>3, <1>4, <3>1
    <3>2. CASE i \in 1 .. k
      <4>1. i + 1 \in 1 .. k + 1 /\ off[i + 1] = off[i] + fs[i].width
        BY <3>2 DEF Offsets
      <4> QED
        BY <1>3, <4>1
    <3> QED
      BY <3>1, <3>2
  <2>3. ASSUME NEW i \in 1 .. (k + 1) + 1
        PROVE  new[i] <= new[(k + 1) + 1]
    <3>1. CASE i = k + 2
      BY <1>4, <1>1, <1>2, <3>1
    <3>2. CASE i \in 1 .. k + 1
      <4>1. off[i] <= z /\ off[i] \in Nat
        BY <1>2, <3>2 DEF Offsets
      <4> QED
        BY <1>1, <1>3, <1>4, <3>2, <4>1
    <3> QED
      BY <3>1, <3>2
  <2> QED
    BY <1>5, <2>1, <2>2, <2>3 DEF Offsets
<1>7. PICK r : r = Place(p, fs[k + 1])
  OBVIOUS
<1>8. r.next = z + w
  BY <1>1, <1>2, <1>7 DEF Place
<1>9. CASE w = 0
  <2>1. r.placed = p.placed
    BY <1>1, <1>7, <1>9 DEF Place
  <2>2. ASSUME NEW i \in 1 .. k + 1, fs[i].width > 0 PROVE i \in 1 .. k
    <3>1. CASE i = k + 1
      <4>1. fs[i].width = 0
        BY <1>1, <1>9, <3>1
      <4> QED
        BY <2>2, <4>1
    <3> QED
      BY <3>1
  <2>3. HasPlaced(fs, new, k + 1, r)
    BY <1>3, <1>4, <1>8, <2>1, <2>2 DEF HasPlaced
  <2> QED
    BY <1>6, <1>7, <2>3
<1>10. CASE w > 0
  <2>1. r.placed = Over(p.placed, [o \in {z} |-> fs[k + 1]])
    BY <1>1, <1>2, <1>7, <1>10 DEF Place
  <2>2. /\ DOMAIN r.placed = DOMAIN p.placed \cup {z}
        /\ \A o \in DOMAIN p.placed : r.placed[o] = p.placed[o]
        /\ z \notin DOMAIN p.placed => r.placed[z] = fs[k + 1]
    BY <2>1 DEF Over
  <2>3. z \notin DOMAIN p.placed
    <3>1. SUFFICES ASSUME NEW i \in 1 .. k, z = off[i], fs[i].width > 0 PROVE FALSE
      BY DEF HasPlaced
    <3>2. /\ off[i] \in Nat /\ off[i + 1] \in Nat /\ off[i + 1] <= z
          /\ off[i + 1] = off[i] + fs[i].width
      BY <1>2 DEF Offsets
    <3> QED
      BY <3>1, <3>2
  <2>4. ASSUME NEW i \in 1 .. k + 1, fs[i].width > 0
        PROVE  new[i] \in DOMAIN r.placed /\ r.placed[new[i]] = fs[i]
    <3>1. CASE i = k + 1
      BY <1>2, <1>3, <2>2, <2>3, <3>1
    <3>2. CASE i \in 1 .. k
      BY <1>3, <2>2, <2>4, <3>2 DEF HasPlaced
    <3> QED
      BY <3>1, <3>2
  <2>5. ASSUME NEW o \in DOMAIN r.placed
        PROVE  \E i \in 1 .. k + 1 : o = new[i] /\ fs[i].width > 0
    <3>1. CASE o = z
      <4>1. k + 1 \in 1 .. k + 1 /\ new[k + 1] = z /\ fs[k + 1].width > 0
        BY <1>1, <1>2, <1>3, <1>10
      <4> QED
        BY <3>1, <4>1
    <3>2. CASE o \in DOMAIN p.placed
      <4>1. PICK i \in 1 .. k : o = off[i] /\ fs[i].width > 0
        BY <3>2 DEF HasPlaced
      <4>2. i \in 1 .. k + 1 /\ new[i] = off[i]
        BY <1>3
      <4> QED
        BY <4>1, <4>2
    <3> QED
      BY <2>2, <3>1, <3>2
  <2>6. HasPlaced(fs, new, k + 1, r)
    BY <1>4, <1>8, <2>4, <2>5 DEF HasPlaced
  <2> QED
    BY <1>6, <1>7, <2>6
<1> QED
  BY <1>1, <1>9, <1>10

\* The fields of a message come one after the other, without a gap.
LEMMA Layout ==
    ASSUME NEW n \in Nat, NEW fs, DOMAIN fs = 1 .. n,
           \A i \in 1 .. n : fs[i].width \in Nat, NEW at \in Nat
    PROVE  \E off : Offsets(fs, at, n, off) /\ HasPlaced(fs, off, n, Placed(fs, at))
<1> DEFINE x    == [fields |-> fs, at |-> at]
           base == [next |-> at, placed |-> <<>>]
<1>1. x.fields = fs /\ x.at = at
  OBVIOUS
<1>2. LaidOut(x, 0, base)
  <2> DEFINE off == [i \in 1 .. 0 + 1 |-> at]
  <2>1. off \in [1 .. 0 + 1 -> Nat] /\ off[1] = at /\ off[0 + 1] = at
    OBVIOUS
  <2>2. 1 .. 0 = {} /\ DOMAIN base.placed = {} /\ base.next = at
    OBVIOUS
  <2> HIDE DEF off, base, x
  <2>3. Offsets(fs, at, 0, off)
    BY <2>1, <2>2 DEF Offsets
  <2>4. HasPlaced(fs, off, 0, base)
    BY <2>1, <2>2 DEF HasPlaced
  <2> QED
    BY <1>1, <2>3, <2>4 DEF LaidOut
<1> HIDE DEF x, base
<1>3. ASSUME NEW k \in 0 .. n - 1, NEW p, LaidOut(x, k, p)
      PROVE  LaidOut(x, k + 1, PlaceStep(x, p, fs[k + 1]))
  <2>1. PICK off : Offsets(fs, at, k, off) /\ HasPlaced(fs, off, k, p)
    BY <1>1, <1>3 DEF LaidOut
  <2>2. k \in Nat /\ fs[k + 1].width \in Nat /\ \A i \in 1 .. k : fs[i].width \in Nat
    OBVIOUS
  <2>3. \E new : Offsets(fs, at, k + 1, new) /\ HasPlaced(fs, new, k + 1, Place(p, fs[k + 1]))
    BY <2>1, <2>2, PlaceOne
  <2> QED
    BY <1>1, <2>3 DEF LaidOut, PlaceStep
<1>4. LaidOut(x, n, PlaceLoop!Loop(x, base, fs))
  BY <1>2, <1>3, PlaceLoop!LoopInvariant
<1>5. Placed(fs, at) = PlaceLoop!Loop(x, base, fs)
  BY PlaceIsLoop DEF Placed, base
<1> QED
  BY <1>1, <1>4, <1>5 DEF LaidOut

-----------------------------------------------------------------------------
(* The fields of each message *)

\* s is a sequence of n elements.
IsList(s, n) == s = [i \in 1 .. n |-> s[i]]

\* u is the m elements of s followed by the n of t.
IsJoin(u, s, m, t, n) ==
    /\ IsList(u, m + n)
    /\ \A i \in 1 .. m : u[i] = s[i]
    /\ \A i \in 1 .. n : u[m + i] = t[i]

\* What the concatenation of two sequences is.
LEMMA Joined ==
    ASSUME NEW s, NEW t, NEW m \in Nat, NEW n \in Nat, IsList(s, m), IsList(t, n)
    PROVE  IsJoin(s \o t, s, m, t, n)
<1>0. PICK u : u = s \o t
  OBVIOUS
<1> DEFINE S == {s[i] : i \in 1 .. m} \cup {t[i] : i \in 1 .. n}
<1>1. s \in [1 .. m -> S] /\ t \in [1 .. n -> S]
  BY DEF IsList
<1>2. s \in Seq(S) /\ t \in Seq(S) /\ Len(s) = m /\ Len(t) = n
  <2> HIDE DEF S
  <2> QED
    BY <1>1
<1> HIDE DEF S
<1>3. /\ u \in Seq(S) /\ Len(u) = m + n
      /\ \A i \in 1 .. m + n : u[i] = IF i <= m THEN s[i] ELSE t[i - m]
  <2>1. /\ u \in Seq(S)
        /\ Len(u) = Len(s) + Len(t)
        /\ \A i \in 1 .. Len(s) + Len(t) : u[i] = IF i <= Len(s) THEN s[i] ELSE t[i - Len(s)]
    BY <1>0, <1>2, ConcatProperties, Zenon
  <2> QED
    BY <1>2, <2>1
<1>4. u = [i \in 1 .. Len(u) |-> u[i]]
  <2>1. u \in [1 .. Len(u) -> S]
    BY <1>3, LenProperties
  <2> QED
    BY <2>1
<1>5. \A i \in 1 .. m : u[i] = s[i]
  BY <1>3
<1>6. \A i \in 1 .. n : u[m + i] = t[i]
  <2>1. SUFFICES ASSUME NEW i \in 1 .. n PROVE u[m + i] = t[i]
    OBVIOUS
  <2>2. m + i \in 1 .. m + n /\ ~ (m + i <= m) /\ (m + i) - m = i
    OBVIOUS
  <2> QED
    BY <1>3, <2>2
<1> QED
  BY <1>0, <1>3, <1>4, <1>5, <1>6 DEF IsList, IsJoin

\* Member m, and record r of a clock, from field i on.
MemberAt(fs, i, m) ==
    /\ fs[i] = Field(2, PROTOCOL_VERSION)
    /\ fs[i + 1] = Field(4, m.uid)
    /\ fs[i + 2] = Field(4, AddressLen[m.address])
    /\ fs[i + 3] = Field(AddressLen[m.address], m.address)

RecordAt(fs, i, r) ==
    /\ fs[i] = Field(4, r.sequence_number)
    /\ fs[i + 1] = Field(8, r.member_id)

HasWidths(fs, n) == \A i \in 1 .. n : fs[i].width \in Nat

\* The fields that cluster_member_encode writes, ...
LEMMA MemberFields ==
    ASSUME NEW m \in Member, NEW s, s = cluster_member_encode(m)
    PROVE  IsList(s, 4) /\ MemberAt(s, 1, m) /\ HasWidths(s, 4)
<1>1. AddressLen[m.address] \in Nat
  BY AddressLenAssumption DEF Member
<1>2. IsList(s, 4) /\ MemberAt(s, 1, m)
  BY DEF IsList, MemberAt, cluster_member_encode
<1> QED
  BY <1>1, <1>2 DEF HasWidths, MemberAt, Field

\* ... and those of vector_clock_record_encode.
LEMMA RecordFields ==
    ASSUME NEW r, NEW s, s = vector_clock_record_encode(r)
    PROVE  IsList(s, 2) /\ RecordAt(s, 1, r) /\ HasWidths(s, 2)
<1>1. IsList(s, 2) /\ RecordAt(s, 1, r)
  BY DEF IsList, RecordAt, vector_clock_record_encode
<1> QED
  BY <1>1 DEF HasWidths, RecordAt, Field

\* The loop of message_member_list_encode.
MembersStep(x, fs, m) == fs \o cluster_member_encode(m)

MembersWritten(x, k, fs) ==
    /\ IsList(fs, 1 + 4 * k) /\ HasWidths(fs, 1 + 4 * k)
    /\ fs[1] = Field(2, Len(x))
    /\ \A i \in 1 .. k : MemberAt(fs, 4 * i - 2, x[i])

MembersLoop == INSTANCE FoldInduction WITH op <- MembersStep, Good <- MembersWritten

\* The fold in message_member_list_encode is this loop.
LEMMA MembersIsLoop ==
    ASSUME NEW x, NEW base, NEW seq
    PROVE  FoldLeft(LAMBDA fs, m : fs \o cluster_member_encode(m), base, seq)
             = MembersLoop!Loop(x, base, seq)
BY DEF MembersStep, MembersLoop!Loop, MembersLoop!Last, FoldLeft, MapThenFoldSet, Max

\* message_member_list_encode writes four fields for each member.
LEMMA MembersEncoded ==
    ASSUME NEW ms \in Seq(Member), NEW n \in Nat, n = Len(ms)
    PROVE  MembersWritten(ms, n, FoldLeft(LAMBDA fs, m : fs \o cluster_member_encode(m),
                                          <<Field(2, Len(ms))>>, ms))
<1> DEFINE base == <<Field(2, Len(ms))>>
<1>1. DOMAIN ms = 1 .. n
  OBVIOUS
<1>2. MembersWritten(ms, 0, base)
  <2>1. IsList(base, 1 + 4 * 0) /\ base[1] = Field(2, Len(ms)) /\ 1 .. 0 = {}
    BY DEF IsList
  <2>2. HasWidths(base, 1 + 4 * 0)
    BY <2>1 DEF HasWidths, Field
  <2> HIDE DEF base
  <2> QED
    BY <2>1, <2>2 DEF MembersWritten
<1> HIDE DEF base
<1>3. ASSUME NEW k \in 0 .. n - 1, NEW fs, MembersWritten(ms, k, fs)
      PROVE  MembersWritten(ms, k + 1, MembersStep(ms, fs, ms[k + 1]))
  <2>1. PICK s : s = cluster_member_encode(ms[k + 1])
    OBVIOUS
  <2>2. PICK u : u = fs \o s
    OBVIOUS
  <2>3. k \in Nat /\ 1 + 4 * k \in Nat /\ 4 \in Nat /\ ms[k + 1] \in Member
        /\ (1 + 4 * k) + 4 = 1 + 4 * (k + 1)
    BY <1>1
  <2>4. IsList(s, 4) /\ MemberAt(s, 1, ms[k + 1]) /\ HasWidths(s, 4)
    BY <2>1, <2>3, MemberFields
  <2>5. IsList(fs, 1 + 4 * k) /\ HasWidths(fs, 1 + 4 * k)
    BY <1>3 DEF MembersWritten
  <2>6. /\ IsList(u, 1 + 4 * (k + 1))
        /\ \A i \in 1 .. 1 + 4 * k : u[i] = fs[i]
        /\ \A i \in 1 .. 4 : u[(1 + 4 * k) + i] = s[i]
    <3>1. PICK l \in Nat : l = 1 + 4 * k
      BY <2>3
    <3>2. IsList(fs, l)
      BY <2>5, <3>1
    <3>3. PICK w \in Nat : w = 4
      OBVIOUS
    <3>4. IsList(s, w)
      BY <2>4, <3>3
    <3>5. IsJoin(u, fs, l, s, w)
      BY <2>2, <3>2, <3>4, Joined
    <3>6. l + w = 1 + 4 * (k + 1)
      BY <2>3, <3>1, <3>3
    <3> QED
      BY <3>1, <3>3, <3>5, <3>6 DEF IsJoin
  <2>7. HasWidths(u, 1 + 4 * (k + 1))
    <3>1. SUFFICES ASSUME NEW i \in 1 .. 1 + 4 * (k + 1) PROVE u[i].width \in Nat
      BY DEF HasWidths
    <3>2. CASE i \in 1 .. 1 + 4 * k
      BY <2>5, <2>6, <3>2 DEF HasWidths
    <3>3. CASE i - (1 + 4 * k) \in 1 .. 4
      <4>1. PICK j \in 1 .. 4 : i = (1 + 4 * k) + j
        BY <2>3, <3>3
      <4> QED
        BY <2>4, <2>6, <4>1 DEF HasWidths
    <3> QED
      BY <2>3, <3>2, <3>3
  <2>8. u[1] = Field(2, Len(ms))
    <3>1. fs[1] = Field(2, Len(ms))
      BY <1>3 DEF MembersWritten
    <3>2. 1 \in 1 .. 1 + 4 * k
      BY <2>3
    <3>3. u[1] = fs[1]
      BY <2>6, <3>2
    <3> QED
      BY <3>1, <3>3
  <2>9. ASSUME NEW i \in 1 .. k + 1
        PROVE  MemberAt(u, 4 * i - 2, ms[i])
    <3>1. CASE i = k + 1
      <4>1. /\ u[4 * i - 2] = s[1] /\ u[(4 * i - 2) + 1] = s[1 + 1]
            /\ u[(4 * i - 2) + 2] = s[1 + 2] /\ u[(4 * i - 2) + 3] = s[1 + 3]
        <5>1. /\ 4 * i - 2 = (1 + 4 * k) + 1 /\ (4 * i - 2) + 1 = (1 + 4 * k) + 2
              /\ (4 * i - 2) + 2 = (1 + 4 * k) + 3 /\ (4 * i - 2) + 3 = (1 + 4 * k) + 4
          BY <2>3, <3>1
        <5> QED
          BY <2>6, <5>1
      <4> QED
        BY <2>4, <3>1, <4>1 DEF MemberAt
    <3>2. CASE i \in 1 .. k
      <4>1. /\ 4 * i - 2 \in 1 .. 1 + 4 * k /\ (4 * i - 2) + 1 \in 1 .. 1 + 4 * k
            /\ (4 * i - 2) + 2 \in 1 .. 1 + 4 * k /\ (4 * i - 2) + 3 \in 1 .. 1 + 4 * k
        BY <2>3, <3>2
      <4>2. MemberAt(fs, 4 * i - 2, ms[i])
        BY <1>3, <3>2 DEF MembersWritten
      <4> QED
        BY <2>6, <4>1, <4>2 DEF MemberAt
    <3> QED
      BY <2>3, <3>1, <3>2
  <2> QED
    BY <2>1, <2>2, <2>6, <2>7, <2>8, <2>9 DEF MembersWritten, MembersStep
<1>4. MembersWritten(ms, n, MembersLoop!Loop(ms, base, ms))
  BY <1>1, <1>2, <1>3, MembersLoop!LoopInvariant
<1> QED
  BY <1>4, MembersIsLoop DEF base

\* The loop of vector_clock_encode.
RecordsStep(x, fs, r) == fs \o vector_clock_record_encode(r)

RecordsWritten(x, k, fs) ==
    /\ IsList(fs, 1 + 2 * k) /\ HasWidths(fs, 1 + 2 * k)
    /\ fs[1] = Field(2, Len(x))
    /\ \A i \in 1 .. k : RecordAt(fs, 2 * i, x[i])

RecordsLoop == INSTANCE FoldInduction WITH op <- RecordsStep, Good <- RecordsWritten

\* The fold in vector_clock_encode is this loop.
LEMMA RecordsIsLoop ==
    ASSUME NEW x, NEW base, NEW seq
    PROVE  FoldLeft(LAMBDA fs, r : fs \o vector_clock_record_encode(r), base, seq)
             = RecordsLoop!Loop(x, base, seq)
BY DEF RecordsStep, RecordsLoop!Loop, RecordsLoop!Last, FoldLeft, MapThenFoldSet, Max

\* vector_clock_encode writes two fields for each record.
LEMMA RecordsEncoded ==
    ASSUME NEW R, NEW rs \in Seq(R), NEW n \in Nat, n = Len(rs)
    PROVE  RecordsWritten(rs, n, vector_clock_encode(rs))
<1> DEFINE base == <<Field(2, Len(rs))>>
<1>1. DOMAIN rs = 1 .. n
  OBVIOUS
<1>2. RecordsWritten(rs, 0, base)
  <2>1. IsList(base, 1 + 2 * 0) /\ base[1] = Field(2, Len(rs)) /\ 1 .. 0 = {}
    BY DEF IsList
  <2>2. HasWidths(base, 1 + 2 * 0)
    BY <2>1 DEF HasWidths, Field
  <2> HIDE DEF base
  <2> QED
    BY <2>1, <2>2 DEF RecordsWritten
<1> HIDE DEF base
<1>3. ASSUME NEW k \in 0 .. n - 1, NEW fs, RecordsWritten(rs, k, fs)
      PROVE  RecordsWritten(rs, k + 1, RecordsStep(rs, fs, rs[k + 1]))
  <2>1. PICK s : s = vector_clock_record_encode(rs[k + 1])
    OBVIOUS
  <2>2. PICK u : u = fs \o s
    OBVIOUS
  <2>3. k \in Nat /\ 1 + 2 * k \in Nat /\ 2 \in Nat
        /\ (1 + 2 * k) + 2 = 1 + 2 * (k + 1)
    BY <1>1
  <2>4. IsList(s, 2) /\ RecordAt(s, 1, rs[k + 1]) /\ HasWidths(s, 2)
    BY <2>1, RecordFields
  <2>5. IsList(fs, 1 + 2 * k) /\ HasWidths(fs, 1 + 2 * k)
    BY <1>3 DEF RecordsWritten
  <2>6. /\ IsList(u, 1 + 2 * (k + 1))
        /\ \A i \in 1 .. 1 + 2 * k : u[i] = fs[i]
        /\ \A i \in 1 .. 2 : u[(1 + 2 * k) + i] = s[i]
    <3>1. PICK l \in Nat : l = 1 + 2 * k
      BY <2>3
    <3>2. IsList(fs, l)
      BY <2>5, <3>1
    <3>3. PICK w \in Nat : w = 2
      OBVIOUS
    <3>4. IsList(s, w)
      BY <2>4, <3>3
    <3>5. IsJoin(u, fs, l, s, w)
      BY <2>2, <3>2, <3>4, Joined
    <3>6. l + w = 1 + 2 * (k + 1)
      BY <2>3, <3>1, <3>3
    <3> QED
      BY <3>1, <3>3, <3>5, <3>6 DEF IsJoin
  <2>7. HasWidths(u, 1 + 2 * (k + 1))
    <3>1. SUFFICES ASSUME NEW i \in 1 .. 1 + 2 * (k + 1) PROVE u[i].width \in Nat
      BY DEF HasWidths
    <3>2. CASE i \in 1 .. 1 + 2 * k
      BY <2>5, <2>6, <3>2 DEF HasWidths
    <3>3. CASE i - (1 + 2 * k) \in 1 .. 2
      <4>1. PICK j \in 1 .. 2 : i = (1 + 2 * k) + j
        BY <2>3, <3>3
      <4> QED
        BY <2>4, <2>6, <4>1 DEF HasWidths
    <3> QED
      BY <2>3, <3>2, <3>3
  <2>8. u[1] = Field(2, Len(rs))
    <3>1. fs[1] = Field(2, Len(rs))
      BY <1>3 DEF RecordsWritten
    <3>2. 1 \in 1 .. 1 + 2 * k
      BY <2>3
    <3>3. u[1] = fs[1]
      BY <2>6, <3>2
    <3> QED
      BY <3>1, <3>3
  <2>9. ASSUME NEW i \in 1 .. k + 1
        PROVE  RecordAt(u, 2 * i, rs[i])
    <3>1. CASE i = k + 1
      <4>1. 2 * i = (1 + 2 * k) + 1 /\ 2 * i + 1 = (1 + 2 * k) + 2
        BY <2>3, <3>1
      <4>2. u[2 * i] = s[1] /\ u[2 * i + 1] = s[1 + 1]
        BY <2>6, <4>1
      <4> QED
        BY <2>4, <3>1, <4>2 DEF RecordAt
    <3>2. CASE i \in 1 .. k
      <4>1. 2 * i \in 1 .. 1 + 2 * k /\ 2 * i + 1 \in 1 .. 1 + 2 * k
        BY <2>3, <3>2
      <4>2. RecordAt(fs, 2 * i, rs[i])
        BY <1>3, <3>2 DEF RecordsWritten
      <4> QED
        BY <2>6, <4>1, <4>2 DEF RecordAt
    <3> QED
      BY <2>3, <3>1, <3>2
  <2> QED
    BY <2>1, <2>2, <2>6, <2>7, <2>8, <2>9 DEF RecordsWritten, RecordsStep
<1>4. RecordsWritten(rs, n, RecordsLoop!Loop(rs, base, rs))
  BY <1>1, <1>2, <1>3, RecordsLoop!LoopInvariant
<1> QED
  BY <1>4, RecordsIsLoop DEF base, vector_clock_encode

\* The first four fields are the header, ...
HeaderAt(fs, type) ==
    /\ fs[1] = Field(5, PROTOCOL_ID) /\ fs[2] = Field(1, type)
    /\ fs[3] = Field(2, 0) /\ fs[4] = Field(4, 0)

\* ... behind which the fields of each type stand.
ContentsAt(fs, n, msg) ==
    /\ msg.type = "HELLO" => n = 8 /\ MemberAt(fs, 5, msg.this_member)
    /\ msg.type = "WELCOME" => /\ n = 9 /\ fs[5] = Field(4, msg.hello_sequence_num)
                               /\ MemberAt(fs, 6, msg.this_member)
    /\ msg.type = "MEMBER_LIST" =>
          /\ n = 5 + 4 * Len(msg.members) /\ fs[5] = Field(2, Len(msg.members))
          /\ \A i \in 1 .. Len(msg.members) : MemberAt(fs, 4 * i + 2, msg.members[i])
    /\ msg.type = "DATA" =>
          LET size == DataSize[msg.record.data]
          IN  /\ n = 8 /\ RecordAt(fs, 5, msg.record)
              /\ fs[7] = Field(2, size) /\ fs[8] = Field(size, msg.record.data)
    /\ msg.type = "ACK" => n = 5 /\ fs[5] = Field(4, msg.ack_sequence_num)
    /\ msg.type = "STATUS" =>
          /\ n = 5 + 2 * Len(msg.records) /\ fs[5] = Field(2, Len(msg.records))
          /\ \A i \in 1 .. Len(msg.records) : RecordAt(fs, 2 * i + 4, msg.records[i])

FieldsOf(fs, n, msg) ==
    IsList(fs, n) /\ HasWidths(fs, n) /\ HeaderAt(fs, msg.type) /\ ContentsAt(fs, n, msg)

\* A member, a record and the header stay what they are when the header is put in
\* front of the contents.
LEMMA MemberBehind ==
    ASSUME NEW fs, NEW h, NEW s, NEW n \in Nat, IsJoin(fs, h, 4, s, n),
           NEW i \in 1 .. n - 3, NEW m, MemberAt(s, i, m)
    PROVE  MemberAt(fs, 4 + i, m)
<1>1. /\ fs[4 + i] = s[i] /\ fs[(4 + i) + 1] = s[i + 1]
      /\ fs[(4 + i) + 2] = s[i + 2] /\ fs[(4 + i) + 3] = s[i + 3]
  <2>1. i \in 1 .. n /\ i + 1 \in 1 .. n /\ i + 2 \in 1 .. n /\ i + 3 \in 1 .. n
    OBVIOUS
  <2>2. /\ (4 + i) + 1 = 4 + (i + 1) /\ (4 + i) + 2 = 4 + (i + 2)
        /\ (4 + i) + 3 = 4 + (i + 3)
    OBVIOUS
  <2> QED
    BY <2>1, <2>2 DEF IsJoin
<1> QED
  BY <1>1 DEF MemberAt

LEMMA RecordBehind ==
    ASSUME NEW fs, NEW h, NEW s, NEW n \in Nat, IsJoin(fs, h, 4, s, n),
           NEW i \in 1 .. n - 1, NEW r, RecordAt(s, i, r)
    PROVE  RecordAt(fs, 4 + i, r)
<1>1. fs[4 + i] = s[i] /\ fs[(4 + i) + 1] = s[i + 1]
  <2>1. i \in 1 .. n /\ i + 1 \in 1 .. n /\ (4 + i) + 1 = 4 + (i + 1)
    OBVIOUS
  <2> QED
    BY <2>1 DEF IsJoin
<1> QED
  BY <1>1 DEF RecordAt

LEMMA HeaderStays ==
    ASSUME NEW fs, NEW h, NEW s, NEW n \in Nat, IsJoin(fs, h, 4, s, n),
           NEW type, HeaderAt(h, type)
    PROVE  HeaderAt(fs, type)
<1>1. fs[1] = h[1] /\ fs[2] = h[2] /\ fs[3] = h[3] /\ fs[4] = h[4]
  BY DEF IsJoin
<1> QED
  BY <1>1 DEF HeaderAt

\* The header in front of the n fields s that an encoder writes.
IsBehind(fs, h, s, n, type) ==
    /\ IsJoin(fs, h, 4, s, n) /\ IsList(fs, 4 + n) /\ HasWidths(fs, 4 + n)
    /\ HeaderAt(fs, type)
    /\ \A i \in 1 .. n : fs[4 + i] = s[i]

LEMMA BehindHeader ==
    ASSUME NEW type, NEW n \in Nat, NEW s, IsList(s, n), HasWidths(s, n),
           NEW h, h = message_header_encode(type)
    PROVE  IsBehind(h \o s, h, s, n, type)
<1>0. PICK fs : fs = h \o s
  OBVIOUS
<1>1. IsList(h, 4) /\ HasWidths(h, 4) /\ HeaderAt(h, type)
  BY DEF message_header_encode, IsList, HasWidths, HeaderAt, Field
<1>2. IsJoin(fs, h, 4, s, n)
  <2>1. PICK w \in Nat : w = 4
    OBVIOUS
  <2>2. IsList(h, w)
    BY <1>1, <2>1
  <2>3. IsJoin(fs, h, w, s, n)
    BY <1>0, <2>2, Joined
  <2> QED
    BY <2>1, <2>3
<1>3. HasWidths(fs, 4 + n)
  <2>1. SUFFICES ASSUME NEW i \in 1 .. 4 + n PROVE fs[i].width \in Nat
    BY DEF HasWidths
  <2>2. CASE i \in 1 .. 4
    BY <1>1, <1>2, <2>2 DEF HasWidths, IsJoin
  <2>3. CASE i - 4 \in 1 .. n
    <3>1. PICK j \in 1 .. n : i = 4 + j
      BY <2>3
    <3> QED
      BY <1>2, <3>1 DEF HasWidths, IsJoin
  <2>4. i \in 1 .. 4 \/ i - 4 \in 1 .. n
    OBVIOUS
  <2> QED
    BY <2>2, <2>3, <2>4
<1>4. HeaderAt(fs, type)
  BY <1>1, <1>2, HeaderStays
<1> QED
  BY <1>0, <1>2, <1>3, <1>4 DEF IsBehind, IsJoin

\* The records of a message by its type.
LEMMA MessageFieldTypes ==
    ASSUME NEW msg \in ProtocolMessage
    PROVE  /\ msg.type \in {"HELLO", "WELCOME", "MEMBER_LIST", "DATA", "ACK", "STATUS"}
           /\ msg.type = "HELLO" => msg = Hello(msg.this_member) /\ msg.this_member \in Member
           /\ msg.type = "WELCOME" => /\ msg = Welcome(msg.hello_sequence_num, msg.this_member)
                                      /\ msg.hello_sequence_num \in Nat
                                      /\ msg.this_member \in Member
           /\ msg.type = "MEMBER_LIST" =>
                 msg = MemberList(msg.members) /\ msg.members \in Seq(Member)
           /\ msg.type = "DATA" =>
                 /\ msg = Data(msg.record)
                 /\ msg.record \in [member_id : Nat, sequence_number : Nat,
                                    data : DOMAIN DataSize]
           /\ msg.type = "ACK" => msg = Ack(msg.ack_sequence_num) /\ msg.ack_sequence_num \in Nat
           /\ msg.type = "STATUS" =>
                 /\ msg = [type |-> "STATUS", records |-> msg.records]
                 /\ msg.records \in Seq(Version)
<1>1. CASE msg \in [type : {"HELLO"}, this_member : Member]
  BY <1>1 DEF Hello
<1>2. CASE msg \in [type : {"WELCOME"}, hello_sequence_num : Nat, this_member : Member]
  BY <1>2 DEF Welcome
<1>3. CASE msg \in [type : {"MEMBER_LIST"}, members : Seq(Member)]
  BY <1>3 DEF MemberList
<1>4. CASE msg \in [type : {"DATA"}, record : [member_id : Nat, sequence_number : Nat,
                                              data : DOMAIN DataSize]]
  BY <1>4 DEF Data
<1>5. CASE msg \in [type : {"ACK"}, ack_sequence_num : Nat]
  BY <1>5 DEF Ack
<1>6. CASE msg \in [type : {"STATUS"},
                    records : Seq(Version)]
  BY <1>6
<1> QED
  BY <1>1, <1>2, <1>3, <1>4, <1>5, <1>6 DEF ProtocolMessage


\* The fields of every message, as the decoders expect them.
LEMMA MessageFields ==
    ASSUME NEW msg \in ProtocolMessage
    PROVE  \E n \in Nat : n >= 4 /\ FieldsOf(Fields(msg), n, msg)
<1> DEFINE s  == gossip_encode_message(msg).fields
           h  == message_header_encode(msg.type)
           fs == Fields(msg)
<1>0. fs = h \o s /\ h = message_header_encode(msg.type)
  BY DEF Fields
<1> HIDE DEF fs, h, s
<1>1. ASSUME NEW n \in Nat, IsList(s, n), HasWidths(s, n)
      PROVE  /\ IsJoin(fs, h, 4, s, n) /\ IsList(fs, 4 + n) /\ HasWidths(fs, 4 + n)
             /\ HeaderAt(fs, msg.type)
             /\ \A i \in 1 .. n : fs[4 + i] = s[i]
  <2>1. IsBehind(fs, h, s, n, msg.type)
    BY <1>0, <1>1, BehindHeader
  <2> QED
    BY <2>1 DEF IsBehind
<1>2. ASSUME NEW n \in Nat, IsList(s, n), HasWidths(s, n), ContentsAt(fs, 4 + n, msg)
      PROVE  \E k \in Nat : k >= 4 /\ FieldsOf(fs, k, msg)
  <2>1. 4 + n \in Nat /\ 4 + n >= 4
    OBVIOUS
  <2> QED
    BY <1>1, <1>2, <2>1 DEF FieldsOf
<1>3. CASE msg.type = "HELLO"
  <2>1. msg.this_member \in Member
    BY <1>3, MessageFieldTypes
  <2>2. s = cluster_member_encode(msg.this_member)
    BY <1>3 DEF s, gossip_encode_message, message_hello_encode
  <2>3. IsList(s, 4) /\ MemberAt(s, 1, msg.this_member) /\ HasWidths(s, 4)
    BY <2>1, <2>2, MemberFields
  <2>4. PICK n \in Nat : n = 4
    OBVIOUS
  <2>5. IsJoin(fs, h, 4, s, n)
    BY <1>1, <2>3, <2>4
  <2>6. MemberAt(fs, 4 + 1, msg.this_member)
    BY <2>3, <2>4, <2>5, MemberBehind
  <2>7. ContentsAt(fs, 4 + n, msg)
    BY <1>3, <2>4, <2>6 DEF ContentsAt
  <2> QED
    BY <1>2, <2>3, <2>4, <2>7 DEF fs
<1>4. CASE msg.type = "WELCOME"
  <2>1. msg.this_member \in Member
    BY <1>4, MessageFieldTypes
  <2>2. PICK b : b = cluster_member_encode(msg.this_member)
    OBVIOUS
  <2>3. PICK a : a = <<Field(4, msg.hello_sequence_num)>>
    OBVIOUS
  <2>4. s = a \o b
    BY <1>4, <2>2, <2>3 DEF s, gossip_encode_message, message_welcome_encode
  <2>5. IsList(b, 4) /\ MemberAt(b, 1, msg.this_member) /\ HasWidths(b, 4)
    BY <2>1, <2>2, MemberFields
  <2>6. IsList(a, 1) /\ a[1] = Field(4, msg.hello_sequence_num) /\ a[1].width = 4
    BY <2>3 DEF IsList, Field
  <2>7. PICK k \in Nat, l \in Nat : k = 1 /\ l = 4
    OBVIOUS
  <2>8. IsJoin(s, a, k, b, l)
    BY <2>4, <2>5, <2>6, <2>7, Joined
  <2>9. IsList(s, 5) /\ s[1] = a[1] /\ \A i \in 1 .. 4 : s[1 + i] = b[i]
    BY <2>7, <2>8 DEF IsJoin
  <2>10. HasWidths(s, 5)
    <3>1. SUFFICES ASSUME NEW i \in 1 .. 5 PROVE s[i].width \in Nat
      BY DEF HasWidths
    <3>2. CASE i = 1
      BY <2>6, <2>9, <3>2
    <3>3. CASE i # 1
      <4>1. PICK j \in 1 .. 4 : i = 1 + j
        BY <3>3
      <4> QED
        BY <2>5, <2>9, <4>1 DEF HasWidths
    <3> QED
      BY <3>2, <3>3
  <2>11. MemberAt(s, 2, msg.this_member)
    <3>1. s[2] = b[1] /\ s[2 + 1] = b[1 + 1] /\ s[2 + 2] = b[1 + 2] /\ s[2 + 3] = b[1 + 3]
      BY <2>9
    <3> QED
      BY <2>5, <3>1 DEF MemberAt
  <2>12. PICK n \in Nat : n = 5
    OBVIOUS
  <2>13. IsJoin(fs, h, 4, s, n) /\ \A i \in 1 .. n : fs[4 + i] = s[i]
    BY <1>1, <2>9, <2>10, <2>12
  <2>14. MemberAt(fs, 4 + 2, msg.this_member)
    BY <2>11, <2>12, <2>13, MemberBehind
  <2>15. fs[5] = s[1]
    BY <2>12, <2>13
  <2>16. ContentsAt(fs, 4 + n, msg)
    BY <1>4, <2>6, <2>9, <2>12, <2>14, <2>15 DEF ContentsAt
  <2> QED
    BY <1>2, <2>9, <2>10, <2>12, <2>16 DEF fs
<1>5. CASE msg.type = "MEMBER_LIST"
  <2>1. PICK ms \in Seq(Member) : ms = msg.members
    BY <1>5, MessageFieldTypes
  <2>2. PICK L \in Nat : L = Len(ms)
    OBVIOUS
  <2>3. s = FoldLeft(LAMBDA fl, m : fl \o cluster_member_encode(m),
                     <<Field(2, Len(ms))>>, ms)
    BY <1>5, <2>1 DEF s, gossip_encode_message, message_member_list_encode
  <2>4. MembersWritten(ms, L, s)
    BY <2>2, <2>3, MembersEncoded
  <2>5. PICK n \in Nat : n = 1 + 4 * L
    OBVIOUS
  <2>6. IsList(s, n) /\ HasWidths(s, n) /\ s[1] = Field(2, L)
        /\ \A i \in 1 .. L : MemberAt(s, 4 * i - 2, ms[i])
    BY <2>2, <2>4, <2>5 DEF MembersWritten
  <2>7. IsJoin(fs, h, 4, s, n) /\ \A i \in 1 .. n : fs[4 + i] = s[i]
    BY <1>1, <2>6
  <2>8. ASSUME NEW i \in 1 .. L
        PROVE  MemberAt(fs, 4 * i + 2, ms[i])
    <3>1. PICK j : j = 4 * i - 2
      OBVIOUS
    <3>2. j \in 1 .. n - 3 /\ 4 + j = 4 * i + 2
      BY <2>5, <3>1
    <3>3. MemberAt(fs, 4 + j, ms[i])
      BY <2>6, <2>7, <3>1, <3>2, MemberBehind
    <3> QED
      BY <3>2, <3>3
  <2>9. fs[5] = Field(2, L) /\ 4 + n = 5 + 4 * L
    <3>1. 1 \in 1 .. n /\ 4 + 1 = 5 /\ 4 + n = 5 + 4 * L
      BY <2>5
    <3>2. fs[4 + 1] = s[1]
      BY <2>7, <3>1
    <3> QED
      BY <2>6, <3>1, <3>2
  <2>10. ContentsAt(fs, 4 + n, msg)
    BY <1>5, <2>1, <2>2, <2>8, <2>9 DEF ContentsAt
  <2> QED
    BY <1>2, <2>6, <2>10 DEF fs
<1>6. CASE msg.type = "DATA"
  <2>1. PICK size \in Nat : size = DataSize[msg.record.data]
    BY <1>6, MessageFieldTypes, DataSizeAssumption
  <2>2. PICK a : a = vector_clock_record_encode(msg.record)
    OBVIOUS
  <2>3. PICK b : b = <<Field(2, size), Field(size, msg.record.data)>>
    OBVIOUS
  <2>4. s = a \o b
    BY <1>6, <2>1, <2>2, <2>3 DEF s, gossip_encode_message, message_data_encode
  <2>5. IsList(a, 2) /\ RecordAt(a, 1, msg.record) /\ HasWidths(a, 2)
    BY <2>2, RecordFields
  <2>6. IsList(b, 2) /\ b[1] = Field(2, size) /\ b[2] = Field(size, msg.record.data)
    BY <2>3 DEF IsList
  <2>7. PICK k \in Nat : k = 2
    OBVIOUS
  <2>8. IsJoin(s, a, k, b, k)
    BY <2>4, <2>5, <2>6, <2>7, Joined
  <2>9. IsList(s, 4) /\ s[1] = a[1] /\ s[2] = a[2] /\ s[3] = b[1] /\ s[4] = b[2]
    <3>1. k + k = 4 /\ k + 1 = 3 /\ k + 2 = 4 /\ 1 \in 1 .. k /\ 2 \in 1 .. k
      BY <2>7
    <3> QED
      BY <2>8, <3>1 DEF IsJoin
  <2>10. HasWidths(s, 4)
    <3>1. s[1].width \in Nat /\ s[2].width \in Nat
      BY <2>5, <2>9 DEF HasWidths
    <3>2. s[3].width \in Nat /\ s[4].width \in Nat
      BY <2>6, <2>9 DEF Field
    <3> QED
      BY <3>1, <3>2 DEF HasWidths
  <2>11. RecordAt(s, 1, msg.record)
    BY <2>5, <2>9 DEF RecordAt
  <2>12. PICK n \in Nat : n = 4
    OBVIOUS
  <2>13. IsJoin(fs, h, 4, s, n) /\ \A i \in 1 .. n : fs[4 + i] = s[i]
    BY <1>1, <2>9, <2>10, <2>12
  <2>14. RecordAt(fs, 4 + 1, msg.record)
    BY <2>11, <2>12, <2>13, RecordBehind
  <2>15. fs[7] = s[3] /\ fs[8] = s[4]
    <3>1. 3 \in 1 .. n /\ 4 \in 1 .. n /\ 4 + 3 = 7 /\ 4 + 4 = 8
      BY <2>12
    <3> QED
      BY <2>13, <3>1
  <2>16. ContentsAt(fs, 4 + n, msg)
    BY <1>6, <2>1, <2>6, <2>9, <2>12, <2>14, <2>15 DEF ContentsAt
  <2> QED
    BY <1>2, <2>9, <2>10, <2>12, <2>16 DEF fs
<1>7. CASE msg.type = "ACK"
  <2>1. s = <<Field(4, msg.ack_sequence_num)>>
    BY <1>7 DEF s, gossip_encode_message, message_ack_encode
  <2>2. IsList(s, 1) /\ s[1] = Field(4, msg.ack_sequence_num)
    BY <2>1 DEF IsList
  <2>3. HasWidths(s, 1)
    BY <2>2 DEF HasWidths, Field
  <2>4. PICK n \in Nat : n = 1
    OBVIOUS
  <2>5. \A i \in 1 .. n : fs[4 + i] = s[i]
    BY <1>1, <2>2, <2>3, <2>4
  <2>6. fs[5] = s[1]
    BY <2>4, <2>5
  <2>7. ContentsAt(fs, 4 + n, msg)
    BY <1>7, <2>2, <2>4, <2>6 DEF ContentsAt
  <2> QED
    BY <1>2, <2>2, <2>3, <2>4, <2>7 DEF fs
<1>8. CASE msg.type = "STATUS"
  <2>1. PICK rs \in Seq(Version) : rs = msg.records
    BY <1>8, MessageFieldTypes
  <2>2. PICK L \in Nat : L = Len(rs)
    OBVIOUS
  <2>3. s = vector_clock_encode(rs)
    BY <1>8, <2>1 DEF s, gossip_encode_message, message_status_encode
  <2>4. RecordsWritten(rs, L, s)
    BY <2>2, <2>3, RecordsEncoded
  <2>5. PICK n \in Nat : n = 1 + 2 * L
    OBVIOUS
  <2>6. IsList(s, n) /\ HasWidths(s, n) /\ s[1] = Field(2, L)
        /\ \A i \in 1 .. L : RecordAt(s, 2 * i, rs[i])
    BY <2>2, <2>4, <2>5 DEF RecordsWritten
  <2>7. IsJoin(fs, h, 4, s, n) /\ \A i \in 1 .. n : fs[4 + i] = s[i]
    BY <1>1, <2>6
  <2>8. ASSUME NEW i \in 1 .. L
        PROVE  RecordAt(fs, 2 * i + 4, rs[i])
    <3>1. PICK j : j = 2 * i
      OBVIOUS
    <3>2. j \in 1 .. n - 1 /\ 4 + j = 2 * i + 4
      BY <2>5, <3>1
    <3>3. RecordAt(fs, 4 + j, rs[i])
      BY <2>6, <2>7, <3>1, <3>2, RecordBehind
    <3> QED
      BY <3>2, <3>3
  <2>9. fs[5] = Field(2, L) /\ 4 + n = 5 + 2 * L
    <3>1. 1 \in 1 .. n /\ 4 + 1 = 5 /\ 4 + n = 5 + 2 * L
      BY <2>5
    <3>2. fs[4 + 1] = s[1]
      BY <2>7, <3>1
    <3> QED
      BY <2>6, <3>1, <3>2
  <2>10. ContentsAt(fs, 4 + n, msg)
    BY <1>8, <2>1, <2>2, <2>8, <2>9 DEF ContentsAt
  <2> QED
    BY <1>2, <2>6, <2>10 DEF fs
<1> QED
  BY <1>3, <1>4, <1>5, <1>6, <1>7, <1>8, MessageFieldTypes

-----------------------------------------------------------------------------
(* The offsets of the fields of each message *)

\* Where the next field begins.
LEMMA NextOffset ==
    ASSUME NEW fs, NEW at \in Nat, NEW n \in Nat, NEW off, Offsets(fs, at, n, off),
           NEW i \in 1 .. n, NEW w, NEW v, fs[i] = Field(w, v)
    PROVE  off[i + 1] = off[i] + w /\ off[i] \in Nat
BY DEF Offsets, Field

\* The contents begin at byte 12, ...
LEMMA HeaderOffsets ==
    ASSUME NEW fs, NEW n \in Nat, n >= 4, NEW off, Offsets(fs, 0, n, off),
           NEW type, HeaderAt(fs, type)
    PROVE  off[1] = 0 /\ off[2] = 5 /\ off[3] = 6 /\ off[4] = 8 /\ off[5] = 12
<1>1. off[1] = 0 /\ 1 \in 1 .. n /\ 2 \in 1 .. n /\ 3 \in 1 .. n /\ 4 \in 1 .. n
  BY DEF Offsets
<1>2. off[1 + 1] = off[1] + 5
  BY <1>1, NextOffset DEF HeaderAt
<1>3. off[2 + 1] = off[2] + 1
  BY <1>1, NextOffset DEF HeaderAt
<1>4. off[3 + 1] = off[3] + 2
  BY <1>1, NextOffset DEF HeaderAt
<1>5. off[4 + 1] = off[4] + 4
  BY <1>1, NextOffset DEF HeaderAt
<1> QED
  BY <1>1, <1>2, <1>3, <1>4, <1>5

\* ... a member takes ten bytes and its address, ...
LEMMA MemberOffsets ==
    ASSUME NEW fs, NEW at \in Nat, NEW n \in Nat, NEW off, Offsets(fs, at, n, off),
           NEW i \in 1 .. n - 3, NEW m \in Member, MemberAt(fs, i, m)
    PROVE  /\ off[i] \in Nat /\ AddressLen[m.address] \in 16 .. 128
           /\ off[i + 1] = off[i] + 2 /\ off[i + 2] = off[i] + 6
           /\ off[i + 3] = off[i] + 10
           /\ off[i + 4] = off[i] + 10 + AddressLen[m.address]
<1>1. PICK len \in 16 .. 128 : len = AddressLen[m.address]
  BY AddressLenAssumption DEF Member
<1>2. /\ i \in 1 .. n /\ i + 1 \in 1 .. n /\ i + 2 \in 1 .. n /\ i + 3 \in 1 .. n
      /\ (i + 1) + 1 = i + 2 /\ (i + 2) + 1 = i + 3 /\ (i + 3) + 1 = i + 4
  OBVIOUS
<1>3. off[i + 1] = off[i] + 2 /\ off[i] \in Nat
  BY <1>2, NextOffset DEF MemberAt
<1>4. off[(i + 1) + 1] = off[i + 1] + 4
  BY <1>2, NextOffset DEF MemberAt
<1>5. off[(i + 2) + 1] = off[i + 2] + 4
  BY <1>2, NextOffset DEF MemberAt
<1>6. off[(i + 3) + 1] = off[i + 3] + len
  BY <1>1, <1>2, NextOffset DEF MemberAt
<1> QED
  BY <1>1, <1>2, <1>3, <1>4, <1>5, <1>6

\* ... and a record of a clock twelve.
LEMMA RecordOffsets ==
    ASSUME NEW fs, NEW at \in Nat, NEW n \in Nat, NEW off, Offsets(fs, at, n, off),
           NEW i \in 1 .. n - 1, NEW r, RecordAt(fs, i, r)
    PROVE  off[i] \in Nat /\ off[i + 1] = off[i] + 4 /\ off[i + 2] = off[i] + 12
<1>1. i \in 1 .. n /\ i + 1 \in 1 .. n /\ (i + 1) + 1 = i + 2
  OBVIOUS
<1>2. off[i + 1] = off[i] + 4 /\ off[i] \in Nat
  BY <1>1, NextOffset DEF RecordAt
<1>3. off[(i + 1) + 1] = off[i + 1] + 8
  BY <1>1, NextOffset DEF RecordAt
<1> QED
  BY <1>1, <1>2, <1>3

\* All members of the list ms, or all records of the clock rs, from the sixth
\* field on.
MembersAt(fs, ms, L) == \A i \in 1 .. L : MemberAt(fs, 4 * i + 2, ms[i])
RecordsAt(fs, rs, L) == \A i \in 1 .. L : RecordAt(fs, 2 * i + 4, rs[i])

\* The arithmetic of the next lemma.
LEMMA NextMember ==
    ASSUME NEW k \in Nat, NEW a \in Nat, a <= 14 + 138 * k, NEW len \in 16 .. 128
    PROVE  a + 10 + len \in Nat /\ a + 10 + len <= 14 + 138 * (k + 1)
OBVIOUS

\* The k-th member of a list begins no further than the largest members allow, ...
ListBegins(off, L) ==
    \A k \in 0 .. L : off[4 * k + 6] \in Nat /\ off[4 * k + 6] <= 14 + 138 * k

\* The next member of a list begins behind the address of the one before.
LEMMA ListOffsets ==
    ASSUME NEW ms \in Seq(Member), NEW fs, NEW L \in Nat, L = Len(ms),
           NEW off, Offsets(fs, 0, 5 + 4 * L, off), off[6] = 14,
           MembersAt(fs, ms, L)
    PROVE  ListBegins(off, L)
<1> DEFINE S == {k \in 0 .. L : off[4 * k + 6] \in Nat /\ off[4 * k + 6] <= 14 + 138 * k}
<1>1. 0 \in S
  OBVIOUS
<1>2. ASSUME NEW k \in 0 .. L - 1, k \in S
      PROVE  k + 1 \in S
  <2>1. PICK n \in Nat : n = 5 + 4 * L
    OBVIOUS
  <2>2. PICK i : i = 4 * k + 6
    OBVIOUS
  <2>3. i \in 1 .. n - 3 /\ i + 4 = 4 * (k + 1) + 6 /\ i = 4 * (k + 1) + 2
        /\ k + 1 \in 1 .. L
    BY <2>1, <2>2
  <2>4. PICK m \in Member : m = ms[k + 1]
    BY <2>3
  <2>5. PICK len \in 16 .. 128 : len = AddressLen[m.address]
    BY AddressLenAssumption DEF Member
  <2>6. MemberAt(fs, i, m) /\ Offsets(fs, 0, n, off)
    <3>1. \A j \in 1 .. L : MemberAt(fs, 4 * j + 2, ms[j])
      BY DEF MembersAt
    <3> QED
      BY <2>1, <2>3, <2>4, <3>1
  <2>7. off[i + 4] = off[i] + 10 + len
    BY <2>3, <2>5, <2>6, MemberOffsets
  <2>8. off[i] \in Nat /\ off[i] <= 14 + 138 * k
    BY <1>2, <2>2
  <2>9. off[i + 4] \in Nat /\ off[i + 4] <= 14 + 138 * (k + 1)
    <3>1. PICK a \in Nat : a = off[i] /\ a <= 14 + 138 * k
      BY <2>8
    <3>2. off[i + 4] = a + 10 + len
      BY <2>7, <3>1
    <3>3. a + 10 + len \in Nat /\ a + 10 + len <= 14 + 138 * (k + 1)
      <4>1. k \in Nat
        OBVIOUS
      <4> QED
        BY <3>1, <4>1, NextMember, Zenon
    <3> QED
      BY <3>2, <3>3
  <2> QED
    BY <2>3, <2>9
<1> HIDE DEF S
<1>3. \A k \in 0 .. L : k \in S
  BY <1>1, <1>2, PlaceLoop!SetInduction
<1> QED
  BY <1>3 DEF S, ListBegins

\* ... and the k-th record of a clock where the decoder looks for it.
LEMMA ClockOffsets ==
    ASSUME NEW rs \in Seq(Version),
           NEW fs, NEW L \in Nat, L = Len(rs),
           NEW off, Offsets(fs, 0, 5 + 2 * L, off), off[6] = 14,
           RecordsAt(fs, rs, L)
    PROVE  \A k \in 0 .. L : off[2 * k + 6] = 14 + 12 * k
<1> DEFINE S == {k \in 0 .. L : off[2 * k + 6] = 14 + 12 * k}
<1>1. 0 \in S
  OBVIOUS
<1>2. ASSUME NEW k \in 0 .. L - 1, k \in S
      PROVE  k + 1 \in S
  <2>1. PICK n \in Nat : n = 5 + 2 * L
    OBVIOUS
  <2>2. PICK i : i = 2 * k + 6
    OBVIOUS
  <2>3. i \in 1 .. n - 1 /\ i + 2 = 2 * (k + 1) + 6 /\ i = 2 * (k + 1) + 4
        /\ k + 1 \in 1 .. L
    BY <2>1, <2>2
  <2>4. RecordAt(fs, i, rs[k + 1])
    BY <2>3 DEF RecordsAt
  <2>5. off[i + 2] = off[i] + 12
    BY <2>1, <2>3, <2>4, RecordOffsets
  <2>6. off[i] = 14 + 12 * k
    BY <1>2, <2>2
  <2> QED
    BY <2>3, <2>5, <2>6
<1> HIDE DEF S
<1>3. \A k \in 0 .. L : k \in S
  BY <1>1, <1>2, PlaceLoop!SetInduction
<1> QED
  BY <1>3 DEF S

\* A message that its encoder accepts ends within the buffer.
LEMMA AcceptedFits ==
    ASSUME NEW msg \in ProtocolMessage, Encodable(msg), NEW n \in Nat, n >= 4,
           NEW fs, FieldsOf(fs, n, msg), NEW off, Offsets(fs, 0, n, off)
    PROVE  off[n + 1] \in Nat /\ off[n + 1] <= MESSAGE_MAX_SIZE
<1>0. HeaderAt(fs, msg.type) /\ ContentsAt(fs, n, msg)
  BY DEF FieldsOf
<1>1. off[5] = 12 /\ off[n + 1] \in Nat /\ MESSAGE_MAX_SIZE \in Nat
  <2>1. off[5] = 12
    BY <1>0, HeaderOffsets
  <2>2. n + 1 \in 1 .. n + 1 /\ off \in [1 .. n + 1 -> Nat]
    BY DEF Offsets
  <2> QED
    BY <2>1, <2>2, MaxSizeIsNat
<1>2. CASE msg.type = "HELLO"
  <2>1. n = 8 /\ MemberAt(fs, 5, msg.this_member) /\ msg.this_member \in Member
    BY <1>0, <1>2, MessageFieldTypes DEF ContentsAt
  <2>2. PICK len \in 16 .. 128 : len = AddressLen[msg.this_member.address]
    BY <2>1, MemberOffsets
  <2>3. off[5 + 4] = off[5] + 10 + len
    BY <2>1, <2>2, MemberOffsets
  <2>4. 12 + (16 + len) <= MESSAGE_MAX_SIZE
    BY <1>2, <2>2 DEF Encodable, gossip_encode_message, message_hello_encode,
                      message_header_size, cluster_member_struct_size
  <2> QED
    BY <1>1, <2>1, <2>3, <2>4
<1>3. CASE msg.type = "WELCOME"
  <2>1. /\ n = 9 /\ MemberAt(fs, 6, msg.this_member) /\ msg.this_member \in Member
        /\ fs[5] = Field(4, msg.hello_sequence_num)
    BY <1>0, <1>3, MessageFieldTypes DEF ContentsAt
  <2>2. PICK len \in 16 .. 128 : len = AddressLen[msg.this_member.address]
    BY <2>1, MemberOffsets
  <2>3. off[6 + 4] = off[6] + 10 + len
    BY <2>1, <2>2, MemberOffsets
  <2>4. off[5 + 1] = off[5] + 4
    BY <2>1, NextOffset
  <2>5. 12 + (4 + 16 + len) <= MESSAGE_MAX_SIZE
    BY <1>3, <2>2 DEF Encodable, gossip_encode_message, message_welcome_encode,
                      message_header_size, cluster_member_struct_size
  <2> QED
    BY <1>1, <2>1, <2>3, <2>4, <2>5
<1>4. CASE msg.type = "MEMBER_LIST"
  <2>1. PICK ms \in Seq(Member) : ms = msg.members
    BY <1>4, MessageFieldTypes
  <2>2. PICK L \in Nat : L = Len(ms)
    OBVIOUS
  <2>3. n = 5 + 4 * L /\ fs[5] = Field(2, L) /\ MembersAt(fs, ms, L)
    BY <1>0, <1>4, <2>1, <2>2 DEF ContentsAt, MembersAt
  <2>4. off[5 + 1] = off[5] + 2
    BY <2>3, NextOffset
  <2>5. off[6] = 14
    BY <1>1, <2>4
  <2>6. ListBegins(off, L)
    <3>1. Offsets(fs, 0, 5 + 4 * L, off)
      BY <2>3
    <3> QED
      BY <2>2, <2>3, <2>5, <3>1, ListOffsets
  <2>7. off[4 * L + 6] <= 14 + 138 * L /\ 4 * L + 6 = n + 1
    BY <2>3, <2>6 DEF ListBegins
  <2>8. 12 + (2 + L * 138) <= MESSAGE_MAX_SIZE
    <3>1. CLUSTER_MEMBER_SIZE = 138
      BY DEF CLUSTER_MEMBER_SIZE
    <3>2. 12 + (2 + L * CLUSTER_MEMBER_SIZE) <= MESSAGE_MAX_SIZE
      BY <1>4, <2>1, <2>2 DEF Encodable, gossip_encode_message,
                              message_member_list_encode, message_header_size
    <3> QED
      BY <3>1, <3>2
  <2> QED
    BY <1>1, <2>7, <2>8
<1>5. CASE msg.type = "DATA"
  <2>1. PICK size \in Nat : size = DataSize[msg.record.data]
    BY <1>5, MessageFieldTypes, DataSizeAssumption
  <2>2. /\ n = 8 /\ RecordAt(fs, 5, msg.record) /\ fs[7] = Field(2, size)
        /\ fs[8] = Field(size, msg.record.data)
    BY <1>0, <1>5, <2>1 DEF ContentsAt
  <2>3. off[5 + 2] = off[5] + 12
    BY <2>2, RecordOffsets
  <2>4. off[7 + 1] = off[7] + 2
    BY <2>2, NextOffset
  <2>5. off[8 + 1] = off[8] + size
    BY <2>2, NextOffset
  <2>6. 12 + (12 + 2 + size) <= MESSAGE_MAX_SIZE
    BY <1>5, <2>1 DEF Encodable, gossip_encode_message, message_data_encode,
                      message_header_size, VECTOR_RECORD_SIZE
  <2> QED
    BY <1>1, <2>2, <2>3, <2>4, <2>5, <2>6
<1>6. CASE msg.type = "ACK"
  <2>1. n = 5 /\ fs[5] = Field(4, msg.ack_sequence_num)
    BY <1>0, <1>6 DEF ContentsAt
  <2>2. off[5 + 1] = off[5] + 4
    BY <2>1, NextOffset
  <2>3. 12 + 4 <= MESSAGE_MAX_SIZE
    BY <1>6 DEF Encodable, gossip_encode_message, message_ack_encode, message_header_size
  <2> QED
    BY <1>1, <2>1, <2>2, <2>3
<1>7. CASE msg.type = "STATUS"
  <2>1. PICK rs \in Seq(Version) : rs = msg.records
    BY <1>7, MessageFieldTypes
  <2>2. PICK L \in Nat : L = Len(rs)
    OBVIOUS
  <2>3. /\ n = 5 + 2 * L /\ fs[5] = Field(2, L)
        /\ RecordsAt(fs, rs, L)
    BY <1>0, <1>7, <2>1, <2>2 DEF ContentsAt, RecordsAt
  <2>4. off[5 + 1] = off[5] + 2
    BY <2>3, NextOffset
  <2>5. off[6] = 14
    BY <1>1, <2>4
  <2>6. \A k \in 0 .. L : off[2 * k + 6] = 14 + 12 * k
    <3>1. Offsets(fs, 0, 5 + 2 * L, off)
      BY <2>3
    <3>2. RecordsAt(fs, rs, L)
      BY <2>3
    <3> QED
      BY <2>2, <2>5, <3>1, <3>2, ClockOffsets
  <2>7. off[2 * L + 6] = 14 + 12 * L /\ 2 * L + 6 = n + 1
    BY <2>3, <2>6
  <2>8. 12 + (2 + L * 12) <= MESSAGE_MAX_SIZE
    BY <1>7, <2>1, <2>2 DEF Encodable, gossip_encode_message, message_status_encode,
                            message_header_size, VECTOR_RECORD_SIZE
  <2> QED
    BY <1>1, <2>7, <2>8
<1> QED
  BY <1>2, <1>3, <1>4, <1>5, <1>6, <1>7, MessageFieldTypes

-----------------------------------------------------------------------------
(* What is in the buffers *)

\* Every message has its fields at some offsets.
LEMMA MessageLayout ==
    ASSUME NEW msg \in ProtocolMessage
    PROVE  \E n \in Nat : \E off :
             /\ n >= 4
             /\ FieldsOf(Fields(msg), n, msg)
             /\ Offsets(Fields(msg), 0, n, off)
             /\ HasPlaced(Fields(msg), off, n, Placed(Fields(msg), 0))
<1>1. PICK fs : fs = Fields(msg)
  OBVIOUS
<1>2. PICK n \in Nat : n >= 4 /\ FieldsOf(fs, n, msg)
  BY <1>1, MessageFields
<1>3. DOMAIN fs = 1 .. n /\ \A i \in 1 .. n : fs[i].width \in Nat
  BY <1>2 DEF FieldsOf, IsList, HasWidths
<1>4. PICK at \in Nat : at = 0
  OBVIOUS
<1>5. PICK off : Offsets(fs, at, n, off) /\ HasPlaced(fs, off, n, Placed(fs, at))
  BY <1>3, Layout
<1> QED
  BY <1>1, <1>2, <1>4, <1>5

\* No field after the header begins before byte 12.
LEMMA BehindByte12 ==
    ASSUME NEW fs, NEW n \in Nat, n >= 4, NEW off, Offsets(fs, 0, n, off),
           NEW type, HeaderAt(fs, type), HasWidths(fs, n)
    PROVE  \A i \in 5 .. n : off[i] >= 12
<1>1. off[5] = 12
  BY HeaderOffsets
<1>2. /\ off \in [1 .. n + 1 -> Nat]
      /\ \A i \in 1 .. n : off[i + 1] = off[i] + fs[i].width
  BY DEF Offsets
<1> DEFINE S == {k \in 0 .. n - 5 : off[k + 5] >= 12}
<1>3. CASE n >= 5
  <2>1. n - 5 \in Nat
    BY <1>3
  <2>2. 0 \in S
    BY <1>1, <2>1
  <2>3. ASSUME NEW k \in 0 .. (n - 5) - 1, k \in S
        PROVE  k + 1 \in S
    <3>1. PICK i \in 1 .. n : i = k + 5
      BY <2>1
    <3>2. off[i + 1] = off[i] + fs[i].width /\ off[i] \in Nat /\ fs[i].width \in Nat
      BY <1>2 DEF HasWidths
    <3>3. off[i] >= 12
      BY <2>3, <3>1
    <3>4. off[i + 1] >= 12
      BY <3>2, <3>3
    <3>5. (k + 1) + 5 = i + 1 /\ k + 1 \in 0 .. n - 5
      BY <2>1, <3>1
    <3> QED
      BY <3>4, <3>5
  <2> HIDE DEF S
  <2>4. \A k \in 0 .. n - 5 : k \in S
    BY <2>1, <2>2, <2>3, PlaceLoop!SetInduction
  <2>5. ASSUME NEW i \in 5 .. n PROVE off[i] >= 12
    <3>1. PICK k \in 0 .. n - 5 : i = k + 5
      OBVIOUS
    <3> QED
      BY <2>4, <3>1 DEF S
  <2> QED
    BY <2>5
<1> QED
  BY <1>3

\* The fields of a message are within its bytes, and only the last of the header
\* has anything to do with bytes 8 to 11.
LEMMA PlacedApart ==
    ASSUME NEW msg \in ProtocolMessage, NEW p, p = Placed(Fields(msg), 0)
    PROVE  /\ p.next \in Nat /\ p.next >= 12 /\ 8 \in DOMAIN p.placed
           /\ Encodable(msg) => p.next <= MESSAGE_MAX_SIZE
           /\ \A o \in DOMAIN p.placed :
                 /\ o \in Nat /\ p.placed[o].width \in Nat \ {0}
                 /\ o + p.placed[o].width <= p.next
                 /\ o # 8 => o + p.placed[o].width <= 8 \/ o >= 12
<1>1. PICK fs : fs = Fields(msg)
  OBVIOUS
<1> DEFINE Laid(n, off) == /\ n >= 4 /\ FieldsOf(fs, n, msg) /\ Offsets(fs, 0, n, off)
                           /\ HasPlaced(fs, off, n, p)
<1>1a. PICK n \in Nat : \E off : Laid(n, off)
  BY <1>1, MessageLayout
<1>2. PICK off : Laid(n, off)
  BY <1>1a
<1>3. HeaderAt(fs, msg.type) /\ HasWidths(fs, n)
  BY <1>2 DEF FieldsOf
<1>4. off[1] = 0 /\ off[2] = 5 /\ off[3] = 6 /\ off[4] = 8 /\ off[5] = 12
  BY <1>2, <1>3, HeaderOffsets
<1>5. /\ off \in [1 .. n + 1 -> Nat]
      /\ \A i \in 1 .. n : off[i + 1] = off[i] + fs[i].width
      /\ \A i \in 1 .. n + 1 : off[i] <= off[n + 1]
  BY <1>2 DEF Offsets
<1>6. p.next = off[n + 1]
  BY <1>2 DEF HasPlaced
<1>7. p.next \in Nat /\ p.next >= 12
  <2>1. 5 \in 1 .. n + 1 /\ n + 1 \in 1 .. n + 1
    BY <1>2
  <2> QED
    BY <1>4, <1>5, <1>6, <2>1
<1>8. 8 \in DOMAIN p.placed
  <2>1. 4 \in 1 .. n /\ fs[4].width > 0
    BY <1>2, <1>3 DEF HeaderAt, Field
  <2> QED
    BY <1>2, <1>4, <2>1 DEF HasPlaced
<1>9. Encodable(msg) => p.next <= MESSAGE_MAX_SIZE
  BY <1>2, <1>6, AcceptedFits
<1>10. \A i \in 5 .. n : off[i] >= 12
  BY <1>2, <1>3, BehindByte12
<1>11. ASSUME NEW o \in DOMAIN p.placed
       PROVE  /\ o \in Nat /\ p.placed[o].width \in Nat \ {0}
              /\ o + p.placed[o].width <= p.next
              /\ o # 8 => o + p.placed[o].width <= 8 \/ o >= 12
  <2>1. PICK i \in 1 .. n : o = off[i] /\ fs[i].width > 0 /\ p.placed[o] = fs[i]
    BY <1>2 DEF HasPlaced
  <2>2. PICK w \in Nat : w = fs[i].width /\ w > 0
    BY <1>3, <2>1 DEF HasWidths
  <2>3. o \in Nat /\ off[i + 1] = o + w /\ off[i + 1] <= p.next
    <3>1. i \in 1 .. n + 1 /\ i + 1 \in 1 .. n + 1
      OBVIOUS
    <3> QED
      BY <1>5, <1>6, <2>1, <2>2, <3>1
  <2>4. o # 8 => o + w <= 8 \/ o >= 12
    <3>1. CASE i = 1
      BY <1>4, <2>3, <3>1
    <3>2. CASE i = 2
      BY <1>4, <2>3, <3>2
    <3>3. CASE i = 3
      BY <1>4, <2>3, <3>3
    <3>4. CASE i = 4
      BY <1>4, <2>1, <3>4
    <3>5. CASE i \in 5 .. n
      BY <1>10, <2>1, <3>5
    <3> QED
      BY <3>1, <3>2, <3>3, <3>4, <3>5
  <2> QED
    BY <2>1, <2>2, <2>3, <2>4
<1> QED
  BY <1>7, <1>8, <1>9, <1>11

\* A buffer as the program writes it: no field reaches past its end.
Sound(buffer) ==
    \A o \in DOMAIN buffer : /\ o \in Nat /\ buffer[o].width \in Nat
                             /\ o + buffer[o].width <= MESSAGE_MAX_SIZE

\* The bytes of msg are in the buffer, with some sequence number.
HoldsMessage(buffer, msg) ==
    /\ Encodable(msg)
    /\ LET placed == Placed(Fields(msg), 0).placed
       IN  \A o \in DOMAIN placed : o # 8 => o \in DOMAIN buffer /\ buffer[o] = placed[o]

\* Writing fields into a buffer.
LEMMA WriteKeeps ==
    ASSUME NEW buffer, NEW fs, NEW at, NEW p, p = Placed(fs, at),
           NEW new, new = Write(buffer, fs, at)
    PROVE  /\ \A o \in DOMAIN p.placed : o \in DOMAIN new /\ new[o] = p.placed[o]
           /\ \A o \in DOMAIN new : o \notin DOMAIN p.placed =>
                 o \in DOMAIN buffer /\ new[o] = buffer[o]
           /\ \A o \in DOMAIN buffer :
                 o \notin DOMAIN p.placed /\ (o + buffer[o].width <= at \/ o >= p.next)
                   => o \in DOMAIN new /\ new[o] = buffer[o]
<1> DEFINE kept == {o \in DOMAIN buffer : o + buffer[o].width <= at \/ o >= p.next}
           rest == Restrict(buffer, kept)
<1>1. new = Over(p.placed, rest)
  BY DEF Write
<1>2. DOMAIN rest = kept /\ \A o \in kept : rest[o] = buffer[o]
  BY DEF Restrict
<1>3. kept \subseteq DOMAIN buffer
  OBVIOUS
<1>4. \A o \in DOMAIN buffer : o + buffer[o].width <= at \/ o >= p.next => o \in kept
  OBVIOUS
<1> HIDE DEF rest, kept
<1>5. /\ DOMAIN new = DOMAIN p.placed \cup kept
      /\ \A o \in DOMAIN p.placed : new[o] = p.placed[o]
      /\ \A o \in kept : o \notin DOMAIN p.placed => new[o] = rest[o]
  BY <1>1, <1>2 DEF Over
<1> QED
  BY <1>2, <1>3, <1>4, <1>5

\* gossip_encode_message writes the message into its buffer, whatever was there.
LEMMA EncodeIntoBuffer ==
    ASSUME NEW buffer, Sound(buffer), NEW msg \in ProtocolMessage, Encodable(msg),
           NEW new, new = Write(buffer, Fields(msg), 0)
    PROVE  Sound(new) /\ HoldsMessage(new, msg)
<1>1. PICK p : p = Placed(Fields(msg), 0)
  OBVIOUS
<1>2. /\ \A o \in DOMAIN p.placed : o \in DOMAIN new /\ new[o] = p.placed[o]
      /\ \A o \in DOMAIN new : o \notin DOMAIN p.placed =>
            o \in DOMAIN buffer /\ new[o] = buffer[o]
  BY <1>1, WriteKeeps
<1>3. p.next \in Nat /\ p.next <= MESSAGE_MAX_SIZE /\ MESSAGE_MAX_SIZE \in Nat
  BY <1>1, PlacedApart, MaxSizeIsNat
<1>4. \A o \in DOMAIN p.placed : /\ o \in Nat /\ p.placed[o].width \in Nat
                                 /\ o + p.placed[o].width <= p.next
  BY <1>1, PlacedApart
<1>5. ASSUME NEW o \in DOMAIN new
      PROVE  /\ o \in Nat /\ new[o].width \in Nat
             /\ o + new[o].width <= MESSAGE_MAX_SIZE
  <2>1. CASE o \in DOMAIN p.placed
    BY <1>2, <1>3, <1>4, <2>1
  <2>2. CASE o \notin DOMAIN p.placed
    BY <1>2, <2>2 DEF Sound
  <2> QED
    BY <2>1, <2>2
<1> QED
  BY <1>1, <1>2, <1>5 DEF Sound, HoldsMessage

\* The number of an envelope, as it is placed.
LEMMA NumberPlaced ==
    ASSUME NEW s, NEW p, p = Placed(<<Field(4, s)>>, 8)
    PROVE  p.next = 12 /\ DOMAIN p.placed = {8} /\ p.placed[8] = Field(4, s)
<1>1. PICK fs : fs = <<Field(4, s)>>
  OBVIOUS
<1>2. PICK n \in Nat : n = 1
  OBVIOUS
<1>3. DOMAIN fs = 1 .. n /\ fs[1] = Field(4, s) /\ fs[1].width = 4
  BY <1>1, <1>2 DEF Field
<1>4. \A i \in 1 .. n : fs[i].width \in Nat
  BY <1>2, <1>3
<1>5. PICK at \in Nat : at = 8
  OBVIOUS
<1>6. PICK off : Offsets(fs, at, n, off) /\ HasPlaced(fs, off, n, Placed(fs, at))
  BY <1>3, <1>4, Layout
<1>7. p = Placed(fs, at)
  BY <1>1, <1>5
<1>8. off[1] = 8 /\ off[1 + 1] = off[1] + 4
  BY <1>2, <1>3, <1>5, <1>6 DEF Offsets
<1>9. p.next = 12
  BY <1>2, <1>6, <1>7, <1>8 DEF HasPlaced
<1>10. 8 \in DOMAIN p.placed /\ p.placed[8] = Field(4, s)
  BY <1>2, <1>3, <1>6, <1>7, <1>8 DEF HasPlaced
<1>11. \A o \in DOMAIN p.placed : o = 8
  BY <1>2, <1>6, <1>7, <1>8 DEF HasPlaced
<1> QED
  BY <1>9, <1>10, <1>11

\* Writing the number of an envelope into a buffer changes nothing else of the
\* messages in it.
LEMMA PatchKeeps ==
    ASSUME NEW buffer, NEW e, NEW new, new = Patched(buffer, e),
           NEW msg \in ProtocolMessage, HoldsMessage(buffer, msg)
    PROVE  /\ HoldsMessage(new, msg)
           /\ 8 \in DOMAIN new /\ new[8] = Field(4, e.sequence_num)
           /\ Sound(buffer) => Sound(new)
<1>1. PICK fs : fs = <<Field(4, e.sequence_num)>>
  OBVIOUS
<1>2. PICK q : q = Placed(fs, 8)
  OBVIOUS
<1>3. q.next = 12 /\ DOMAIN q.placed = {8} /\ q.placed[8] = Field(4, e.sequence_num)
  BY <1>1, <1>2, NumberPlaced
<1>4. new = Write(buffer, fs, 8)
  BY <1>1 DEF Patched
<1>5. /\ 8 \in DOMAIN new /\ new[8] = Field(4, e.sequence_num)
      /\ \A o \in DOMAIN new : o # 8 => o \in DOMAIN buffer /\ new[o] = buffer[o]
      /\ \A o \in DOMAIN buffer : o # 8 /\ (o + buffer[o].width <= 8 \/ o >= 12)
            => o \in DOMAIN new /\ new[o] = buffer[o]
  BY <1>2, <1>3, <1>4, WriteKeeps
<1>6. PICK p : p = Placed(Fields(msg), 0)
  OBVIOUS
<1>7. /\ Encodable(msg) /\ p.next \in Nat /\ p.next >= 12 /\ p.next <= MESSAGE_MAX_SIZE
      /\ \A o \in DOMAIN p.placed : o # 8 => o \in DOMAIN buffer /\ buffer[o] = p.placed[o]
      /\ \A o \in DOMAIN p.placed : o # 8 => o + p.placed[o].width <= 8 \/ o >= 12
  BY <1>6, PlacedApart DEF HoldsMessage
<1>8. \A o \in DOMAIN p.placed : o # 8 => o \in DOMAIN new /\ new[o] = p.placed[o]
  BY <1>5, <1>7
<1>9. HoldsMessage(new, msg)
  BY <1>6, <1>7, <1>8 DEF HoldsMessage
<1>10. ASSUME Sound(buffer), NEW o \in DOMAIN new
       PROVE  /\ o \in Nat /\ new[o].width \in Nat
              /\ o + new[o].width <= MESSAGE_MAX_SIZE
  <2>1. CASE o = 8
    <3>1. new[o].width = 4
      BY <1>5, <2>1 DEF Field
    <3>2. 12 <= MESSAGE_MAX_SIZE
      BY <1>7, MaxSizeIsNat
    <3> QED
      BY <2>1, <3>1, <3>2
  <2>2. CASE o # 8
    BY <1>5, <1>10, <2>2 DEF Sound
  <2> QED
    BY <2>1, <2>2
<1> QED
  BY <1>5, <1>9, <1>10 DEF Sound

\* The datagram of msg with number s, as the receiver sees it.
Carried(bytes, msg, s) ==
    LET placed == Placed(Fields(msg), 0).placed
    IN  \A o \in DOMAIN placed :
           /\ o \in DOMAIN bytes
           /\ bytes[o] = IF o = 8 THEN Field(4, s) ELSE placed[o]

\* The bytes that are sent are those of the message, with the number of the
\* envelope.
LEMMA PrefixCarries ==
    ASSUME NEW buffer, NEW msg \in ProtocolMessage, HoldsMessage(buffer, msg), NEW s,
           8 \in DOMAIN buffer, buffer[8] = Field(4, s)
    PROVE  Carried(Prefix(buffer, EncodedSize(msg)), msg, s)
<1>1. PICK p : p = Placed(Fields(msg), 0)
  OBVIOUS
<1>2. /\ p.next \in Nat /\ p.next >= 12
      /\ \A o \in DOMAIN p.placed : o + p.placed[o].width <= p.next
      /\ \A o \in DOMAIN p.placed : o # 8 => o \in DOMAIN buffer /\ buffer[o] = p.placed[o]
  BY <1>1, PlacedApart DEF HoldsMessage
<1> DEFINE keep  == {o \in DOMAIN buffer : o + buffer[o].width <= p.next}
           bytes == Prefix(buffer, p.next)
<1>3. DOMAIN bytes = keep /\ \A o \in keep : bytes[o] = buffer[o]
  BY DEF Prefix, Restrict
<1>4. 8 \in keep
  <2>1. buffer[8].width = 4
    BY DEF Field
  <2> QED
    BY <1>2, <2>1
<1>5. \A o \in DOMAIN p.placed : o # 8 => o \in keep
  BY <1>2
<1> HIDE DEF keep, bytes
<1>6. \A o \in DOMAIN p.placed :
         /\ o \in DOMAIN bytes
         /\ bytes[o] = IF o = 8 THEN Field(4, s) ELSE p.placed[o]
  BY <1>2, <1>3, <1>4, <1>5
<1> QED
  BY <1>1, <1>6 DEF Carried, bytes, EncodedSize

-----------------------------------------------------------------------------
(* What the receiver reads *)

\* The fields of msg are at the offsets off, and bytes is a datagram with them
\* and the number s.
Sent(bytes, msg, s, fs, n, off) ==
    /\ n \in Nat /\ n >= 4
    /\ FieldsOf(fs, n, msg)
    /\ Offsets(fs, 0, n, off)
    /\ HasPlaced(fs, off, n, Placed(Fields(msg), 0))
    /\ Carried(bytes, msg, s)

\* message_header_decode reads what message_header_encode has written, and the
\* number that was written over it.
LEMMA ReadsHeader ==
    ASSUME NEW bytes, NEW msg, NEW s, NEW fs, NEW n, NEW off, Sent(bytes, msg, s, fs, n, off)
    PROVE  /\ ReadAt(bytes, 0, 5) = PROTOCOL_ID
           /\ ReadAt(bytes, 5, 1) = msg.type
           /\ ReadAt(bytes, 8, 4) = s
<1>1. PICK p : p = Placed(Fields(msg), 0)
  OBVIOUS
<1>2. /\ \A o \in DOMAIN p.placed :
            /\ o \in DOMAIN bytes
            /\ bytes[o] = IF o = 8 THEN Field(4, s) ELSE p.placed[o]
      /\ \A i \in 1 .. n : fs[i].width > 0 => /\ off[i] \in DOMAIN p.placed
                                              /\ p.placed[off[i]] = fs[i]
  BY <1>1 DEF Sent, Carried, HasPlaced
<1>3. HeaderAt(fs, msg.type) /\ n \in Nat /\ n >= 4
  BY DEF Sent, FieldsOf
<1>4. off[1] = 0 /\ off[2] = 5 /\ off[4] = 8
  BY <1>3, HeaderOffsets DEF Sent
<1>5. 1 \in 1 .. n /\ 2 \in 1 .. n /\ 4 \in 1 .. n
  BY <1>3
<1>6. /\ fs[1] = Field(5, PROTOCOL_ID) /\ fs[2] = Field(1, msg.type) /\ fs[4] = Field(4, 0)
  BY <1>3 DEF HeaderAt
<1>7. fs[1].width = 5 /\ fs[2].width = 1 /\ fs[4].width = 4
  BY <1>6 DEF Field
<1>8. 0 \in DOMAIN p.placed /\ 5 \in DOMAIN p.placed /\ 8 \in DOMAIN p.placed
  BY <1>2, <1>4, <1>5, <1>7
<1>9. p.placed[0] = fs[1] /\ p.placed[5] = fs[2]
  BY <1>2, <1>4, <1>5, <1>7
<1>10. /\ 0 \in DOMAIN bytes /\ bytes[0] = Field(5, PROTOCOL_ID)
       /\ 5 \in DOMAIN bytes /\ bytes[5] = Field(1, msg.type)
       /\ 8 \in DOMAIN bytes /\ bytes[8] = Field(4, s)
  BY <1>2, <1>6, <1>8, <1>9
<1> QED
  BY <1>10 DEF ReadAt, Field

\* What is read at the offset of a field is its value.
LEMMA Reads ==
    ASSUME NEW bytes, NEW msg, NEW s, NEW fs, NEW n, NEW off, Sent(bytes, msg, s, fs, n, off),
           NEW i \in 5 .. n, NEW w \in Nat \ {0}, NEW v, fs[i] = Field(w, v)
    PROVE  ReadAt(bytes, off[i], w) = v
<1>1. PICK p : p = Placed(Fields(msg), 0)
  OBVIOUS
<1>2. /\ \A o \in DOMAIN p.placed :
            /\ o \in DOMAIN bytes
            /\ bytes[o] = IF o = 8 THEN Field(4, s) ELSE p.placed[o]
      /\ \A j \in 1 .. n : fs[j].width > 0 => /\ off[j] \in DOMAIN p.placed
                                              /\ p.placed[off[j]] = fs[j]
  BY <1>1 DEF Sent, Carried, HasPlaced
<1>3. HeaderAt(fs, msg.type) /\ n \in Nat /\ n >= 4 /\ HasWidths(fs, n)
  BY DEF Sent, FieldsOf
<1>4. off[i] >= 12
  BY <1>3, BehindByte12 DEF Sent
<1>5. i \in 1 .. n /\ fs[i].width = w /\ w > 0
  BY <1>3 DEF Field
<1>6. off[i] \in DOMAIN p.placed /\ p.placed[off[i]] = fs[i]
  BY <1>2, <1>5
<1>7. off[i] # 8
  BY <1>4
<1>8. off[i] \in DOMAIN bytes /\ bytes[off[i]] = Field(w, v)
  BY <1>2, <1>6, <1>7
<1> QED
  BY <1>8 DEF ReadAt, Field

\* cluster_member_decode returns the member that was encoded, ...
LEMMA ReadsMember ==
    ASSUME NEW bytes, NEW msg, NEW s, NEW fs, NEW n, NEW off, Sent(bytes, msg, s, fs, n, off),
           NEW i \in 5 .. n - 3, NEW m \in Member, MemberAt(fs, i, m)
    PROVE  /\ cluster_member_decode(bytes, off[i]) = m
           /\ ReadAt(bytes, off[i] + 6, 4) = AddressLen[m.address]
           /\ off[i + 4] = off[i] + 10 + AddressLen[m.address]
           /\ off[i] \in Nat /\ AddressLen[m.address] \in 16 .. 128
<1>0. n \in Nat /\ n >= 4
  BY DEF Sent
<1>1. PICK len \in 16 .. 128 : len = AddressLen[m.address]
  BY AddressLenAssumption DEF Member
<1>2. PICK zero \in Nat : zero = 0
  OBVIOUS
<1>3. Offsets(fs, zero, n, off) /\ i \in 1 .. n - 3
  BY <1>0, <1>2 DEF Sent
<1>4. /\ off[i] \in Nat
      /\ off[i + 1] = off[i] + 2 /\ off[i + 2] = off[i] + 6
      /\ off[i + 3] = off[i] + 10
      /\ off[i + 4] = off[i] + 10 + len
  BY <1>0, <1>1, <1>3, MemberOffsets
<1>5. i + 1 \in 5 .. n /\ i + 2 \in 5 .. n /\ i + 3 \in 5 .. n
  BY <1>0
<1>6. /\ fs[i + 1] = Field(4, m.uid) /\ fs[i + 2] = Field(4, len)
      /\ fs[i + 3] = Field(len, m.address)
  BY <1>1 DEF MemberAt
<1>7. ReadAt(bytes, off[i + 1], 4) = m.uid
  BY <1>5, <1>6, Reads
<1>8. ReadAt(bytes, off[i + 2], 4) = len
  BY <1>5, <1>6, Reads
<1>9. ReadAt(bytes, off[i + 3], len) = m.address
  BY <1>5, <1>6, Reads
<1>10. cluster_member_decode(bytes, off[i]) = [uid |-> m.uid, address |-> m.address]
  BY <1>4, <1>7, <1>8, <1>9 DEF cluster_member_decode
<1>11. m = [uid |-> m.uid, address |-> m.address]
  BY DEF Member
<1> QED
  BY <1>1, <1>4, <1>8, <1>10, <1>11

\* ... and vector_clock_record_decode the record.
LEMMA ReadsRecord ==
    ASSUME NEW bytes, NEW msg, NEW s, NEW fs, NEW n, NEW off, Sent(bytes, msg, s, fs, n, off),
           NEW i \in 5 .. n - 1, NEW r, RecordAt(fs, i, r)
    PROVE  /\ ReadAt(bytes, off[i], 4) = r.sequence_number
           /\ ReadAt(bytes, off[i] + 4, 8) = r.member_id
<1>0. n \in Nat /\ n >= 4
  BY DEF Sent
<1>1. PICK zero \in Nat : zero = 0
  OBVIOUS
<1>2. Offsets(fs, zero, n, off) /\ i \in 1 .. n - 1
  BY <1>0, <1>1 DEF Sent
<1>3. off[i] \in Nat /\ off[i + 1] = off[i] + 4
  BY <1>0, <1>2, RecordOffsets
<1>4. i \in 5 .. n /\ i + 1 \in 5 .. n
  BY <1>0
<1>5. fs[i] = Field(4, r.sequence_number) /\ fs[i + 1] = Field(8, r.member_id)
  BY DEF RecordAt
<1>6. ReadAt(bytes, off[i], 4) = r.sequence_number
  BY <1>4, <1>5, Reads
<1>7. ReadAt(bytes, off[i + 1], 8) = r.member_id
  BY <1>4, <1>5, Reads
<1> QED
  BY <1>3, <1>6, <1>7

\* What is known of a datagram of each type at its receiver.
LEMMA SentFacts ==
    ASSUME NEW bytes, NEW msg, NEW s, NEW fs, NEW n, NEW off, Sent(bytes, msg, s, fs, n, off)
    PROVE  /\ n \in Nat /\ n >= 4 /\ ContentsAt(fs, n, msg) /\ Offsets(fs, 0, n, off)
           /\ off[5] = 12
           /\ \A i \in 5 .. n : \A w, v : fs[i] = Field(w, v) => off[i + 1] = off[i] + w
<1>1. n \in Nat /\ n >= 4 /\ ContentsAt(fs, n, msg) /\ HeaderAt(fs, msg.type)
      /\ Offsets(fs, 0, n, off)
  BY DEF Sent, FieldsOf
<1>2. off[5] = 12
  BY <1>1, HeaderOffsets
<1>3. ASSUME NEW i \in 5 .. n, NEW w, NEW v, fs[i] = Field(w, v)
      PROVE  off[i + 1] = off[i] + w
  <2>1. PICK zero \in Nat : zero = 0
    OBVIOUS
  <2>2. i \in 1 .. n /\ Offsets(fs, zero, n, off)
    BY <1>1, <2>1
  <2> QED
    BY <1>1, <1>3, <2>2, NextOffset
<1> QED
  BY <1>1, <1>2, <1>3

\* The decoder accepts the datagram and returns msg.
ReadAs(decoded, msg) == decoded = {msg}

\* What each decoder makes of the datagram of its type.
LEMMA HelloRead ==
    ASSUME NEW msg \in ProtocolMessage, NEW bytes, NEW s, NEW fs, NEW n, NEW off,
           Sent(bytes, msg, s, fs, n, off), msg.type = "HELLO"
    PROVE  ReadAs(message_hello_decode(bytes, off[n + 1]), msg)
<1>1. PICK m \in Member : m = msg.this_member /\ msg = Hello(m)
  BY MessageFieldTypes
<1>2. n = 8 /\ MemberAt(fs, 5, m) /\ off[5] = 12
  BY <1>1, SentFacts DEF ContentsAt
<1>3. PICK i : i = 5
  OBVIOUS
<1>4. i \in 5 .. n - 3 /\ MemberAt(fs, i, m) /\ off[i] = 12
  BY <1>2, <1>3
<1>5. PICK len \in 16 .. 128 : len = AddressLen[m.address]
  BY <1>4, ReadsMember
<1>6. cluster_member_decode(bytes, off[i]) = m /\ off[i + 4] = off[i] + 10 + len
  BY <1>4, <1>5, ReadsMember
<1>7. cluster_member_decode(bytes, 12) = m /\ off[n + 1] = 22 + len
  BY <1>2, <1>3, <1>4, <1>6
<1>8. ~ (22 + len < 12 + 16)
  OBVIOUS
<1> QED
  BY <1>1, <1>7, <1>8 DEF ReadAs, message_hello_decode, message_header_size, cluster_member_struct_size

LEMMA WelcomeRead ==
    ASSUME NEW msg \in ProtocolMessage, NEW bytes, NEW s, NEW fs, NEW n, NEW off,
           Sent(bytes, msg, s, fs, n, off), msg.type = "WELCOME"
    PROVE  ReadAs(message_welcome_decode(bytes, off[n + 1]), msg)
<1>1. PICK m \in Member, h \in Nat : /\ m = msg.this_member /\ h = msg.hello_sequence_num
                                     /\ msg = Welcome(h, m)
  BY MessageFieldTypes
<1>2. n = 9 /\ fs[5] = Field(4, h) /\ MemberAt(fs, 6, m) /\ off[5] = 12
  BY <1>1, SentFacts DEF ContentsAt
<1>3. PICK i : i = 5
  OBVIOUS
<1>4. i \in 5 .. n /\ fs[i] = Field(4, h)
  BY <1>2, <1>3
<1>5. off[i + 1] = off[i] + 4
  BY <1>4, SentFacts
<1>6. ReadAt(bytes, off[i], 4) = h
  BY <1>4, Reads
<1>7. PICK j : j = 6
  OBVIOUS
<1>8. off[i] = 12 /\ off[j] = 16
  BY <1>2, <1>3, <1>5, <1>7
<1>9. j \in 5 .. n - 3 /\ MemberAt(fs, j, m)
  BY <1>2, <1>7
<1>10. PICK len \in 16 .. 128 : len = AddressLen[m.address]
  BY <1>9, ReadsMember
<1>11. cluster_member_decode(bytes, off[j]) = m /\ off[j + 4] = off[j] + 10 + len
  BY <1>9, <1>10, ReadsMember
<1>12. /\ cluster_member_decode(bytes, 16) = m /\ ReadAt(bytes, 12, 4) = h
       /\ off[n + 1] = 26 + len
  BY <1>2, <1>6, <1>7, <1>8, <1>11
<1>13. ~ (26 + len < 12 + 4 + 16)
  OBVIOUS
<1> QED
  BY <1>1, <1>12, <1>13 DEF ReadAs, message_welcome_decode, message_header_size,
                            cluster_member_struct_size

LEMMA AckRead ==
    ASSUME NEW msg \in ProtocolMessage, NEW bytes, NEW s, NEW fs, NEW n, NEW off,
           Sent(bytes, msg, s, fs, n, off), msg.type = "ACK"
    PROVE  ReadAs(message_ack_decode(bytes, off[n + 1]), msg)
<1>1. PICK a \in Nat : a = msg.ack_sequence_num /\ msg = Ack(a)
  BY MessageFieldTypes
<1>2. n = 5 /\ fs[5] = Field(4, a) /\ off[5] = 12
  BY <1>1, SentFacts DEF ContentsAt
<1>3. PICK i : i = 5
  OBVIOUS
<1>4. i \in 5 .. n /\ fs[i] = Field(4, a)
  BY <1>2, <1>3
<1>5. off[i + 1] = off[i] + 4
  BY <1>4, SentFacts
<1>6. ReadAt(bytes, off[i], 4) = a
  BY <1>4, Reads
<1>7. off[n + 1] = 16 /\ ReadAt(bytes, 12, 4) = a
  BY <1>2, <1>3, <1>5, <1>6
<1> QED
  BY <1>1, <1>7 DEF ReadAs, message_ack_decode

LEMMA DataRead ==
    ASSUME NEW msg \in ProtocolMessage, NEW bytes, NEW s, NEW fs, NEW n, NEW off,
           Sent(bytes, msg, s, fs, n, off), msg.type = "DATA"
    PROVE  ReadAs(message_data_decode(bytes, off[n + 1]), msg)
<1>1. PICK r : /\ r = msg.record /\ msg = Data(r)
               /\ r \in [member_id : Nat, sequence_number : Nat, data : DOMAIN DataSize]
  BY MessageFieldTypes
<1>2. PICK size \in Nat : size = DataSize[r.data] /\ (size = 0 <=> r.data = NULL)
  BY <1>1, DataSizeAssumption
<1>3. /\ n = 8 /\ RecordAt(fs, 5, r) /\ fs[7] = Field(2, size)
      /\ fs[8] = Field(size, r.data) /\ off[5] = 12
  <2>1. ContentsAt(fs, n, msg) /\ off[5] = 12
    BY SentFacts
  <2> QED
    BY <1>1, <1>2, <2>1 DEF ContentsAt
<1>4. PICK i, j, k : i = 5 /\ j = 7 /\ k = 8
  OBVIOUS
<1>5. /\ i \in 5 .. n - 1 /\ RecordAt(fs, i, r)
      /\ j \in 5 .. n /\ fs[j] = Field(2, size)
      /\ k \in 5 .. n /\ fs[k] = Field(size, r.data)
  BY <1>3, <1>4
<1>6. /\ ReadAt(bytes, off[i], 4) = r.sequence_number
      /\ ReadAt(bytes, off[i] + 4, 8) = r.member_id
  BY <1>5, ReadsRecord
<1>7. off[i + 2] = off[i] + 12
  <2>1. PICK zero \in Nat : zero = 0
    OBVIOUS
  <2>2. Offsets(fs, zero, n, off) /\ n \in Nat /\ i \in 1 .. n - 1
    BY <1>5, <2>1, SentFacts
  <2> QED
    BY <1>5, <2>2, RecordOffsets
<1>8. off[j + 1] = off[j] + 2
  BY <1>5, SentFacts
<1>9. off[k + 1] = off[k] + size
  BY <1>5, SentFacts
<1>10. off[j] = 24 /\ off[k] = 26 /\ off[n + 1] = 26 + size
  BY <1>3, <1>4, <1>7, <1>8, <1>9
<1>11. ReadAt(bytes, off[j], 2) = size
  BY <1>5, Reads
<1>12. CASE size > 0
  <2>1. ReadAt(bytes, off[k], size) = r.data
    BY <1>5, <1>12, Reads
  <2>2. /\ ReadAt(bytes, 24, 2) = size /\ ReadAt(bytes, 26, size) = r.data
        /\ ReadAt(bytes, 12, 4) = r.sequence_number /\ ReadAt(bytes, 16, 8) = r.member_id
    BY <1>3, <1>4, <1>6, <1>10, <1>11, <2>1
  <2>3. message_data_decode(bytes, 26 + size)
          = {Data(DataRecord(r.member_id, r.sequence_number, r.data))}
    BY <1>12, <2>2 DEF message_data_decode
  <2>4. DataRecord(r.member_id, r.sequence_number, r.data) = r
    BY <1>1 DEF DataRecord
  <2> QED
    BY <1>1, <1>10, <2>3, <2>4 DEF ReadAs
<1>13. CASE size = 0
  <2>1. /\ ReadAt(bytes, 24, 2) = 0
        /\ ReadAt(bytes, 12, 4) = r.sequence_number /\ ReadAt(bytes, 16, 8) = r.member_id
    BY <1>3, <1>4, <1>6, <1>10, <1>11, <1>13
  <2>2. message_data_decode(bytes, 26 + 0)
          = {Data(DataRecord(r.member_id, r.sequence_number, NULL))}
    BY <2>1 DEF message_data_decode
  <2>3. DataRecord(r.member_id, r.sequence_number, NULL) = r
    BY <1>1, <1>2, <1>13 DEF DataRecord
  <2> QED
    BY <1>1, <1>10, <1>13, <2>2, <2>3 DEF ReadAs
<1> QED
  BY <1>12, <1>13

LEMMA StatusRead ==
    ASSUME NEW msg \in ProtocolMessage, NEW bytes, NEW s, NEW fs, NEW n, NEW off,
           Sent(bytes, msg, s, fs, n, off), msg.type = "STATUS"
    PROVE  ReadAs(message_status_decode(bytes, off[n + 1]), msg)
<1>1. PICK rs \in Seq(Version) : rs = msg.records /\ msg = [type |-> "STATUS", records |-> rs]
  BY MessageFieldTypes
<1>2. PICK L \in Nat : L = Len(rs)
  OBVIOUS
<1>3. n = 5 + 2 * L /\ fs[5] = Field(2, L) /\ RecordsAt(fs, rs, L) /\ off[5] = 12
  <2>1. ContentsAt(fs, n, msg) /\ off[5] = 12
    BY SentFacts
  <2> QED
    BY <1>1, <1>2, <2>1 DEF ContentsAt, RecordsAt
<1>4. PICK i : i = 5
  OBVIOUS
<1>5. i \in 5 .. n /\ fs[i] = Field(2, L)
  BY <1>3, <1>4
<1>6. off[i + 1] = off[i] + 2
  BY <1>5, SentFacts
<1>7. ReadAt(bytes, off[i], 2) = L
  BY <1>5, Reads
<1>8. off[6] = 14 /\ ReadAt(bytes, 12, 2) = L
  BY <1>3, <1>4, <1>6, <1>7
<1>9. Offsets(fs, 0, 5 + 2 * L, off)
  BY <1>3, SentFacts
<1>10. \A k \in 0 .. L : off[2 * k + 6] = 14 + 12 * k
  BY <1>2, <1>3, <1>8, <1>9, ClockOffsets
<1>11. off[n + 1] = 14 + 12 * L
  <2>1. n + 1 = 2 * L + 6 /\ L \in 0 .. L
    BY <1>3
  <2> QED
    BY <1>10, <2>1
<1> DEFINE read == [j \in 1 .. L |-> vector_clock_record_decode(bytes, 12 + 2 + (j - 1) * 12)]
<1>12. ASSUME NEW j \in 1 .. L
       PROVE  vector_clock_record_decode(bytes, 12 + 2 + (j - 1) * 12) = rs[j]
  <2>1. PICK k : k = 2 * j + 4
    OBVIOUS
  <2>2. k \in 5 .. n - 1 /\ k = 2 * (j - 1) + 6 /\ j - 1 \in 0 .. L
    BY <1>3, <2>1
  <2>3. RecordAt(fs, k, rs[j])
    BY <1>3, <2>1 DEF RecordsAt
  <2>4. off[k] = 14 + 12 * (j - 1) /\ 14 + 12 * (j - 1) = 12 + 2 + (j - 1) * 12
    <3>1. PICK h \in 0 .. L : h = j - 1
      BY <2>2
    <3>2. k = 2 * h + 6
      BY <2>2, <3>1
    <3>3. off[2 * h + 6] = 14 + 12 * h
      BY <1>10
    <3> QED
      BY <3>1, <3>2, <3>3
  <2>5. PICK r \in Version : r = rs[j]
    BY <1>2
  <2>6. /\ ReadAt(bytes, off[k], 4) = r.sequence_number
        /\ ReadAt(bytes, off[k] + 4, 8) = r.member_id
    BY <2>2, <2>3, <2>5, ReadsRecord
  <2>7. PICK at : at = off[k] /\ at = 12 + 2 + (j - 1) * 12
    BY <2>4
  <2>8. vector_clock_record_decode(bytes, at)
          = [sequence_number |-> r.sequence_number, member_id |-> r.member_id]
    BY <2>6, <2>7 DEF vector_clock_record_decode
  <2>9. r = [sequence_number |-> r.sequence_number, member_id |-> r.member_id]
    BY DEF Version
  <2> QED
    BY <2>5, <2>7, <2>8, <2>9
<1>13. read = rs
  <2>1. rs = [j \in 1 .. L |-> rs[j]]
    BY <1>2
  <2> QED
    BY <1>12, <2>1
<1>14. ~ ((14 + 12 * L) - (12 + 2) < L * 12) /\ ~ (14 + 12 * L < 14)
  OBVIOUS
<1>15. vector_clock_decode(bytes, 12, 14 + 12 * L) = {read}
  BY <1>8, <1>14 DEF vector_clock_decode, VECTOR_RECORD_SIZE
<1> HIDE DEF read
<1>16. message_status_decode(bytes, 14 + 12 * L) = {Status([records |-> rs])}
  BY <1>13, <1>14, <1>15 DEF message_status_decode
<1>17. Status([records |-> rs]) = msg
  BY <1>1 DEF Status
<1> QED
  BY <1>11, <1>16, <1>17 DEF ReadAs

\* The loop of message_member_list_decode, with what has been read after k
\* members.
ReadStep(x, p, i) == ReadMember(x.bytes, x.size, p)

FirstMembers(ms, k) == [i \in 1 .. k |-> ms[i]]

HasRead(x, k, p) ==
    p = [at |-> x.off[4 * k + 6], members |-> FirstMembers(x.ms, k), refused |-> FALSE]

ReadLoop == INSTANCE FoldInduction WITH op <- ReadStep, Good <- HasRead

\* The list that has been read grows by the member that follows.
LEMMA OneMore ==
    ASSUME NEW ms \in Seq(Member), NEW k \in Nat, k + 1 <= Len(ms)
    PROVE  Append(FirstMembers(ms, k), ms[k + 1]) = FirstMembers(ms, k + 1)
<1>1. \A i \in 1 .. k + 1 : ms[i] \in Member
  OBVIOUS
<1>2. PICK f : f = FirstMembers(ms, k)
  OBVIOUS
<1>3. f \in [1 .. k -> Member] /\ \A i \in 1 .. k : f[i] = ms[i]
  BY <1>1, <1>2 DEF FirstMembers
<1>4. f \in Seq(Member) /\ Len(f) = k
  BY <1>3
<1>5. PICK m \in Member : m = ms[k + 1]
  BY <1>1
<1>6. PICK g : g = Append(f, m)
  OBVIOUS
<1>7. /\ g \in Seq(Member) /\ Len(g) = k + 1
      /\ \A i \in 1 .. k : g[i] = f[i] /\ g[k + 1] = m
  BY <1>4, <1>5, <1>6, AppendProperties
<1>8. g = [i \in 1 .. k + 1 |-> g[i]]
  <2>1. g \in [1 .. k + 1 -> Member]
    BY <1>7, LenProperties
  <2> QED
    BY <2>1
<1>9. \A i \in 1 .. k + 1 : g[i] = ms[i]
  <2>1. g[k + 1] = m
    BY <1>4, <1>5, <1>6, AppendProperties
  <2>2. \A i \in 1 .. k + 1 : i \in 1 .. k \/ i = k + 1
    OBVIOUS
  <2> QED
    BY <1>3, <1>5, <1>7, <2>1, <2>2
<1> QED
  BY <1>2, <1>5, <1>6, <1>8, <1>9 DEF FirstMembers

\* The rest of the datagram holds another member.
LEMMA MemberLeft ==
    ASSUME NEW size \in Nat, NEW a \in Nat, NEW len \in 16 .. 128, a + 10 + len <= size
    PROVE  size - a \notin 0 .. 9
OBVIOUS

\* message_member_list_decode finds every member of the list, and no end of the
\* datagram between them.
LEMMA ListRead ==
    ASSUME NEW msg \in ProtocolMessage, NEW bytes, NEW s, NEW fs, NEW n, NEW off,
           Sent(bytes, msg, s, fs, n, off), msg.type = "MEMBER_LIST"
    PROVE  ReadAs(message_member_list_decode(bytes, off[n + 1]), msg)
<1>1. PICK ms \in Seq(Member) : ms = msg.members /\ msg = MemberList(ms)
  BY MessageFieldTypes
<1>2. PICK L \in Nat : L = Len(ms)
  OBVIOUS
<1>3. /\ n = 5 + 4 * L /\ fs[5] = Field(2, L) /\ off[5] = 12
      /\ \A i \in 1 .. L : MemberAt(fs, 4 * i + 2, ms[i])
  <2>1. ContentsAt(fs, n, msg) /\ off[5] = 12
    BY SentFacts
  <2> QED
    BY <1>1, <1>2, <2>1 DEF ContentsAt
<1>4. PICK i : i = 5
  OBVIOUS
<1>5. i \in 5 .. n /\ fs[i] = Field(2, L)
  BY <1>3, <1>4
<1>6. off[i + 1] = off[i] + 2
  BY <1>5, SentFacts
<1>7. ReadAt(bytes, off[i], 2) = L
  BY <1>5, Reads
<1>8. off[6] = 14 /\ ReadAt(bytes, 12, 2) = L
  BY <1>3, <1>4, <1>6, <1>7
<1>9. off \in [1 .. n + 1 -> Nat] /\ \A j \in 1 .. n + 1 : off[j] <= off[n + 1]
  BY SentFacts DEF Offsets
<1>10. PICK size \in Nat : size = off[n + 1] /\ size >= 14
  <2>1. 6 \in 1 .. n + 1 /\ n + 1 \in 1 .. n + 1
    BY <1>3
  <2> QED
    BY <1>8, <1>9, <2>1
<1> DEFINE x    == [bytes |-> bytes, size |-> size, ms |-> ms, off |-> off]
           base == [at |-> 14, members |-> <<>>, refused |-> FALSE]
           seq  == [j \in 1 .. L |-> j]
<1>11. HasRead(x, 0, base)
  <2>1. FirstMembers(ms, 0) = <<>>
    BY DEF FirstMembers
  <2>2. 4 * 0 + 6 = 6
    OBVIOUS
  <2>3. x.off[4 * 0 + 6] = 14 /\ FirstMembers(x.ms, 0) = <<>>
    BY <1>8, <2>1, <2>2
  <2> QED
    BY <2>3 DEF HasRead
<1>12. ASSUME NEW k \in 0 .. L - 1, NEW p, HasRead(x, k, p)
       PROVE  HasRead(x, k + 1, ReadStep(x, p, seq[k + 1]))
  <2>1. PICK j : j = 4 * k + 6
    OBVIOUS
  <2>2. /\ j \in 5 .. n - 3 /\ j + 4 = 4 * (k + 1) + 6 /\ j = 4 * (k + 1) + 2
        /\ k + 1 \in 1 .. L /\ k \in Nat /\ k + 1 <= Len(ms) /\ j + 4 \in 1 .. n + 1
    BY <1>2, <1>3, <2>1
  <2>3. PICK m \in Member : m = ms[k + 1]
    BY <2>2
  <2>4. MemberAt(fs, j, m)
    BY <1>3, <2>2, <2>3
  <2>5. PICK len \in 16 .. 128 : len = AddressLen[m.address]
    BY AddressLenAssumption DEF Member
  <2>6. /\ cluster_member_decode(bytes, off[j]) = m /\ ReadAt(bytes, off[j] + 6, 4) = len
        /\ off[j + 4] = off[j] + 10 + len /\ off[j] \in Nat
    BY <2>2, <2>4, <2>5, ReadsMember
  <2>7. PICK a \in Nat : a = off[j] /\ a + 10 + len = off[j + 4]
    BY <2>6
  <2>8. a + 10 + len <= size
    BY <1>9, <1>10, <2>2, <2>7
  <2>9. size - a \notin 0 .. 9
    BY <2>8, MemberLeft
  <2>10. p.at = a /\ p.members = FirstMembers(ms, k) /\ p.refused = FALSE
    BY <1>12, <2>1, <2>7 DEF HasRead
  <2>11. Append(p.members, m) = FirstMembers(ms, k + 1)
    BY <2>2, <2>3, <2>10, OneMore
  <2>12. ReadMember(bytes, size, p)
           = [at |-> a + 10 + len, members |-> Append(p.members, m), refused |-> FALSE]
    BY <2>6, <2>7, <2>9, <2>10 DEF ReadMember
  <2>13. off[4 * (k + 1) + 6] = a + 10 + len
    BY <2>2, <2>7
  <2> QED
    BY <2>11, <2>12, <2>13 DEF HasRead, ReadStep
<1>13. DOMAIN seq = 1 .. L
  OBVIOUS
<1>14. x.bytes = bytes /\ x.size = size /\ x.ms = ms /\ x.off = off
  OBVIOUS
<1> HIDE DEF x, base, seq
<1>15. HasRead(x, L, ReadLoop!Loop(x, base, seq))
  BY <1>11, <1>12, <1>13, ReadLoop!LoopInvariant
<1>16. PICK read : read = FoldLeft(LAMBDA p, j : ReadMember(bytes, size, p), base, seq)
  OBVIOUS
<1>17. read = ReadLoop!Loop(x, base, seq)
  BY <1>14, <1>16 DEF ReadStep, ReadLoop!Loop, ReadLoop!Last, FoldLeft, MapThenFoldSet, Max
<1>18. read.members = FirstMembers(ms, L) /\ read.refused = FALSE
  BY <1>14, <1>15, <1>17 DEF HasRead
<1>19. FirstMembers(ms, L) = ms
  BY <1>2 DEF FirstMembers
<1>20. message_member_list_decode(bytes, size) =
          IF size < 14 \/ read.refused THEN {} ELSE {MemberList(read.members)}
  <2>1. read = FoldLeft(LAMBDA p, j : ReadMember(bytes, size, p),
                        [at |-> 14, members |-> <<>>, refused |-> FALSE],
                        [j \in 1 .. ReadAt(bytes, 12, 2) |-> j])
    BY <1>8, <1>16 DEF base, seq
  <2> QED
    BY <2>1, Zenon DEF message_member_list_decode
<1>21. ~ (size < 14) /\ ~ read.refused
  BY <1>10, <1>18
<1>22. message_member_list_decode(bytes, size) = {MemberList(read.members)}
  BY <1>20, <1>21
<1>23. MemberList(read.members) = msg
  BY <1>1, <1>18, <1>19
<1> QED
  BY <1>10, <1>22, <1>23 DEF ReadAs

\* Whoever receives the bytes of a message reads the message and the number.
LEMMA DecodesTo ==
    ASSUME NEW msg \in ProtocolMessage, NEW s, NEW bytes, Carried(bytes, msg, s)
    PROVE  Decode(bytes, EncodedSize(msg)) = {[sequence_num |-> s, msg |-> msg]}
<1>1. PICK fs : fs = Fields(msg)
  OBVIOUS
<1> DEFINE Laid(n, off) == /\ n >= 4 /\ FieldsOf(fs, n, msg) /\ Offsets(fs, 0, n, off)
                           /\ HasPlaced(fs, off, n, Placed(Fields(msg), 0))
<1>1a. PICK n \in Nat : \E off : Laid(n, off)
  BY <1>1, MessageLayout
<1>2. PICK off : Laid(n, off)
  BY <1>1a
<1>3. PICK last : last = n /\ Sent(bytes, msg, s, fs, last, off)
  BY <1>2 DEF Sent
<1>4. PICK size \in Nat : /\ size = EncodedSize(msg) /\ size = off[last + 1]
                          /\ size >= 12
  BY <1>2, <1>3, PlacedApart DEF HasPlaced, EncodedSize
<1>5. /\ ReadAt(bytes, 0, 5) = PROTOCOL_ID /\ message_type_decode(bytes) = msg.type
      /\ ReadAt(bytes, 8, 4) = s
  BY <1>3, ReadsHeader DEF message_type_decode
<1> DEFINE Said(read) == {[sequence_num |-> s, msg |-> m] : m \in read}
<1>6. Said({msg}) = {[sequence_num |-> s, msg |-> msg]}
  OBVIOUS
<1>7. ~ (size < message_header_size \/ ReadAt(bytes, 0, 5) # PROTOCOL_ID)
  BY <1>4, <1>5 DEF message_header_size
<1>8. msg.type = "HELLO" => Decode(bytes, size) = Said(message_hello_decode(bytes, size))
  BY <1>5, <1>7 DEF Decode
<1>9. msg.type = "WELCOME" => Decode(bytes, size) = Said(message_welcome_decode(bytes, size))
  BY <1>5, <1>7 DEF Decode
<1>10. msg.type = "MEMBER_LIST" =>
          Decode(bytes, size) = Said(message_member_list_decode(bytes, size))
  BY <1>5, <1>7 DEF Decode
<1>11. msg.type = "DATA" => Decode(bytes, size) = Said(message_data_decode(bytes, size))
  BY <1>5, <1>7 DEF Decode
<1>12. msg.type = "ACK" => Decode(bytes, size) = Said(message_ack_decode(bytes, size))
  BY <1>5, <1>7 DEF Decode
<1>13. msg.type = "STATUS" => Decode(bytes, size) = Said(message_status_decode(bytes, size))
  BY <1>5, <1>7 DEF Decode
<1> HIDE DEF Said
<1>14. CASE msg.type = "HELLO"
  <2>1. ReadAs(message_hello_decode(bytes, off[last + 1]), msg)
    BY <1>3, <1>14, HelloRead
  <2> QED
    BY <1>4, <1>6, <1>8, <1>14, <2>1 DEF ReadAs
<1>15. CASE msg.type = "WELCOME"
  <2>1. ReadAs(message_welcome_decode(bytes, off[last + 1]), msg)
    BY <1>3, <1>15, WelcomeRead
  <2> QED
    BY <1>4, <1>6, <1>9, <1>15, <2>1 DEF ReadAs
<1>16. CASE msg.type = "MEMBER_LIST"
  <2>1. ReadAs(message_member_list_decode(bytes, off[last + 1]), msg)
    BY <1>3, <1>16, ListRead
  <2> QED
    BY <1>4, <1>6, <1>10, <1>16, <2>1 DEF ReadAs
<1>17. CASE msg.type = "DATA"
  <2>1. ReadAs(message_data_decode(bytes, off[last + 1]), msg)
    BY <1>3, <1>17, DataRead
  <2> QED
    BY <1>4, <1>6, <1>11, <1>17, <2>1 DEF ReadAs
<1>18. CASE msg.type = "ACK"
  <2>1. ReadAs(message_ack_decode(bytes, off[last + 1]), msg)
    BY <1>3, <1>18, AckRead
  <2> QED
    BY <1>4, <1>6, <1>12, <1>18, <2>1 DEF ReadAs
<1>19. CASE msg.type = "STATUS"
  <2>1. ReadAs(message_status_decode(bytes, off[last + 1]), msg)
    BY <1>3, <1>19, StatusRead
  <2> QED
    BY <1>4, <1>6, <1>13, <1>19, <2>1 DEF ReadAs
<1> QED
  BY <1>14, <1>15, <1>16, <1>17, <1>18, <1>19, MessageFieldTypes

-----------------------------------------------------------------------------
(* The queue and its buffers *)

\* All recipients.
To == UNION {ToSet(rs) : rs \in Recipients}

\* Each envelope of the queue finds its message in its buffer.
Holds(queue, buffers) ==
    /\ buffers = [b \in Buffers |-> buffers[b]]
    /\ \A b \in Buffers : Sound(buffers[b])
    /\ \A e \in queue : HoldsMessage(buffers[e.buffer], e.message)

\* A smaller queue, or one of envelopes that point where the old ones did.
LEMMA HoldsOn ==
    ASSUME NEW q, NEW r, NEW buffers, Holds(q, buffers),
           \A x \in r : \E e \in q : x.buffer = e.buffer /\ x.message = e.message
    PROVE  Holds(r, buffers)
<1>1. ASSUME NEW x \in r
      PROVE  HoldsMessage(buffers[x.buffer], x.message)
  <2>1. PICK e \in q : x.buffer = e.buffer /\ x.message = e.message
    OBVIOUS
  <2>2. HoldsMessage(buffers[e.buffer], e.message)
    BY DEF Holds
  <2> QED
    BY <2>1, <2>2
<1> QED
  BY <1>1 DEF Holds

\* Time moves no envelope to another buffer, ...
LEMMA ElapseHolds ==
    ASSUME NEW M, NEW T, NEW q \in SUBSET Envelope(M, T), NEW D \in Nat,
           NEW buffers, Holds(q, buffers)
    PROVE  Holds(Elapse(q, D), buffers)
<1>1. ASSUME NEW x \in Elapse(q, D)
      PROVE  \E e \in q : x.buffer = e.buffer /\ x.message = e.message
  <2>1. PICK e \in q : x = Older(e, D)
    BY DEF Elapse
  <2>2. e \in Envelope(M, T)
    OBVIOUS
  <2> QED
    BY <2>1, <2>2, OlderKeeps
<1> QED
  BY <1>1, HoldsOn

\* ... and neither does an attempt.
LEMMA PassHolds ==
    ASSUME NEW M, NEW T, NEW q \in SUBSET Envelope(M, T), NEW stop,
           NEW d, d = [e \in q |-> 0], NEW buffers, Holds(q, buffers)
    PROVE  Holds(AfterPass(q, d, 0, stop), buffers)
<1>1. ASSUME NEW x \in AfterPass(q, d, 0, stop)
      PROVE  \E e \in q : x.buffer = e.buffer /\ x.message = e.message
  <2>1. PICK e \in q : x = Attempted(e, 0 - d[e]) \/ x = Older(e, 0)
    BY PassOrigin
  <2>2. PICK zero \in Nat : zero = 0 /\ 0 - d[e] = zero
    OBVIOUS
  <2>3. e \in Envelope(M, T) /\ (x = Attempted(e, zero) \/ x = Older(e, zero))
    BY <2>1, <2>2
  <2>4. x.buffer = e.buffer /\ x.message = e.message
    <3>1. CASE x = Attempted(e, zero)
      BY <2>3, <3>1, AttemptedKeeps
    <3>2. CASE x = Older(e, zero)
      BY <2>3, <3>2, OlderKeeps
    <3> QED
      BY <2>3, <3>1, <3>2
  <2> QED
    BY <2>4
<1> QED
  BY <1>1, HoldsOn

\* Nothing that stays in the queue points at the buffer that is written.
LEMMA EnqueueBuffers ==
    ASSUME NEW M, NEW T, NEW o, WellFormed(o, M, T), Intact(o.queue),
           NEW msg, NEW fits \in BOOLEAN,
           NEW max, NEW rs, NEW p, p = gossip_enqueue_message(o, msg, fits, max, rs),
           NEW b, b = gossip_find_available_output_buffer(o.queue).buffer
    PROVE  /\ b \in Buffers
           /\ \A x \in p.queue : \/ x \in o.queue /\ x.buffer # b
                                 \/ fits /\ x.buffer = b /\ x.message = msg
<1>1. PICK found : found = gossip_find_available_output_buffer(o.queue)
  OBVIOUS
<1>2. /\ o.queue \in SUBSET Envelope(M, T) /\ Numbered(o.queue) /\ Grouped(o.queue)
      /\ o = [queue |-> o.queue, sequence_num |-> o.sequence_num]
  BY DEF WellFormed, Intact
<1>3. \A e \in o.queue : e.attempt_num <= MESSAGE_RETRY_ATTEMPTS
  BY RetryAttemptsAssumption DEF WellFormed, Proper, Envelope
<1>4. b = found.buffer /\ b \in Buffers /\ found.queue \subseteq o.queue
  BY <1>1, <1>2, <1>3, BufferFound, RetryAttemptsAssumption
<1>5. \A e \in found.queue : e.buffer # b
  BY <1>1, <1>2, <1>3, <1>4, EvictionReachesAll, RetryAttemptsAssumption DEF Numbered
<1>6. CASE ~fits
  <2>1. p = [o EXCEPT !.queue = found.queue]
    BY <1>1, <1>6 DEF gossip_enqueue_message
  <2>2. p.queue = found.queue
    BY <1>2, <2>1
  <2> QED
    BY <1>4, <1>5, <2>2
<1>7. CASE fits
  <2>1. p.queue = WriteBuffer(found.queue, b, msg)
                    \cup {NewEnvelope(o.sequence_num + i, rs[i], b, msg, max) :
                            i \in DOMAIN rs}
    BY <1>1, <1>4, <1>7 DEF gossip_enqueue_message
  <2>2. \A x \in WriteBuffer(found.queue, b, msg) : x \in found.queue
    BY <1>5 DEF WriteBuffer
  <2>3. \A x \in p.queue :
            \/ x \in found.queue
            \/ \E i \in DOMAIN rs : x = NewEnvelope(o.sequence_num + i, rs[i], b, msg, max)
    BY <2>1, <2>2
  <2>4. ASSUME NEW x \in p.queue, x \notin found.queue
        PROVE  x.buffer = b /\ x.message = msg
    <3>1. PICK i \in DOMAIN rs : x = NewEnvelope(o.sequence_num + i, rs[i], b, msg, max)
      BY <2>3, <2>4
    <3> QED
      BY <3>1 DEF NewEnvelope
  <2> QED
    BY <1>4, <1>5, <1>7, <2>4
<1> QED
  BY <1>4, <1>6, <1>7

\* gossip_enqueue_message keeps the messages of the others in their buffers.
LEMMA EnqueueHolds ==
    ASSUME NEW M, NEW T, NEW o, WellFormed(o, M, T), Intact(o.queue),
           NEW msg \in ProtocolMessage, NEW max, NEW rs,
           NEW p, p = gossip_enqueue_message(o, msg, Encodable(msg), max, rs),
           NEW buffers, Holds(o.queue, buffers),
           NEW b, b = gossip_find_available_output_buffer(o.queue).buffer,
           NEW new, new = IF Encodable(msg)
                          THEN [buffers EXCEPT ![b] = Write(buffers[b], Fields(msg), 0)]
                          ELSE buffers
    PROVE  Holds(p.queue, new)
<1>1. PICK fits \in BOOLEAN : fits <=> Encodable(msg)
  OBVIOUS
<1>2. p = gossip_enqueue_message(o, msg, fits, max, rs)
  BY <1>1 DEF gossip_enqueue_message
<1>3. /\ b \in Buffers
      /\ \A x \in p.queue : \/ x \in o.queue /\ x.buffer # b
                            \/ fits /\ x.buffer = b /\ x.message = msg
  BY <1>2, EnqueueBuffers
<1>4. /\ buffers = [c \in Buffers |-> buffers[c]]
      /\ \A c \in Buffers : Sound(buffers[c])
      /\ \A e \in o.queue : HoldsMessage(buffers[e.buffer], e.message)
  BY DEF Holds
<1>5. \A e \in o.queue : e.buffer \in Buffers
  BY DEF WellFormed, Envelope
<1>6. CASE ~Encodable(msg)
  BY <1>1, <1>3, <1>4, <1>6 DEF Holds
<1>7. CASE Encodable(msg)
  <2>1. PICK w : w = Write(buffers[b], Fields(msg), 0)
    OBVIOUS
  <2>2. Sound(w) /\ HoldsMessage(w, msg)
    BY <1>3, <1>4, <1>7, <2>1, EncodeIntoBuffer
  <2>3. new = [buffers EXCEPT ![b] = w]
    BY <1>7, <2>1
  <2>4. /\ new = [c \in Buffers |-> new[c]] /\ new[b] = w
        /\ \A c \in Buffers : c # b => new[c] = buffers[c]
    BY <1>3, <1>4, <2>3
  <2>5. \A c \in Buffers : Sound(new[c])
    BY <1>4, <2>2, <2>4
  <2>6. ASSUME NEW x \in p.queue
        PROVE  HoldsMessage(new[x.buffer], x.message)
    <3>1. CASE x \in o.queue /\ x.buffer # b
      <4>1. new[x.buffer] = buffers[x.buffer]
        BY <1>5, <2>4, <3>1
      <4>2. HoldsMessage(buffers[x.buffer], x.message)
        BY <1>4, <3>1
      <4> QED
        BY <4>1, <4>2
    <3>2. CASE x.buffer = b /\ x.message = msg
      BY <2>2, <2>4, <3>2
    <3> QED
      BY <1>3, <3>1, <3>2
  <2> QED
    BY <2>4, <2>5, <2>6 DEF Holds
<1> QED
  BY <1>6, <1>7

-----------------------------------------------------------------------------
(* One pass over the queue *)

\* Whoever receives d reads what the envelope was made for.
Understood(d) ==
    Decode(d.bytes, d.size) = {[sequence_num |-> d.sequence_num, msg |-> d.msg]}

\* The loop of pittacus_gossip_process_send over the due envelopes of a queue.
VisitStep(x, p, s) ==
    IF {e \in x.due : e.sequence_num = s} = {} THEN p
    ELSE Hand(p, CHOOSE e \in {f \in x.due : f.sequence_num = s} : TRUE, x.stop)

Visited(x, k, p) == Holds(x.queue, p.buffers) /\ \A d \in p.sent : Understood(d)

VisitLoop == INSTANCE FoldInduction WITH op <- VisitStep, Good <- Visited

\* Handing one envelope to the socket.
LEMMA HandKeeps ==
    ASSUME NEW q \in SUBSET Envelope(Message, To), NEW e \in q, NEW stop,
           NEW p, Holds(q, p.buffers), \A d \in p.sent : Understood(d),
           NEW r, r = Hand(p, e, stop)
    PROVE  Holds(q, r.buffers) /\ \A d \in r.sent : Understood(d)
<1>1. PICK b : b = p.buffers
  OBVIOUS
<1>2. /\ b = [c \in Buffers |-> b[c]]
      /\ \A c \in Buffers : Sound(b[c])
      /\ \A f \in q : HoldsMessage(b[f.buffer], f.message)
  BY <1>1 DEF Holds
<1>3. \A f \in q : f.buffer \in Buffers /\ f.message \in ProtocolMessage
  BY MessageAssumption DEF Envelope
<1>4. PICK new : new = Patched(b[e.buffer], e)
  OBVIOUS
<1>5. /\ r.buffers = [b EXCEPT ![e.buffer] = new]
      /\ r.sent = IF e.sequence_num = stop THEN p.sent
                  ELSE p.sent \cup {Datagram(new, e)}
  BY <1>1, <1>4 DEF Hand
<1>6. \A f \in q : f.buffer = e.buffer => HoldsMessage(new, f.message)
  BY <1>2, <1>3, <1>4, PatchKeeps
<1>7. /\ HoldsMessage(new, e.message) /\ Sound(new)
      /\ 8 \in DOMAIN new /\ new[8] = Field(4, e.sequence_num)
  BY <1>2, <1>3, <1>4, PatchKeeps
<1>8. Holds(q, r.buffers)
  <2>1. PICK c : c = r.buffers
    OBVIOUS
  <2>2. /\ c = [a \in Buffers |-> c[a]] /\ c[e.buffer] = new
        /\ \A a \in Buffers : a # e.buffer => c[a] = b[a]
    BY <1>2, <1>3, <1>5, <2>1
  <2>3. \A a \in Buffers : Sound(c[a])
    BY <1>2, <1>7, <2>2
  <2>4. ASSUME NEW f \in q PROVE HoldsMessage(c[f.buffer], f.message)
    <3>1. CASE f.buffer = e.buffer
      BY <1>6, <2>2, <3>1
    <3>2. CASE f.buffer # e.buffer
      BY <1>2, <1>3, <2>2, <3>2
    <3> QED
      BY <3>1, <3>2
  <2> QED
    BY <2>1, <2>2, <2>3, <2>4 DEF Holds
<1>9. Understood(Datagram(new, e))
  <2>1. PICK m \in ProtocolMessage : m = e.message
    BY <1>3
  <2>2. PICK bytes : bytes = Prefix(new, EncodedSize(m))
    OBVIOUS
  <2>3. Carried(bytes, m, e.sequence_num)
    BY <1>7, <2>1, <2>2, PrefixCarries
  <2>4. Decode(bytes, EncodedSize(m)) = {[sequence_num |-> e.sequence_num, msg |-> m]}
    BY <2>3, DecodesTo
  <2>5. PICK d : d = Datagram(new, e)
    OBVIOUS
  <2>6. d.bytes = bytes /\ d.size = EncodedSize(m) /\ d.sequence_num = e.sequence_num
        /\ d.msg = m
    BY <2>1, <2>2, <2>5 DEF Datagram
  <2> QED
    BY <2>4, <2>5, <2>6 DEF Understood
<1>10. \A d \in r.sent : Understood(d)
  BY <1>5, <1>9
<1> QED
  BY <1>8, <1>10

\* Whatever the pass hands to the socket is understood, and it leaves each message
\* in its buffer.
LEMMA PassKeeps ==
    ASSUME NEW q \in SUBSET Envelope(Message, To), NEW due \in SUBSET q, NEW stop \in Nat,
           NEW buffers, Holds(q, buffers),
           NEW x, x = [queue |-> q, due |-> due, stop |-> stop],
           NEW pass, pass = VisitLoop!Loop(x, [buffers |-> buffers, sent |-> {}],
                                           [s \in 1 .. stop |-> s])
    PROVE  Holds(q, pass.buffers) /\ \A d \in pass.sent : Understood(d)
<1> DEFINE base == [buffers |-> buffers, sent |-> {}]
           seq  == [s \in 1 .. stop |-> s]
<1>1. Visited(x, 0, base)
  BY DEF Visited
<1>2. ASSUME NEW k \in 0 .. stop - 1, NEW p, Visited(x, k, p)
      PROVE  Visited(x, k + 1, VisitStep(x, p, seq[k + 1]))
  <2>1. PICK s : s = seq[k + 1]
    OBVIOUS
  <2>2. PICK at : at = {e \in due : e.sequence_num = s}
    OBVIOUS
  <2>3. VisitStep(x, p, s) = IF at = {} THEN p ELSE Hand(p, CHOOSE f \in at : TRUE, stop)
    BY <2>2 DEF VisitStep
  <2>4. CASE at = {}
    BY <1>2, <2>1, <2>3, <2>4 DEF Visited
  <2>5. CASE at # {}
    <3>1. PICK e : e = CHOOSE f \in at : TRUE
      OBVIOUS
    <3>2. e \in q
      <4>1. e \in at
        BY <2>5, <3>1
      <4> QED
        BY <2>2, <4>1
    <3>3. PICK r : r = Hand(p, e, stop)
      OBVIOUS
    <3>4. Holds(q, p.buffers) /\ \A d \in p.sent : Understood(d)
      BY <1>2 DEF Visited
    <3>5. Holds(q, r.buffers) /\ \A d \in r.sent : Understood(d)
      BY <3>2, <3>3, <3>4, HandKeeps
    <3>6. VisitStep(x, p, s) = r
      BY <2>3, <2>5, <3>1, <3>3
    <3> QED
      BY <2>1, <3>5, <3>6 DEF Visited
  <2> QED
    BY <2>4, <2>5
<1>3. DOMAIN seq = 1 .. stop
  OBVIOUS
<1>4. pass = VisitLoop!Loop(x, base, seq)
  OBVIOUS
<1> HIDE DEF base, seq
<1>5. Visited(x, stop, pass)
  BY <1>1, <1>2, <1>3, <1>4, VisitLoop!LoopInvariant
<1> QED
  BY <1>5 DEF Visited

-----------------------------------------------------------------------------
(* The invariant *)

\* The queue is well formed, its messages are in their buffers, and what the last
\* step has handed to the socket is understood.
WireInv ==
    /\ WellFormed(out, Message, To) /\ Intact(out.queue)
    /\ Holds(out.queue, output_buffer)
    /\ \A d \in datagrams : Understood(d)

\* The invariant holds at the start, and each step keeps it.
LEMMA InitWireInv == Init => WireInv
<1> SUFFICES ASSUME Init PROVE WireInv
  OBVIOUS
<1>1. out.queue = {} /\ WellFormed(out, Message, To) /\ Intact(out.queue)
  BY DEF Init, WellFormed, Numbered, Intact, Grouped
<1>2. Holds(out.queue, output_buffer)
  <2>1. output_buffer = [b \in Buffers |-> <<>>]
    BY DEF Init
  <2>2. DOMAIN <<>> = {}
    OBVIOUS
  <2>3. Sound(<<>>)
    BY <2>2 DEF Sound
  <2> QED
    BY <1>1, <2>1, <2>3 DEF Holds
<1> QED
  BY <1>1, <1>2 DEF WireInv, Init

\* The lists of recipients are sequences of recipients.
LEMMA RecipientsTyped ==
    ASSUME NEW rs \in Recipients
    PROVE  rs \in Seq(To)
<1>1. ToSet(rs) \subseteq To
  BY DEF To
<1>2. rs \in Seq(ToSet(rs))
  BY RecipientsAssumption
<1>3. PICK S : S = ToSet(rs)
  OBVIOUS
<1>4. rs \in Seq(S) /\ S \subseteq To
  BY <1>1, <1>2, <1>3
<1>5. rs \in [1 .. Len(rs) -> To] /\ Len(rs) \in Nat
  BY <1>4
<1> QED
  BY <1>5

LEMMA SubmitKeeps ==
    ASSUME WireInv, NEW msg \in Message, NEW rs \in Recipients, Submit(msg, rs)
    PROVE  WireInv'
<1>1. msg \in ProtocolMessage /\ rs \in Seq(To)
  BY MessageAssumption, RecipientsTyped
<1>2. PICK max \in {1, MESSAGE_RETRY_ATTEMPTS} : max = MaxAttempts(msg.type)
  BY DEF MaxAttempts
<1>3. PICK fits \in BOOLEAN : fits <=> Encodable(msg)
  OBVIOUS
<1>4. PICK p : p = out'
  OBVIOUS
<1>5. p = gossip_enqueue_message(out, msg, Encodable(msg), max, rs)
  BY <1>2, <1>4 DEF Submit
<1>6. p = gossip_enqueue_message(out, msg, fits, max, rs)
  BY <1>3, <1>5 DEF gossip_enqueue_message
<1>7. WellFormed(out, Message, To) /\ Intact(out.queue)
      /\ Holds(out.queue, output_buffer)
  BY DEF WireInv
<1>8. WellFormed(p, Message, To) /\ Intact(p.queue)
  BY <1>1, <1>2, <1>3, <1>6, <1>7, EnqueueIntact
<1>9. PICK b : b = gossip_find_available_output_buffer(out.queue).buffer
  OBVIOUS
<1>10. PICK new : /\ new = output_buffer'
                  /\ new = IF Encodable(msg)
                           THEN [output_buffer EXCEPT ![b] =
                                    Write(output_buffer[b], Fields(msg), 0)]
                           ELSE output_buffer
  BY <1>9 DEF Submit
<1>11. Holds(p.queue, new)
  BY <1>1, <1>5, <1>7, <1>9, <1>10, EnqueueHolds
<1>12. datagrams' = {}
  BY DEF Submit
<1> QED
  BY <1>4, <1>8, <1>10, <1>11, <1>12 DEF WireInv

LEMMA AcknowledgeKeeps ==
    ASSUME WireInv, NEW s, Acknowledge(s)
    PROVE  WireInv'
<1>1. WellFormed(out, Message, To) /\ Intact(out.queue)
      /\ Holds(out.queue, output_buffer)
  BY DEF WireInv
<1>2. PICK p : p = out' /\ p = [out EXCEPT !.queue = gossip_envelope_remove(out.queue, s)]
  BY DEF Acknowledge
<1>3. WellFormed(p, Message, To) /\ Intact(p.queue)
  <2>1. WellFormed(p, Message, To) /\ KeepsIntact(out, p)
    BY <1>1, <1>2, RemoveWellFormed
  <2> QED
    BY <1>1, <2>1 DEF KeepsIntact
<1>4. p.queue = gossip_envelope_remove(out.queue, s)
  BY <1>1, <1>2 DEF WellFormed
<1>5. \A x \in p.queue : \E e \in out.queue : x.buffer = e.buffer /\ x.message = e.message
  BY <1>4 DEF gossip_envelope_remove
<1>6. Holds(p.queue, output_buffer)
  BY <1>1, <1>5, HoldsOn
<1>7. output_buffer' = output_buffer /\ datagrams' = {}
  BY DEF Acknowledge
<1> QED
  BY <1>2, <1>3, <1>6, <1>7 DEF WireInv

LEMMA TimePassesKeeps ==
    ASSUME WireInv, TimePasses
    PROVE  WireInv'
<1>1. WellFormed(out, Message, To) /\ Intact(out.queue)
      /\ Holds(out.queue, output_buffer)
  BY DEF WireInv
<1>2. PICK D \in Nat : D = 1
  OBVIOUS
<1>3. PICK p : p = out' /\ p = [out EXCEPT !.queue = Elapse(out.queue, D)]
  BY <1>2 DEF TimePasses
<1>4. WellFormed(p, Message, To) /\ Intact(p.queue)
  <2>1. WellFormed(p, Message, To) /\ KeepsIntact(out, p)
    BY <1>1, <1>3, ElapseWellFormed
  <2> QED
    BY <1>1, <2>1 DEF KeepsIntact
<1>5. p.queue = Elapse(out.queue, D) /\ out.queue \in SUBSET Envelope(Message, To)
  BY <1>1, <1>3 DEF WellFormed
<1>6. Holds(p.queue, output_buffer)
  BY <1>1, <1>5, ElapseHolds
<1>7. output_buffer' = output_buffer /\ datagrams' = {}
  BY DEF TimePasses
<1> QED
  BY <1>3, <1>4, <1>6, <1>7 DEF WireInv

LEMMA ProcessSendKeeps ==
    ASSUME WireInv, NEW stop \in Nat, ProcessSend(stop)
    PROVE  WireInv'
<1>1. WellFormed(out, Message, To) /\ Intact(out.queue)
      /\ Holds(out.queue, output_buffer)
  BY DEF WireInv
<1>2. PICK q \in SUBSET Envelope(Message, To) : q = out.queue
  BY <1>1 DEF WellFormed
<1>3. PICK now : now = [e \in q |-> 0]
  OBVIOUS
<1>4. PICK p : p = out' /\ p = [out EXCEPT !.queue = AfterPass(q, now, 0, stop)]
  BY <1>2, <1>3 DEF ProcessSend
<1>5. WellFormed(p, Message, To) /\ Intact(p.queue)
  <2>1. now = [e \in out.queue |-> 0]
    BY <1>2, <1>3
  <2>2. p = [out EXCEPT !.queue = AfterPass(out.queue, now, 0, stop)]
    BY <1>2, <1>4
  <2> QED
    BY <1>1, <2>1, <2>2, PassIntact
<1>6. PICK due \in SUBSET q : due = Due(q, now)
  BY DEF Due
<1>7. PICK x : x = [queue |-> q, due |-> due, stop |-> stop]
  OBVIOUS
<1>8. PICK pass : pass = VisitLoop!Loop(x, [buffers |-> output_buffer, sent |-> {}],
                                        [s \in 1 .. stop |-> s])
  OBVIOUS
<1>9. x.due = due /\ x.stop = stop
  BY <1>7
<1>10. output_buffer' = pass.buffers /\ datagrams' = pass.sent
  BY <1>2, <1>3, <1>6, <1>8, <1>9
     DEF ProcessSend, VisitStep, VisitLoop!Loop, VisitLoop!Last, FoldLeft,
         MapThenFoldSet, Max
<1>11. Holds(q, pass.buffers) /\ \A d \in pass.sent : Understood(d)
  BY <1>1, <1>2, <1>6, <1>7, <1>8, PassKeeps
<1>12. p.queue = AfterPass(q, now, 0, stop)
  BY <1>1, <1>4 DEF WellFormed
<1>13. Holds(p.queue, pass.buffers)
  BY <1>2, <1>3, <1>11, <1>12, PassHolds
<1> QED
  BY <1>4, <1>5, <1>10, <1>11, <1>13 DEF WireInv

\* Every step keeps the invariant.
LEMMA NextWireInv == WireInv /\ [Next]_vars => WireInv'
<1> SUFFICES ASSUME WireInv, [Next]_vars PROVE WireInv'
  OBVIOUS
<1>1. CASE \E msg \in Message, rs \in Recipients : Submit(msg, rs)
  BY <1>1, SubmitKeeps
<1>2. CASE \E e \in out.queue : Acknowledge(e.sequence_num)
  BY <1>2, AcknowledgeKeeps
<1>3. CASE pittacus_gossip_process_send
  <2>1. /\ out.sequence_num + 1 \in Nat
        /\ \A e \in out.queue : e.sequence_num \in Nat
    BY DEF WireInv, WellFormed, Envelope
  <2>2. CASE ProcessSend(out.sequence_num + 1)
    BY <2>1, <2>2, ProcessSendKeeps
  <2>3. CASE \E e \in Due(out.queue, [y \in out.queue |-> 0]) : ProcessSend(e.sequence_num)
    <3>1. PICK e \in out.queue : ProcessSend(e.sequence_num)
      BY <2>3 DEF Due
    <3> QED
      BY <2>1, <3>1, ProcessSendKeeps
  <2> QED
    BY <1>3, <2>2, <2>3 DEF pittacus_gossip_process_send
<1>4. CASE TimePasses
  BY <1>4, TimePassesKeeps
<1>5. CASE UNCHANGED vars
  BY <1>5 DEF vars, WireInv
<1> QED
  BY <1>1, <1>2, <1>3, <1>4, <1>5 DEF Next

\* Each envelope in the queue finds its message in the buffer it points at, whoever
\* else points at it, has written into it or has used it before, and what has been
\* handed to the socket decodes to the message of the envelope (gossip_enqueue_message,
\* pittacus_gossip_process_send).
THEOREM WireInvHolds == Spec => []WireInv
<1>1. Init => WireInv
  BY InitWireInv
<1>2. WireInv /\ [Next]_vars => WireInv'
  BY NextWireInv
<1> QED
  BY <1>1, <1>2, PTL DEF Spec

\* The receiver reads what was sent: from the bytes that one attempt hands to the
\* socket, the decoders of messages.c get the message for which the envelope was
\* created and the number of that envelope.  For every size of buffer, any number of
\* buffers, every payload, address, list and clock that fits.
THEOREM CarriesContents == Spec => []WireCarriesContents
<1>1. WireInv => WireCarriesContents
  BY DEF WireInv, WireCarriesContents, Understood
<1> QED
  BY <1>1, WireInvHolds, PTL

-----------------------------------------------------------------------------
(* What is refused *)

\* Room for a WELCOME with the largest address, for the 14 bytes in front of a
\* full MEMBER_LIST, and for the status of a full clock.
SizesFit ==
    /\ MESSAGE_MAX_SIZE >= 160
    /\ MESSAGE_MAX_SIZE % CLUSTER_MEMBER_SIZE >= 14
    /\ MESSAGE_MAX_SIZE >= 14 + 12 * MAX_VECTOR_SIZE

\* The default configuration.
LEMMA DefaultSizesFit ==
    ASSUME MESSAGE_MAX_SIZE = 512, MAX_VECTOR_SIZE = 20
    PROVE  SizesFit
<1>1. 512 % 138 = 98
  OBVIOUS
<1> QED
  BY <1>1 DEF SizesFit, CLUSTER_MEMBER_SIZE

\* What MEMBER_LIST_SYNC_SIZE, a quotient, leaves of a buffer.
LEMMA Quotient ==
    ASSUME NEW a \in Nat, NEW L \in Nat
    PROVE  /\ L <= a \div 138 /\ a % 138 >= 14 => 14 + 138 * L <= a
           /\ L = a \div 138 /\ a % 138 < 14 => a < 14 + 138 * L
OBVIOUS

\* The only message that an encoder refuses is a payload that leaves no room for
\* the 26 bytes in front of it.
LEMMA RefusedIsLargeData ==
    ASSUME SizesFit, NEW msg \in Message, ~ Encodable(msg)
    PROVE  msg.type = "DATA" /\ DataSize[msg.record.data] > MESSAGE_MAX_SIZE - 26
<1>1. /\ msg \in ProtocolMessage /\ MESSAGE_MAX_SIZE \in Nat /\ MESSAGE_MAX_SIZE >= 160
      /\ MAX_VECTOR_SIZE \in Nat
  BY MessageAssumption, MaxSizeIsNat, MaxVectorSizeAssumption DEF SizesFit
<1>2. PICK want : /\ want = gossip_encode_message(msg).expected
                  /\ ~ (12 + want <= MESSAGE_MAX_SIZE)
  BY DEF Encodable, message_header_size
<1>3. msg.type # "HELLO"
  <2> SUFFICES ASSUME msg.type = "HELLO" PROVE FALSE
    OBVIOUS
  <2>1. PICK m \in Member : m = msg.this_member
    BY <1>1, MessageFieldTypes
  <2>2. PICK len \in 16 .. 128 : len = AddressLen[m.address]
    BY AddressLenAssumption DEF Member
  <2>3. want = 16 + len
    BY <1>2, <2>1, <2>2 DEF gossip_encode_message, message_hello_encode,
                            cluster_member_struct_size
  <2> QED
    BY <1>1, <1>2, <2>3
<1>4. msg.type # "WELCOME"
  <2> SUFFICES ASSUME msg.type = "WELCOME" PROVE FALSE
    OBVIOUS
  <2>1. PICK m \in Member : m = msg.this_member
    BY <1>1, MessageFieldTypes
  <2>2. PICK len \in 16 .. 128 : len = AddressLen[m.address]
    BY AddressLenAssumption DEF Member
  <2>3. want = 4 + 16 + len
    BY <1>2, <2>1, <2>2 DEF gossip_encode_message, message_welcome_encode,
                            cluster_member_struct_size
  <2> QED
    BY <1>1, <1>2, <2>3
<1>5. msg.type # "ACK"
  <2> SUFFICES ASSUME msg.type = "ACK" PROVE FALSE
    OBVIOUS
  <2>1. want = 4
    BY <1>2 DEF gossip_encode_message, message_ack_encode
  <2> QED
    BY <1>1, <1>2, <2>1
<1>6. msg.type # "MEMBER_LIST"
  <2> SUFFICES ASSUME msg.type = "MEMBER_LIST" PROVE FALSE
    OBVIOUS
  <2>1. PICK ms \in Seq(Member) : ms = msg.members
    BY <1>1, MessageFieldTypes
  <2>2. PICK L \in Nat : L = Len(ms)
    OBVIOUS
  <2>3. CLUSTER_MEMBER_SIZE = 138
    BY DEF CLUSTER_MEMBER_SIZE
  <2>4. want = 2 + L * 138
    BY <1>2, <2>1, <2>2, <2>3 DEF gossip_encode_message, message_member_list_encode
  <2>5. L <= MESSAGE_MAX_SIZE \div 138 /\ MESSAGE_MAX_SIZE % 138 >= 14
    BY <2>1, <2>2, <2>3, MessageAssumption DEF SizesFit, MEMBER_LIST_SYNC_SIZE
  <2>6. 14 + 138 * L <= MESSAGE_MAX_SIZE
    BY <1>1, <2>5, Quotient
  <2> QED
    BY <1>1, <1>2, <2>4, <2>6
<1>7. msg.type # "STATUS"
  <2> SUFFICES ASSUME msg.type = "STATUS" PROVE FALSE
    OBVIOUS
  <2>1. PICK rs \in Seq(Version) : rs = msg.records
    BY <1>1, MessageFieldTypes
  <2>2. PICK L \in Nat : L = Len(rs)
    OBVIOUS
  <2>3. want = 2 + L * 12
    BY <1>2, <2>1, <2>2 DEF gossip_encode_message, message_status_encode, VECTOR_RECORD_SIZE
  <2>4. L <= MAX_VECTOR_SIZE
    BY <2>1, <2>2, MessageAssumption
  <2>5. MESSAGE_MAX_SIZE >= 14 + 12 * MAX_VECTOR_SIZE
    BY DEF SizesFit
  <2> QED
    BY <1>1, <1>2, <2>3, <2>4, <2>5
<1>8. msg.type = "DATA"
  BY <1>1, <1>3, <1>4, <1>5, <1>6, <1>7, MessageFieldTypes
<1>9. PICK size \in Nat : size = DataSize[msg.record.data]
  BY <1>1, <1>8, MessageFieldTypes, DataSizeAssumption
<1>10. want = 12 + 2 + size
  BY <1>2, <1>8, <1>9 DEF gossip_encode_message, message_data_encode, VECTOR_RECORD_SIZE
<1>11. size > MESSAGE_MAX_SIZE - 26
  BY <1>1, <1>2, <1>10
<1> QED
  BY <1>8, <1>9, <1>11

\* That the remainder is large enough is needed: where it is less than the 14 bytes
\* in front of the members, a full MEMBER_LIST is refused by its own encoder
\* (message_member_list_encode), and the members in it are never told.
LEMMA FullListRefused ==
    ASSUME NEW msg \in ProtocolMessage, msg.type = "MEMBER_LIST",
           Len(msg.members) = MEMBER_LIST_SYNC_SIZE,
           MESSAGE_MAX_SIZE % CLUSTER_MEMBER_SIZE < 14
    PROVE  ~ Encodable(msg)
<1>1. PICK ms \in Seq(Member) : ms = msg.members
  BY MessageFieldTypes
<1>2. PICK L \in Nat : L = Len(ms)
  OBVIOUS
<1>3. CLUSTER_MEMBER_SIZE = 138
  BY DEF CLUSTER_MEMBER_SIZE
<1>4. L = MESSAGE_MAX_SIZE \div 138 /\ MESSAGE_MAX_SIZE % 138 < 14
  BY <1>1, <1>2, <1>3 DEF MEMBER_LIST_SYNC_SIZE
<1>5. MESSAGE_MAX_SIZE < 14 + 138 * L /\ MESSAGE_MAX_SIZE \in Nat
  BY <1>4, Quotient, MaxSizeIsNat
<1>6. gossip_encode_message(msg).expected = 2 + L * 138
  BY <1>1, <1>2, <1>3 DEF gossip_encode_message, message_member_list_encode
<1> QED
  BY <1>5, <1>6 DEF Encodable, message_header_size

\* What is refused, was offered and did not fit.
RefusedInv == \A msg \in refused : msg \in Message /\ ~ Encodable(msg)

\* gossip_encode_message refuses nothing but a payload that is too large, and
\* writes nothing past the end of a buffer: in every configuration whose sizes fit.
THEOREM RefusesOnlyData == SizesFit => (Spec => []OnlyDataIsRefused)
<1> SUFFICES ASSUME SizesFit PROVE Spec => []OnlyDataIsRefused
  OBVIOUS
<1>1. Init => RefusedInv
  BY DEF Init, RefusedInv
<1>2. RefusedInv /\ [Next]_vars => RefusedInv'
  <2> SUFFICES ASSUME RefusedInv, [Next]_vars PROVE RefusedInv'
    OBVIOUS
  <2>1. CASE \E msg \in Message, rs \in Recipients : Submit(msg, rs)
    <3>1. PICK msg \in Message, rs \in Recipients : Submit(msg, rs)
      BY <2>1
    <3>2. refused' = IF Encodable(msg) THEN {} ELSE {msg}
      BY <3>1 DEF Submit
    <3> QED
      BY <3>2 DEF RefusedInv
  <2>2. CASE refused' = {}
    BY <2>2 DEF RefusedInv
  <2>3. CASE UNCHANGED vars
    BY <2>3 DEF vars, RefusedInv
  <2> QED
    BY <2>1, <2>2, <2>3
       DEF Next, Acknowledge, pittacus_gossip_process_send, ProcessSend, TimePasses
<1>3. WireInv /\ RefusedInv => OnlyDataIsRefused
  <2> SUFFICES ASSUME WireInv, RefusedInv PROVE OnlyDataIsRefused
    OBVIOUS
  <2>1. \A msg \in refused :
            msg.type = "DATA" /\ DataSize[msg.record.data] > MESSAGE_MAX_SIZE - 26
    BY RefusedIsLargeData DEF RefusedInv
  <2>2. \A b \in Buffers : Sound(output_buffer[b])
    BY DEF WireInv, Holds
  <2> QED
    BY <2>1, <2>2 DEF OnlyDataIsRefused, Sound
<1> QED
  BY <1>1, <1>2, <1>3, WireInvHolds, PTL DEF Spec

=============================================================================
