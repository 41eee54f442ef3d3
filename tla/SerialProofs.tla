------------------------------ MODULE SerialProofs ------------------------------
(***************************************************************************)
(* Proofs about the serial port: Ring, the log and the command channel,    *)
(* for rings of any size and any bytes, messages and packets.              *)
(*                                                                         *)
(* Messages and packets are read byte by byte, so that some facts need     *)
(* induction.  The theorems of the library about it have an operator as a  *)
(* parameter; SetInduction is about a set instead, and comes from the      *)
(* well-foundedness of < on Nat, which has none.                           *)
(***************************************************************************)
EXTENDS Log, Command, SequenceTheorems, WellFoundedInduction, TLAPS

-----------------------------------------------------------------------------
(* Induction.                                                               *)

Less == {ss \in Nat \X Nat : ss[1] < ss[2]}

LEMMA LessWellFounded == IsWellFoundedOn(Less, Nat)
BY NatLessThanWellFounded DEF OpToRel, Less

\* A set of numbers that is not empty has a least one.
LEMMA Least ==
  ASSUME NEW S \in SUBSET Nat, S # {}
  PROVE  \E m \in S : \A n \in S : m <= n
<1>1. PICK m \in S : \A n \in S : <<n, m>> \notin Less
  BY LessWellFounded, WFMin, Zenon
<1>2. ASSUME NEW n \in S PROVE m <= n
  <2>1. <<n, m>> \in Nat \X Nat
    OBVIOUS
  <2>2. ~(n < m)
    BY <1>1, <2>1 DEF Less
  <2>3. m \in Nat /\ n \in Nat
    OBVIOUS
  <2> QED BY <2>2, <2>3
<1> QED BY <1>2

LEMMA SetInduction ==
  ASSUME NEW S, 0 \in S, \A n \in Nat : n \in S => n + 1 \in S
  PROVE  \A n \in Nat : n \in S
<1> SUFFICES ASSUME NEW k \in Nat, k \notin S PROVE FALSE
  OBVIOUS
<1> DEFINE T == {n \in Nat : n \notin S}
<1>1. PICK m \in T : \A n \in T : m <= n
  <2>1. T \in SUBSET Nat /\ T # {}
    OBVIOUS
  <2> QED BY <2>1, Least
<1>2. m # 0 /\ m \in Nat
  OBVIOUS
<1>3. m - 1 \in Nat /\ m - 1 \notin T
  BY <1>1, <1>2
<1>4. (m - 1) + 1 \in S
  BY <1>3
<1> QED BY <1>2, <1>4

\* Of a relation that holds of whatever it holds of all that is smaller.
LEMMA RankInduction ==
  ASSUME NEW D, NEW rank \in [D -> Nat], NEW S,
         \A d \in D : (\A e \in D : rank[e] < rank[d] => e \in S) => d \in S
  PROVE  \A d \in D : d \in S
<1> DEFINE T == {n \in Nat : \A d \in D : rank[d] < n => d \in S}
<1>1. 0 \in T
  OBVIOUS
<1>2. ASSUME NEW n \in Nat, n \in T PROVE n + 1 \in T
  <2>1. ASSUME NEW d \in D, rank[d] < n + 1 PROVE d \in S
    <3>1. ASSUME NEW e \in D, rank[e] < rank[d] PROVE e \in S
      <4>1. rank[e] \in Nat /\ rank[d] \in Nat
        OBVIOUS
      <4>2. rank[e] < n
        BY <2>1, <3>1, <4>1
      <4> QED BY <1>2, <4>2
    <3> QED BY <3>1
  <2> QED BY <2>1
<1>3. \A n \in Nat : n \in T
  <2> HIDE DEF T
  <2> QED BY <1>1, <1>2, SetInduction
<1>4. ASSUME NEW d \in D PROVE d \in S
  <2>1. rank[d] + 1 \in Nat /\ rank[d] < rank[d] + 1
    OBVIOUS
  <2> QED BY <1>3, <2>1
<1> QED BY <1>4

\* A recursive function exists if what it is of an argument depends on what it
\* is of smaller ones only.
Recursive(D, X, rank, H) ==
  /\ X # {} /\ rank \in [D -> Nat]
  /\ \A d \in D, f \in [D -> X] : H[d][f] \in X
  /\ \A d \in D, f \in [D -> X], g \in [D -> X] :
       (\A e \in D : rank[e] < rank[d] => f[e] = g[e]) => H[d][f] = H[d][g]

LEMMA RecursionExists ==
  ASSUME NEW D, NEW X, NEW rank, NEW H, Recursive(D, X, rank, H)
  PROVE  \E f \in [D -> X] : \A d \in D : f[d] = H[d][f]
<1> USE DEF Recursive
<1> DEFINE Upto(n, f) == \A d \in D : rank[d] < n => f[d] = H[d][f]
           S == {n \in Nat : \E f \in [D -> X] : Upto(n, f)}
<1>0. \A d \in D : rank[d] \in Nat
  OBVIOUS
<1>1. 0 \in S
  <2>1. PICK x : x \in X
    OBVIOUS
  <2>2. [d \in D |-> x] \in [D -> X] /\ Upto(0, [d \in D |-> x])
    BY <1>0, <2>1
  <2> QED BY <2>2
<1>2. ASSUME NEW n \in Nat, n \in S PROVE n + 1 \in S
  <2>1. PICK f \in [D -> X] : Upto(n, f)
    BY <1>2
  <2> DEFINE g == [d \in D |-> H[d][f]]
  <2>2. g \in [D -> X]
    OBVIOUS
  <2>3. ASSUME NEW d \in D, rank[d] < n + 1 PROVE g[d] = H[d][g]
    <3>1. ASSUME NEW e \in D, rank[e] < rank[d] PROVE f[e] = g[e]
      <4>1. rank[e] < n
        BY <1>0, <2>3, <3>1
      <4> QED BY <2>1, <4>1
    <3>2. H[d][f] = H[d][g]
      <4> HIDE DEF g
      <4> QED BY <2>2, <3>1
    <3> QED BY <3>2
  <2>4. Upto(n + 1, g)
    BY <2>3
  <2> HIDE DEF g, Upto
  <2> QED BY <2>2, <2>4
<1>3. \A n \in Nat : n \in S
  <2> HIDE DEF S
  <2> QED BY <1>1, <1>2, SetInduction
<1> DEFINE G == [n \in Nat |-> CHOOSE f \in [D -> X] : Upto(n, f)]
<1>4. \A n \in Nat : G[n] \in [D -> X] /\ Upto(n, G[n])
  BY <1>3
<1> HIDE DEF G
<1>5. \A d \in D : \A m \in Nat, n \in Nat :
        rank[d] < m /\ rank[d] < n => G[m][d] = G[n][d]
  <2> DEFINE A == {d \in D : \A m \in Nat, n \in Nat :
                      rank[d] < m /\ rank[d] < n => G[m][d] = G[n][d]}
  <2>1. ASSUME NEW d \in D, \A e \in D : rank[e] < rank[d] => e \in A
        PROVE  d \in A
    <3>1. ASSUME NEW m \in Nat, NEW n \in Nat, rank[d] < m, rank[d] < n
          PROVE  G[m][d] = G[n][d]
      <4>1. \A e \in D : rank[e] < rank[d] => G[m][e] = G[n][e]
        BY <1>0, <2>1, <3>1
      <4>2. H[d][G[m]] = H[d][G[n]]
        BY <1>4, <4>1
      <4> QED BY <1>4, <3>1, <4>2
    <3> QED BY <3>1
  <2>2. \A d \in D : d \in A
    <3> HIDE DEF A
    <3> QED BY <2>1, RankInduction
  <2> QED BY <2>2
<1> DEFINE F == [d \in D |-> G[rank[d] + 1][d]]
<1>6. F \in [D -> X]
  BY <1>0, <1>4
<1>7. ASSUME NEW d \in D PROVE F[d] = H[d][F]
  <2>1. rank[d] + 1 \in Nat /\ rank[d] < rank[d] + 1
    BY <1>0
  <2>2. ASSUME NEW e \in D, rank[e] < rank[d] PROVE F[e] = G[rank[d] + 1][e]
    <3>1. rank[e] + 1 \in Nat /\ rank[e] < rank[e] + 1 /\ rank[e] < rank[d] + 1
      BY <1>0, <2>2
    <3> QED BY <1>5, <2>1, <3>1
  <2>3. H[d][F] = H[d][G[rank[d] + 1]]
    <3> HIDE DEF F
    <3> QED BY <1>4, <1>6, <2>1, <2>2
  <2> QED BY <1>4, <2>1, <2>3
<1> QED BY <1>6, <1>7

-----------------------------------------------------------------------------
(* Ring: its operations do to its contents what those of a queue do.        *)

\* The remainder where it is used: of less than twice the divisor.
LEMMA ModIs ==
  ASSUME NEW n \in Nat \ {0}, NEW x \in 0..(2 * n - 1)
  PROVE  x % n = IF x < n THEN x ELSE x - n
<1>1. CASE x < n
  BY <1>1
<1>2. CASE x >= n
  BY <1>2
<1> QED BY <1>1, <1>2

LEMMA ModPlus ==
  ASSUME NEW n \in Nat \ {0}, NEW a \in 0..n
  PROVE  (a + n) % n = a % n
<1>1. CASE a < n
  <2>1. a % n = a
    BY <1>1
  <2>2. PICK x \in 0..(2 * n - 1) : x = a + n /\ ~(x < n) /\ x - n = a
    BY <1>1
  <2>3. x % n = x - n
    BY <2>2, ModIs
  <2> QED BY <2>1, <2>2, <2>3
<1>2. CASE a = n
  BY <1>2
<1> QED BY <1>1, <1>2

\* The fields of a ring.
LEMMA Fields ==
  ASSUME NEW Ch, NEW sz \in Nat \ {0}, NEW r \in RingOf(sz, Ch)
  PROVE  /\ r = [size |-> sz, data |-> r.data, begin |-> r.begin, end |-> r.end]
         /\ r.size = sz /\ r.data \in [Places(sz) -> Ch]
         /\ r.begin \in Int /\ 0 <= r.begin /\ r.begin < sz
         /\ r.end \in Int /\ 0 <= r.end /\ r.end < sz
BY DEF RingOf, Places

\* The length of a ring, and the place of its i-th byte.
LEMMA LenIs ==
  ASSUME NEW Ch, NEW sz \in Nat \ {0}, NEW r \in RingOf(sz, Ch)
  PROVE  /\ RingLen(r) = IF r.end >= r.begin THEN r.end - r.begin
                                             ELSE r.end - r.begin + sz
         /\ RingLen(r) \in 0..(sz - 1)
<1>1. (r.end - r.begin) + r.size \in 0..(2 * sz - 1)
  BY Fields
<1>2. RingLen(r) = ((r.end - r.begin) + sz) % sz
  BY Fields DEF RingLen, ring_marklen
<1> QED BY <1>1, <1>2, ModIs, Fields

LEMMA PlaceIs ==
  ASSUME NEW Ch, NEW sz \in Nat \ {0}, NEW r \in RingOf(sz, Ch),
         NEW i \in 1..sz
  PROVE  /\ (r.begin + i - 1) % r.size = IF r.begin + i - 1 < sz
              THEN r.begin + i - 1 ELSE r.begin + i - 1 - sz
         /\ (r.begin + i - 1) % r.size \in Places(sz)
<1>1. r.begin + i - 1 \in 0..(2 * sz - 1)
  BY Fields
<1> QED BY <1>1, ModIs, Fields DEF Places

LEMMA SuccIs ==
  ASSUME NEW Ch, NEW sz \in Nat \ {0}, NEW r \in RingOf(sz, Ch),
         NEW p \in Places(sz)
  PROVE  /\ Succ(r, p) = IF p + 1 = sz THEN 0 ELSE p + 1
         /\ Succ(r, p) \in Places(sz)
<1>1. Succ(r, p) = (p + 1) % sz
  BY Fields DEF Succ
<1>2. p \in Int /\ 0 <= p /\ p < sz
  BY DEF Places
<1>3. (p + 1) % sz = IF p + 1 = sz THEN 0 ELSE p + 1
  <2>1. CASE p + 1 < sz
    BY <1>2, <2>1
  <2>2. CASE p + 1 = sz
    BY <1>2, <2>2
  <2> QED BY <1>2, <2>1, <2>2
<1>4. Succ(r, p) = IF p + 1 = sz THEN 0 ELSE p + 1
  BY <1>1, <1>2, <1>3
<1> QED BY <1>2, <1>4 DEF Places

\* The contents of a ring are a sequence of its bytes, one fewer at most than
\* it has places.
THEOREM ContentsType ==
  ASSUME NEW Ch, NEW sz \in Nat \ {0}, NEW r \in RingOf(sz, Ch)
  PROVE  /\ Contents(r) \in Seq(Ch)
         /\ Len(Contents(r)) = RingLen(r)
         /\ RingLen(r) \in 0..(sz - 1)
<1>1. RingLen(r) \in 0..(sz - 1)
  BY LenIs
<1>2. ASSUME NEW i \in 1..RingLen(r)
      PROVE  r.data[(r.begin + i - 1) % r.size] \in Ch
  <2>1. i \in 1..sz
    BY <1>1
  <2>2. (r.begin + i - 1) % r.size \in Places(sz)
    BY <2>1, PlaceIs
  <2> QED BY <2>2, Fields
<1> QED BY <1>1, <1>2 DEF Contents

\* Two sequences of the same length and elements are equal.
LEMMA SameSeq ==
  ASSUME NEW S, NEW s \in Seq(S), NEW t \in Seq(S), Len(s) = Len(t),
         \A i \in 1..Len(s) : s[i] = t[i]
  PROVE  s = t
BY SeqEqual

LEMMA RoomIs ==
  ASSUME NEW Ch, NEW sz \in Nat \ {0}, NEW r \in RingOf(sz, Ch)
  PROVE  HasRoom(r) <=> RingLen(r) < sz - 1
<1>1. r.end \in Places(sz) /\ r.begin \in Places(sz)
  BY Fields DEF Places
<1> QED BY <1>1, SuccIs, LenIs, Fields DEF HasRoom

\* ring_write_ch appends to a ring that has room, and drops the byte when
\* the ring holds sz - 1.
THEOREM WriteAppends ==
  ASSUME NEW Ch, NEW sz \in Nat \ {0}, NEW r \in RingOf(sz, Ch),
         NEW c \in Ch
  PROVE  /\ ring_write_ch(r, c) \in RingOf(sz, Ch)
         /\ HasRoom(r) <=> Len(Contents(r)) < sz - 1
         /\ Contents(ring_write_ch(r, c)) =
              IF HasRoom(r) THEN Append(Contents(r), c) ELSE Contents(r)
<1> DEFINE w == ring_write_ch(r, c)
<1>0. r.end \in Places(sz) /\ r.begin \in Places(sz)
  BY Fields DEF Places
<1>1. HasRoom(r) <=> RingLen(r) < sz - 1
  BY RoomIs
<1>2. ASSUME HasRoom(r)
      PROVE  w \in RingOf(sz, Ch) /\ Contents(w) = Append(Contents(r), c)
  <2>1. w = [size |-> sz, data |-> [r.data EXCEPT ![r.end] = c],
             begin |-> r.begin, end |-> Succ(r, r.end)]
    BY <1>2, Fields DEF ring_write_ch
  <2>2. w \in RingOf(sz, Ch)
    BY <2>1, <1>0, SuccIs, Fields DEF RingOf
  <2>3. RingLen(w) = RingLen(r) + 1
    <3>1. w.begin = r.begin /\ w.end = IF r.end + 1 = sz THEN 0 ELSE r.end + 1
      BY <2>1, <1>0, SuccIs
    <3>2. RingLen(w) = IF w.end >= w.begin THEN w.end - w.begin
                                           ELSE w.end - w.begin + sz
      BY <2>2, LenIs
    <3> QED BY <3>1, <3>2, <1>1, <1>2, LenIs, Fields
  <2>4. ASSUME NEW i \in 1..RingLen(w)
        PROVE  Contents(w)[i] = Append(Contents(r), c)[i]
    <3> DEFINE p == (r.begin + i - 1) % r.size
    <3>1. i \in 1..sz
      BY <2>2, LenIs
    <3>2. p \in Places(sz) /\ (p = r.end <=> i = RingLen(r) + 1)
      BY <3>1, <2>3, PlaceIs, LenIs, Fields
    <3>3. Contents(w)[i] = [r.data EXCEPT ![r.end] = c][p]
      BY <2>1, Fields DEF Contents
    <3>4. i # RingLen(r) + 1 => Contents(r)[i] = r.data[p]
      BY <2>3, LenIs DEF Contents
    <3>5. Append(Contents(r), c)[i] = IF i = RingLen(r) + 1 THEN c
                                                       ELSE Contents(r)[i]
      BY <2>3, ContentsType
    <3> QED BY <3>2, <3>3, <3>4, <3>5, Fields
  <2>5. Append(Contents(r), c) \in Seq(Ch)
        /\ Len(Append(Contents(r), c)) = RingLen(r) + 1
    BY ContentsType
  <2>6. Contents(w) \in Seq(Ch) /\ Len(Contents(w)) = RingLen(w)
    BY <2>2, ContentsType
  <2>7. Contents(w) = Append(Contents(r), c)
    BY <2>3, <2>4, <2>5, <2>6, SameSeq
  <2> QED BY <2>2, <2>7
<1>3. ASSUME ~HasRoom(r)
      PROVE  w = r
  BY <1>3 DEF ring_write_ch
<1> QED BY <1>1, <1>2, <1>3, ContentsType

\* ring_read_ch returns and removes the byte written first.
THEOREM ReadTakesHead ==
  ASSUME NEW Ch, NEW sz \in Nat \ {0}, NEW r \in RingOf(sz, Ch)
  PROVE  /\ ring_read_ch(r) \in RingOf(sz, Ch)
         /\ RING_EMPTY(r) <=> Contents(r) = <<>>
         /\ ~RING_EMPTY(r) => /\ ring_peek(r) = Head(Contents(r))
                              /\ Contents(ring_read_ch(r)) = Tail(Contents(r))
<1> DEFINE t == ring_read_ch(r)
<1>0. r.begin \in Places(sz)
  BY Fields DEF Places
<1>1. RING_EMPTY(r) <=> RingLen(r) = 0
  BY LenIs, Fields DEF RING_EMPTY
<1>2. RING_EMPTY(r) <=> Contents(r) = <<>>
  BY <1>1, ContentsType
<1>3. ASSUME ~RING_EMPTY(r)
      PROVE  /\ t \in RingOf(sz, Ch)
             /\ ring_peek(r) = Head(Contents(r))
             /\ Contents(t) = Tail(Contents(r))
  <2>1. t = [size |-> sz, data |-> r.data, begin |-> Succ(r, r.begin),
             end |-> r.end]
    BY <1>3, Fields DEF ring_read_ch
  <2>2. t \in RingOf(sz, Ch)
    <3>1. Succ(r, r.begin) \in Places(sz) /\ r.end \in Places(sz)
      BY <1>0, SuccIs, Fields DEF Places
    <3> QED BY <2>1, <3>1, Fields DEF RingOf
  <2>3. RingLen(r) >= 1 /\ RingLen(t) = RingLen(r) - 1
    <3>1. t.end = r.end /\ t.begin = IF r.begin + 1 = sz THEN 0 ELSE r.begin + 1
      BY <2>1, <1>0, SuccIs
    <3>2. RingLen(t) = IF t.end >= t.begin THEN t.end - t.begin
                                           ELSE t.end - t.begin + sz
      BY <2>2, LenIs
    <3> QED BY <3>1, <3>2, <1>1, <1>3, LenIs, Fields
  <2>4. ring_peek(r) = Contents(r)[1]
    <3>1. 1 \in 1..sz /\ 1 \in 1..RingLen(r)
      BY <2>3, LenIs
    <3>2. (r.begin + 1 - 1) % r.size = r.begin
      BY <3>1, PlaceIs, Fields
    <3> QED BY <3>1, <3>2 DEF Contents, ring_peek
  <2>5. ASSUME NEW i \in 1..RingLen(t)
        PROVE  Contents(t)[i] = Contents(r)[i + 1]
    <3>1. i \in 1..sz /\ i + 1 \in 1..sz /\ i + 1 \in 1..RingLen(r)
      BY <2>3, LenIs
    <3>2. (t.begin + i - 1) % t.size = (r.begin + (i + 1) - 1) % r.size
      <4>1. (t.begin + i - 1) % t.size = IF t.begin + i - 1 < sz
              THEN t.begin + i - 1 ELSE t.begin + i - 1 - sz
        BY <3>1, <2>2, PlaceIs
      <4>2. (r.begin + (i + 1) - 1) % r.size = IF r.begin + (i + 1) - 1 < sz
              THEN r.begin + (i + 1) - 1 ELSE r.begin + (i + 1) - 1 - sz
        BY <3>1, PlaceIs
      <4>3. t.begin = IF r.begin + 1 = sz THEN 0 ELSE r.begin + 1
        BY <2>1, <1>0, SuccIs
      <4> QED BY <4>1, <4>2, <4>3, <3>1, <2>3, LenIs, Fields
    <3>3. t.data = r.data
      BY <2>1
    <3> QED BY <3>1, <3>2, <3>3 DEF Contents
  <2>6. Contents(t) \in Seq(Ch) /\ Len(Contents(t)) = RingLen(t)
    BY <2>2, ContentsType
  <2>7. Contents(r) \in Seq(Ch) /\ Len(Contents(r)) = RingLen(r)
    BY ContentsType
  <2>8. /\ Head(Contents(r)) = Contents(r)[1]
        /\ Tail(Contents(r)) \in Seq(Ch)
        /\ Len(Tail(Contents(r))) = RingLen(r) - 1
        /\ \A i \in 1..(RingLen(r) - 1) : Tail(Contents(r))[i] = Contents(r)[i + 1]
    BY <2>3, <2>7
  <2>9. Contents(t) = Tail(Contents(r))
    BY <2>3, <2>5, <2>6, <2>8, SameSeq
  <2> QED BY <2>2, <2>4, <2>8, <2>9
<1>4. CASE RING_EMPTY(r)
  BY <1>4, <1>2 DEF ring_read_ch
<1> QED BY <1>2, <1>3, <1>4

\* ring_read_contineous returns the first bytes of the contents and removes
\* them; it returns none only of an empty ring.
THEOREM ReadContineousTakesPrefix ==
  ASSUME NEW Ch, NEW sz \in Nat \ {0}, NEW r \in RingOf(sz, Ch),
         NEW maxlen \in Nat \ {0}
  PROVE  LET n == ring_contineous(r, maxlen)
         IN  /\ ring_read_contineous(r, maxlen) \in RingOf(sz, Ch)
             /\ n \in 0..RingLen(r) /\ n <= maxlen
             /\ ~RING_EMPTY(r) => n > 0
             /\ ring_chunk(r, maxlen) = SubSeq(Contents(r), 1, n)
             /\ Contents(ring_read_contineous(r, maxlen)) =
                  SubSeq(Contents(r), n + 1, RingLen(r))
<1> DEFINE n == ring_contineous(r, maxlen)
           t == ring_read_contineous(r, maxlen)
<1>1. /\ n \in 0..RingLen(r) /\ n <= maxlen /\ (~RING_EMPTY(r) => n > 0)
      /\ r.begin + n <= sz
      /\ r.end >= r.begin => r.begin + n <= r.end
  BY LenIs, Fields DEF ring_contineous, RING_EMPTY
<1>2. t = [size |-> sz, data |-> r.data, begin |-> (r.begin + n) % sz,
           end |-> r.end]
  BY Fields DEF ring_read_contineous
<1>3. ring_chunk(r, maxlen) = [i \in 1..n |-> r.data[r.begin + i - 1]]
  BY DEF ring_chunk
<1> HIDE DEF n, t
<1>4. (r.begin + n) % sz = IF r.begin + n = sz THEN 0 ELSE r.begin + n
  <2>1. r.begin + n \in 0..(2 * sz - 1)
    BY <1>1, LenIs, Fields
  <2> QED BY <2>1, <1>1, ModIs
<1>5. t \in RingOf(sz, Ch)
  <2>1. (r.begin + n) % sz \in Places(sz) /\ r.end \in Places(sz)
    BY <1>1, <1>4, LenIs, Fields DEF Places
  <2> QED BY <1>2, <2>1, Fields DEF RingOf
<1>6. RingLen(t) = RingLen(r) - n
  <2>1. RingLen(t) = IF t.end >= t.begin THEN t.end - t.begin
                                         ELSE t.end - t.begin + sz
    BY <1>5, LenIs
  <2>2. t.end = r.end /\ t.begin = IF r.begin + n = sz THEN 0 ELSE r.begin + n
    BY <1>2, <1>4
  <2> QED BY <2>1, <2>2, <1>1, LenIs, Fields
<1>7. Contents(r) \in Seq(Ch) /\ Len(Contents(r)) = RingLen(r)
      /\ RingLen(r) \in 0..(sz - 1)
  BY ContentsType
<1>8. ASSUME NEW i \in 1..RingLen(r)
      PROVE  Contents(r)[i] = r.data[IF r.begin + i - 1 < sz
               THEN r.begin + i - 1 ELSE r.begin + i - 1 - sz]
  <2>1. i \in 1..sz
    BY <1>7
  <2> QED BY <2>1, PlaceIs DEF Contents
<1>9. ring_chunk(r, maxlen) = SubSeq(Contents(r), 1, n)
  <2>1. ASSUME NEW i \in 1..n
        PROVE  r.data[r.begin + i - 1] = Contents(r)[i]
    <3>1. i \in 1..RingLen(r)
      BY <1>1, <1>7
    <3>2. r.begin + i - 1 < sz
      BY <1>1, <1>7, Fields
    <3> QED BY <3>1, <3>2, <1>8
  <2>2. SubSeq(Contents(r), 1, n) = [i \in 1..n |-> Contents(r)[i]]
    BY <1>1, <1>7
  <2> QED BY <2>1, <2>2, <1>3
<1>10. Contents(t) = SubSeq(Contents(r), n + 1, RingLen(r))
  <2>1. ASSUME NEW i \in 1..(RingLen(r) - n)
        PROVE  Contents(t)[i] = Contents(r)[i + n]
    <3>1. i \in 1..sz /\ i \in 1..RingLen(t) /\ i + n \in 1..RingLen(r)
      BY <1>1, <1>6, <1>7
    <3>2. (t.begin + i - 1) % t.size = IF t.begin + i - 1 < sz
              THEN t.begin + i - 1 ELSE t.begin + i - 1 - sz
      BY <3>1, <1>5, PlaceIs
    <3>3. t.data = r.data /\ t.begin = IF r.begin + n = sz THEN 0 ELSE r.begin + n
      BY <1>2, <1>4
    <3>4. Contents(t)[i] = r.data[(t.begin + i - 1) % t.size]
      BY <3>1, <3>3 DEF Contents
    <3>5. Contents(r)[i + n] = r.data[IF r.begin + (i + n) - 1 < sz
               THEN r.begin + (i + n) - 1 ELSE r.begin + (i + n) - 1 - sz]
      BY <3>1, <1>8
    <3>6. (t.begin + i - 1) % t.size = IF r.begin + (i + n) - 1 < sz
               THEN r.begin + (i + n) - 1 ELSE r.begin + (i + n) - 1 - sz
      <4>1. n \in Nat /\ r.begin \in Nat /\ i \in Nat /\ sz \in Nat
            /\ r.begin < sz /\ r.begin + n <= sz /\ 1 <= i /\ i + n < sz
        BY <3>1, <1>1, <1>7, Fields
      <4> QED BY <3>2, <3>3, <4>1
    <3> QED BY <3>4, <3>5, <3>6
  <2>2. Contents(t) \in Seq(Ch) /\ Len(Contents(t)) = RingLen(r) - n
    BY <1>5, <1>6, ContentsType
  <2>3. /\ SubSeq(Contents(r), n + 1, RingLen(r)) \in Seq(Ch)
        /\ Len(SubSeq(Contents(r), n + 1, RingLen(r))) = RingLen(r) - n
        /\ \A i \in 1..(RingLen(r) - n) :
             SubSeq(Contents(r), n + 1, RingLen(r))[i] = Contents(r)[i + n]
    BY <1>1, <1>7
  <2> QED BY <2>1, <2>2, <2>3, SameSeq
<1> QED BY <1>1, <1>5, <1>9, <1>10 DEF n, t
-----------------------------------------------------------------------------
(* Log: what a message leaves in the ring.                                  *)

LEMMA Sizes == /\ size \in Nat /\ size > 1 /\ size \in Nat \ {0}
               /\ EP_SIZE \in Nat /\ EP_SIZE > 0
BY LogAssumption

\* Rings with an end that may be one too far.
Wide == [size : {size}, data : [Places(size) -> Byte],
         begin : Places(size), end : 0..size]

LEMMA WideFields ==
  ASSUME NEW r \in Wide
  PROVE  /\ r = [size |-> size, data |-> r.data, begin |-> r.begin, end |-> r.end]
         /\ r.size = size /\ r.data \in [Places(size) -> Byte]
         /\ r.begin \in Int /\ 0 <= r.begin /\ r.begin < size
         /\ r.end \in Int /\ 0 <= r.end /\ r.end <= size
         /\ r.end # size => r \in RingOf(size, Byte)
BY Sizes DEF Wide, RingOf, Places

LEMMA WriteWide ==
  ASSUME NEW r \in Wide, NEW c \in Byte
  PROVE  /\ ring_write_ch(r, c) \in Wide
         /\ ring_write_ch(r, c).begin = r.begin
         /\ ring_write_ch(r, c).end = size => r.end = size
<1>1. Succ(r, r.end) \in Places(size)
  <2> DEFINE x == r.end + 1
  <2>1. Succ(r, r.end) = x % size
    BY WideFields DEF Succ
  <2>2. x \in 0..(2 * size - 1)
    BY WideFields, Sizes
  <2> HIDE DEF x
  <2>3. x % size = IF x < size THEN x ELSE x - size
    BY <2>2, Sizes, ModIs
  <2> QED BY <2>1, <2>2, <2>3, Sizes DEF Places
<1>2. CASE HasRoom(r)
  <2>1. ring_write_ch(r, c) =
          [size |-> size, data |-> [r.data EXCEPT ![r.end] = c],
           begin |-> r.begin, end |-> Succ(r, r.end)]
    BY <1>2, WideFields DEF ring_write_ch
  <2>2. [r.data EXCEPT ![r.end] = c] \in [Places(size) -> Byte]
    BY WideFields
  <2>3. Succ(r, r.end) \in 0..size /\ Succ(r, r.end) # size
    BY <1>1, Sizes DEF Places
  <2>4. r.begin \in Places(size)
    BY DEF Wide
  <2> QED BY <2>1, <2>2, <2>3, <2>4 DEF Wide
<1>3. CASE ~HasRoom(r)
  BY <1>3 DEF ring_write_ch
<1> QED BY <1>2, <1>3

\* What ring_write_ch does to each place, counted from begin.
LEMMA WritePlaces ==
  ASSUME NEW Ch, NEW sz \in Nat \ {0}, NEW r \in RingOf(sz, Ch), NEW c \in Ch
  PROVE  LET w == ring_write_ch(r, c)
         IN  /\ w \in RingOf(sz, Ch) /\ w.begin = r.begin
             /\ RingLen(w) = IF RingLen(r) < sz - 1 THEN RingLen(r) + 1
                                                    ELSE RingLen(r)
             /\ \A i \in 1..sz :
                  w.data[(r.begin + i - 1) % sz] =
                    IF RingLen(r) < sz - 1 /\ i = RingLen(r) + 1
                      THEN c ELSE r.data[(r.begin + i - 1) % sz]
<1> DEFINE w == ring_write_ch(r, c)
<1>1. /\ w \in RingOf(sz, Ch)
      /\ HasRoom(r) <=> RingLen(r) < sz - 1
      /\ Contents(w) = IF HasRoom(r) THEN Append(Contents(r), c) ELSE Contents(r)
  BY WriteAppends, ContentsType
<1>2. /\ Len(Contents(r)) = RingLen(r) /\ Contents(r) \in Seq(Ch)
      /\ RingLen(r) \in 0..(sz - 1)
  BY ContentsType
<1>3. Len(Contents(w)) = RingLen(w)
  BY <1>1, ContentsType
<1>4. RingLen(w) = IF HasRoom(r) THEN RingLen(r) + 1 ELSE RingLen(r)
  BY <1>1, <1>2, <1>3
<1>5. ASSUME NEW i \in 1..sz
      PROVE  w.data[(r.begin + i - 1) % sz] =
               IF HasRoom(r) /\ i = RingLen(r) + 1
                 THEN c ELSE r.data[(r.begin + i - 1) % sz]
  <2> DEFINE p == (r.begin + i - 1) % sz
  <2>1. p \in Places(sz) /\ (p = r.end <=> i = RingLen(r) + 1)
    <3>1. (r.begin + i - 1) % r.size = p
      BY Fields
    <3>2. p \in Places(sz) /\ p = IF r.begin + i - 1 < sz THEN r.begin + i - 1
                                              ELSE r.begin + i - 1 - sz
      BY <3>1, PlaceIs
    <3>3. RingLen(r) = IF r.end >= r.begin THEN r.end - r.begin
                                           ELSE r.end - r.begin + sz
      BY LenIs
    <3>4. r.begin \in 0..(sz - 1) /\ r.end \in 0..(sz - 1)
      BY Fields
    <3> HIDE DEF p
    <3> QED BY <3>2, <3>3, <3>4
  <2>2. w.data = IF HasRoom(r) THEN [r.data EXCEPT ![r.end] = c] ELSE r.data
    BY Fields DEF ring_write_ch
  <2> QED BY <2>1, <2>2, Fields
<1>6. w.begin = r.begin
  BY DEF ring_write_ch
<1> HIDE DEF w
<1>7. /\ w \in RingOf(sz, Ch) /\ w.begin = r.begin
      /\ RingLen(w) = IF RingLen(r) < sz - 1 THEN RingLen(r) + 1 ELSE RingLen(r)
      /\ \A i \in 1..sz :
           w.data[(r.begin + i - 1) % sz] =
             IF RingLen(r) < sz - 1 /\ i = RingLen(r) + 1
               THEN c ELSE r.data[(r.begin + i - 1) % sz]
  BY <1>1, <1>4, <1>5, <1>6
<1> QED BY <1>7 DEF w

\* The rings that a message leaves byte by byte.
Steps(g, msg) ==
  /\ g[0] = output_ring
  /\ \A i \in 1..Len(msg) : g[i] = ring_write_ch(g[i - 1], msg[i])
  /\ Logged(msg) = g[Len(msg)]

LEMMA LoggedSteps ==
  ASSUME NEW msg \in Seq(Byte)
  PROVE  \E g : Steps(g, msg)
<1> DEFINE Def(g, n) == g = [i \in 0..n |->
             IF i = 0 THEN output_ring ELSE ring_write_ch(g[i - 1], msg[i])]
           S == {n \in Nat : \E g : Def(g, n)}
<1>1. 0 \in S
  <2>1. Def([i \in 0..0 |-> output_ring], 0)
    OBVIOUS
  <2> QED BY <2>1
<1>2. ASSUME NEW n \in Nat, n \in S PROVE n + 1 \in S
  <2>1. PICK g : Def(g, n)
    BY <1>2
  <2> DEFINE h == [i \in 0..(n + 1) |->
               IF i = n + 1 THEN ring_write_ch(g[n], msg[n + 1]) ELSE g[i]]
  <2>2. ASSUME NEW i \in 0..(n + 1)
        PROVE  h[i] = IF i = 0 THEN output_ring ELSE ring_write_ch(h[i - 1], msg[i])
    <3>1. CASE i = 0
      BY <2>1, <3>1
    <3>2. CASE i = n + 1
      <4>1. n \in 0..(n + 1) /\ n # n + 1 /\ i - 1 = n /\ i # 0
        BY <3>2
      <4> QED BY <4>1, <3>2
    <3>3. CASE i \in 1..n
      <4>1. i \in 0..n /\ i - 1 \in 0..n /\ i # n + 1 /\ i - 1 # n + 1 /\ i # 0
        BY <3>3
      <4>2. h[i] = g[i] /\ h[i - 1] = g[i - 1]
        BY <4>1
      <4>3. g[i] = ring_write_ch(g[i - 1], msg[i])
        BY <2>1, <4>1
      <4> QED BY <4>1, <4>2, <4>3
    <3> QED BY <3>1, <3>2, <3>3
  <2>3. Def(h, n + 1)
    BY <2>2
  <2> HIDE DEF h, Def
  <2> QED BY <2>3
<1>3. Len(msg) \in S
  <2> HIDE DEF S
  <2> QED BY <1>1, <1>2, SetInduction
<1> DEFINE after == CHOOSE g : Def(g, Len(msg))
<1>4. Def(after, Len(msg))
  BY <1>3
<1>5. Logged(msg) = after[Len(msg)]
  BY DEF Logged
<1> HIDE DEF after
<1>6. Len(msg) \in Nat
  OBVIOUS
<1>7. Steps(after, msg)
  BY <1>4, <1>5, <1>6 DEF Steps
<1> QED BY <1>7

LEMMA LoggedWide ==
  ASSUME output_ring \in Wide, NEW msg \in Seq(Byte)
  PROVE  /\ Logged(msg) \in Wide
         /\ Logged(msg).begin = output_ring.begin
         /\ Logged(msg).end = size => output_ring.end = size
<1>1. PICK g : Steps(g, msg)
  BY LoggedSteps
<1> DEFINE Good(r) == /\ r \in Wide /\ r.begin = output_ring.begin
                      /\ r.end = size => output_ring.end = size
           S == {n \in Nat : n <= Len(msg) => Good(g[n])}
<1>2. 0 \in S
  BY <1>1 DEF Steps
<1>3. ASSUME NEW n \in Nat, n \in S PROVE n + 1 \in S
  <2> SUFFICES ASSUME n + 1 <= Len(msg) PROVE Good(g[n + 1])
    OBVIOUS
  <2>1. n <= Len(msg) /\ n + 1 \in 1..Len(msg) /\ (n + 1) - 1 = n
    OBVIOUS
  <2>2. Good(g[n])
    BY <1>3, <2>1
  <2>3. g[n + 1] = ring_write_ch(g[n], msg[n + 1])
    BY <1>1, <2>1 DEF Steps
  <2>4. msg[n + 1] \in Byte
    BY <2>1
  <2> QED BY <2>2, <2>3, <2>4, WriteWide
<1>4. Len(msg) \in S
  <2>1. Len(msg) \in Nat
    OBVIOUS
  <2> HIDE DEF S
  <2> QED BY <1>2, <1>3, <2>1, SetInduction
<1> QED BY <1>1, <1>4 DEF Steps

\* A message goes behind what is in the ring, as far as there is room, and
\* leaves all other places alone.
LEMMA LoggedRing ==
  ASSUME output_ring \in RingOf(size, Byte), NEW msg \in Seq(Byte)
  PROVE  LET w == Logged(msg)
             L == RingLen(output_ring)
         IN  /\ w \in RingOf(size, Byte) /\ w.begin = output_ring.begin
             /\ RingLen(w) = IF L + Len(msg) < size - 1 THEN L + Len(msg)
                                                        ELSE size - 1
             /\ \A i \in 1..size :
                  w.data[PlaceOf(i)] =
                    IF L < i /\ i <= RingLen(w) THEN msg[i - L]
                                                ELSE output_ring.data[PlaceOf(i)]
<1>1. PICK g : Steps(g, msg)
  BY LoggedSteps
<1> DEFINE L == RingLen(output_ring)
           Good(r, n) ==
             /\ r \in RingOf(size, Byte) /\ r.begin = output_ring.begin
             /\ RingLen(r) = IF L + n < size - 1 THEN L + n ELSE size - 1
             /\ \A i \in 1..size :
                  r.data[PlaceOf(i)] =
                    IF L < i /\ i <= RingLen(r) THEN msg[i - L]
                                                ELSE output_ring.data[PlaceOf(i)]
           S == {n \in Nat : n <= Len(msg) => Good(g[n], n)}
<1>2. L \in 0..(size - 1)
  BY LenIs, Sizes
<1> HIDE DEF L
<1>3. 0 \in S
  <2>1. g[0] = output_ring
    BY <1>1 DEF Steps
  <2>2. RingLen(output_ring) = IF L + 0 < size - 1 THEN L + 0 ELSE size - 1
    BY <1>2, Sizes DEF L
  <2>3. Good(g[0], 0)
    BY <2>1, <2>2, <1>2, Sizes DEF L
  <2> QED BY <2>3
<1>4. ASSUME NEW n \in Nat, n \in S PROVE n + 1 \in S
  <2> SUFFICES ASSUME n + 1 <= Len(msg) PROVE Good(g[n + 1], n + 1)
    OBVIOUS
  <2>1. n <= Len(msg) /\ n + 1 \in 1..Len(msg) /\ (n + 1) - 1 = n
    OBVIOUS
  <2> DEFINE r == g[n]
             w == g[n + 1]
  <2>2. Good(r, n)
    BY <1>4, <2>1
  <2>3. w = ring_write_ch(r, msg[n + 1])
    BY <1>1, <2>1 DEF Steps
  <2>4. msg[n + 1] \in Byte
    BY <2>1
  <2> HIDE DEF r, w
  <2>5. /\ w \in RingOf(size, Byte) /\ w.begin = r.begin
        /\ RingLen(w) = IF RingLen(r) < size - 1 THEN RingLen(r) + 1
                                                 ELSE RingLen(r)
        /\ \A i \in 1..size :
             w.data[PlaceOf(i)] =
               IF RingLen(r) < size - 1 /\ i = RingLen(r) + 1
                 THEN msg[n + 1] ELSE r.data[PlaceOf(i)]
    <3> DEFINE c == msg[n + 1]
    <3>1. c \in Byte /\ w = ring_write_ch(r, c) /\ r \in RingOf(size, Byte)
      BY <2>2, <2>3, <2>4
    <3> HIDE DEF c
    <3>2. /\ w \in RingOf(size, Byte) /\ w.begin = r.begin
          /\ RingLen(w) = IF RingLen(r) < size - 1 THEN RingLen(r) + 1
                                                   ELSE RingLen(r)
          /\ \A i \in 1..size :
               w.data[(r.begin + i - 1) % size] =
                 IF RingLen(r) < size - 1 /\ i = RingLen(r) + 1
                   THEN c ELSE r.data[(r.begin + i - 1) % size]
      BY <3>1, WritePlaces, Sizes
    <3>3. \A i \in 1..size : (r.begin + i - 1) % size = PlaceOf(i)
      BY <2>2 DEF PlaceOf
    <3> QED BY <3>2, <3>3 DEF c
  <2>6. RingLen(w) = IF L + (n + 1) < size - 1 THEN L + (n + 1) ELSE size - 1
    BY <2>2, <2>5, <1>2, Sizes
  <2>7. ASSUME NEW i \in 1..size
        PROVE  w.data[PlaceOf(i)] =
                 IF L < i /\ i <= RingLen(w) THEN msg[i - L]
                                             ELSE output_ring.data[PlaceOf(i)]
    <3>1. RingLen(r) \in Nat /\ RingLen(w) \in Nat /\ L \in Nat
      BY <2>2, <2>6, <1>2, Sizes
    <3>2. CASE RingLen(r) < size - 1 /\ i = RingLen(r) + 1
      <4>1. RingLen(r) = L + n /\ RingLen(w) = L + n + 1
        BY <3>2, <2>2, <2>6, <1>2, Sizes
      <4>2. i - L = n + 1 /\ L < i /\ i <= RingLen(w)
        BY <4>1, <3>2, <1>2
      <4> QED BY <4>2, <3>2, <2>5
    <3>3. CASE ~(RingLen(r) < size - 1 /\ i = RingLen(r) + 1)
      <4>1. w.data[PlaceOf(i)] = r.data[PlaceOf(i)]
        BY <3>3, <2>5
      <4>2. (L < i /\ i <= RingLen(r)) <=> (L < i /\ i <= RingLen(w))
        BY <3>1, <3>3, <2>5
      <4> QED BY <4>1, <4>2, <2>2
    <3> QED BY <3>2, <3>3
  <2> QED BY <2>2, <2>5, <2>6, <2>7 DEF w
<1>5. Len(msg) \in S
  <2>1. Len(msg) \in Nat
    OBVIOUS
  <2> HIDE DEF S
  <2> QED BY <1>3, <1>4, <2>1, SetInduction
<1>6. Good(Logged(msg), Len(msg))
  BY <1>1, <1>5 DEF Steps
<1> QED BY <1>6 DEF L

-----------------------------------------------------------------------------
(* Log: the invariant.                                                      *)

LEMMA ContineousIs ==
  ASSUME NEW Ch, NEW sz \in Nat \ {0}, NEW r \in RingOf(sz, Ch),
         NEW maxlen \in Nat
  PROVE  LET upTo == IF RingLen(r) < sz - r.begin THEN RingLen(r)
                                                  ELSE sz - r.begin
         IN  ring_contineous(r, maxlen) = IF upTo > maxlen THEN maxlen ELSE upTo
<1>1. RingLen(r) = IF r.end >= r.begin THEN r.end - r.begin
                                       ELSE r.end - r.begin + sz
  BY LenIs
<1>2. r.begin \in 0..(sz - 1) /\ r.end \in 0..(sz - 1) /\ r.size = sz
  BY Fields
<1> QED BY <1>1, <1>2 DEF ring_contineous

\* end moves on: the byte before it is the last of the queue.
LEMMA EndMoves ==
  ASSUME NEW r \in RingOf(size, Byte), HasRoom(r)
  PROVE  /\ [r EXCEPT !.end = r.end + 1] \in Wide
         /\ RingLen([r EXCEPT !.end = r.end + 1]) = RingLen(r) + 1
         /\ RingLen(r) + 1 \in 1..(size - 1)
         /\ (r.begin + (RingLen(r) + 1) - 1) % size = r.end
<1> DEFINE w == [r EXCEPT !.end = r.end + 1]
           L == RingLen(r)
<1>1. /\ r.begin \in 0..(size - 1) /\ r.end \in 0..(size - 1)
      /\ r.size = size /\ r.begin \in Places(size)
      /\ r.data \in [Places(size) -> Byte]
  BY Fields, Sizes DEF Places
<1>2. w = [size |-> size, data |-> r.data, begin |-> r.begin, end |-> r.end + 1]
  BY Fields, Sizes
<1>3. w \in Wide
  BY <1>1, <1>2, Sizes DEF Wide
<1>4. L = IF r.end >= r.begin THEN r.end - r.begin ELSE r.end - r.begin + size
  BY LenIs, Sizes
<1>5. L < size - 1 /\ L \in Nat
  BY RoomIs, LenIs, Sizes
<1> HIDE DEF w, L
<1>6. RingLen(w) = L + 1
  <2> DEFINE d == r.end + 1 - r.begin
  <2>1. RingLen(w) = (d + size) % size
    <3>1. w.end = r.end + 1 /\ w.begin = r.begin /\ w.size = size
      BY <1>2
    <3> QED BY <1>1, <3>1 DEF RingLen, ring_marklen
  <2>2. CASE r.end >= r.begin
    <3>1. d + size \in 0..(2 * size - 1) /\ d + size >= size /\ d = L + 1
      BY <2>2, <1>1, <1>4, <1>5, Sizes
    <3> HIDE DEF d
    <3> DEFINE x == d + size
    <3>2. x % size = IF x < size THEN x ELSE x - size
      <4>1. x \in 0..(2 * size - 1)
        BY <3>1
      <4> HIDE DEF x
      <4> QED BY <4>1, Sizes, ModIs
    <3> QED BY <2>1, <3>1, <3>2, <1>5, Sizes
  <2>3. CASE r.end < r.begin
    <3>1. d + size = L + 1 /\ L + 1 \in 0..(2 * size - 1)
      BY <2>3, <1>1, <1>4, <1>5, Sizes
    <3> HIDE DEF d
    <3> DEFINE x == L + 1
    <3>2. x % size = IF x < size THEN x ELSE x - size
      <4>1. x \in 0..(2 * size - 1)
        BY <3>1
      <4> HIDE DEF x
      <4> QED BY <4>1, Sizes, ModIs
    <3> QED BY <2>1, <3>1, <3>2, <1>5, Sizes
  <2> QED BY <2>2, <2>3, <1>1
<1>7. (r.begin + (L + 1) - 1) % size = r.end
  <2> DEFINE x == r.begin + (L + 1) - 1
  <2>1. x \in 0..(2 * size - 1) /\ r.end = IF x < size THEN x ELSE x - size
    BY <1>1, <1>4, <1>5, Sizes
  <2> HIDE DEF x
  <2>2. x % size = IF x < size THEN x ELSE x - size
    BY <2>1, Sizes, ModIs
  <2> QED BY <2>1, <2>2 DEF x
<1> QED BY <1>3, <1>5, <1>6, <1>7, Sizes DEF w, L

LEMMA RestRing ==
  ASSUME TypeOK, at \notin {"store", "reload", "wrap"} \/ output_ring.end # size
  PROVE  output_ring \in RingOf(size, Byte)
<1>1. output_ring \in Wide /\ output_ring.end # size
  BY DEF TypeOK, Wide
<1> QED BY <1>1, WideFields

LEMMA InitLog == Init => LogInv
<1> SUFFICES ASSUME Init PROVE LogInv
  OBVIOUS
<1>1. TypeOK
  <2>1. PICK b \in Byte : output_ring = ring_init([p \in Places(size) |-> b], size)
    BY DEF Init
  <2>2. 0 \in Places(size) /\ 0 \in 0..size /\ 0 # size
        /\ 0 \in 0..EP_SIZE /\ 0 \in 0..MaxResets
    BY Sizes, LogAssumption DEF Places
  <2>3. output_ring = [size |-> size, data |-> [p \in Places(size) |-> b],
                       begin |-> 0, end |-> 0]
    BY <2>1 DEF ring_init
  <2>4. output_ring \in [size : {size}, data : [Places(size) -> Byte],
                         begin : Places(size), end : 0..size]
        /\ output_ring.end = 0
    BY <2>2, <2>3
  <2>5. buf = 0 /\ len = 0 /\ buf + len <= size
    BY Sizes DEF Init
  <2> QED BY <2>2, <2>4, <2>5 DEF Init, TypeOK, NoByte
<1>2. Writes /\ Reads /\ OneChunk
  BY DEF Init, Writes, CleanWrite, Reads, OneChunk
<1> QED BY <1>1, <1>2 DEF LogInv

-----------------------------------------------------------------------------
(* The steps of a write.                                                    *)

LEMMA CheckInv == ASSUME LogInv, NEW c \in MainByte, Check(c) PROVE LogInv'
<1> USE DEF Check, LogInv, reading, endpoint, ghosts
<1>1. TypeOK'
  BY LogAssumption DEF TypeOK
<1>2. Writes' /\ Reads' /\ OneChunk'
  BY DEF Writes, CleanWrite, Reads, OneChunk
<1> QED BY <1>1, <1>2

LEMMA LoadInv == LogInv /\ Load => LogInv'
<1> SUFFICES ASSUME LogInv, Load PROVE LogInv'
  OBVIOUS
<1> USE DEF Load, LogInv, reading, endpoint, ghosts
<1>1. output_ring.end \in Places(size) /\ output_ring.end \in 0..size
  <2>1. output_ring \in RingOf(size, Byte)
    BY RestRing
  <2> QED BY <2>1, Fields, Sizes DEF Places
<1>2. TypeOK'
  BY <1>1 DEF TypeOK
<1>3. Writes' /\ Reads' /\ OneChunk'
  BY <1>1 DEF Writes, CleanWrite, Reads, OneChunk
<1> QED BY <1>2, <1>3

LEMMA StoreEndInv == LogInv /\ Store("end") => LogInv'
<1> SUFFICES ASSUME LogInv, Store("end") PROVE LogInv'
  OBVIOUS
<1>1. /\ at = "store" /\ "end" \in todo /\ todo' = todo \ {"end"}
      /\ at' = IF todo' = {} THEN "reload" ELSE "store"
      /\ output_ring' = [output_ring EXCEPT !.end = reg + 1]
      /\ UNCHANGED <<ch, reg, buf, len, idle, packet, ctr, resets, harmed, early,
                     silent>>
  BY DEF Store, reading, endpoint, ghosts
<1>2. reg \in 0..(size - 1) /\ reg + 1 \in 0..size
  BY <1>1, Sizes DEF LogInv, Writes, Places
<1>3. output_ring' = [size |-> size, data |-> output_ring.data,
                      begin |-> output_ring.begin, end |-> reg + 1]
  BY <1>1, WideFields DEF LogInv, TypeOK, Wide
<1>4. TypeOK'
  <2>1. output_ring' \in [size : {size}, data : [Places(size) -> Byte],
                          begin : Places(size), end : 0..size]
    BY <1>2, <1>3 DEF LogInv, TypeOK
  <2>2. at' \in {"store", "reload"} /\ todo' \subseteq {"end", "data"}
    BY <1>1 DEF LogInv, TypeOK
  <2> QED BY <1>1, <2>1, <2>2 DEF LogInv, TypeOK
<1>5. Writes'
  <2>1. ASSUME ~harmed, at' = "store"
        PROVE  \E i \in 1..RingLen(output_ring') : reg = PlaceOf(i)'
    <3>1. HasRoom(output_ring) /\ reg = output_ring.end
      BY <1>1, <2>1 DEF LogInv, Writes, CleanWrite
    <3>2. output_ring \in RingOf(size, Byte)
      BY <1>2, <3>1, RestRing DEF LogInv
    <3>0. PICK k \in 1..(size - 1) : k = RingLen(output_ring) + 1
      BY <3>1, <3>2, EndMoves
    <3>3. /\ RingLen(output_ring') = k /\ k \in 1..(size - 1)
          /\ (output_ring.begin + k - 1) % size = output_ring.end
      BY <1>1, <3>1, <3>2, <3>0, EndMoves
    <3>4. PlaceOf(k)' = reg
      BY <1>3, <3>1, <3>3 DEF PlaceOf
    <3> QED BY <3>3, <3>4
  <2> QED BY <1>1, <2>1 DEF LogInv, Writes, CleanWrite, TypeOK
<1>6. Reads' /\ OneChunk'
  BY <1>1 DEF LogInv, Reads, OneChunk
<1> QED BY <1>4, <1>5, <1>6 DEF LogInv

LEMMA StoreDataInv == LogInv /\ Store("data") => LogInv'
<1> SUFFICES ASSUME LogInv, Store("data") PROVE LogInv'
  OBVIOUS
<1>1. /\ at = "store" /\ "data" \in todo /\ todo' = todo \ {"data"}
      /\ at' = IF todo' = {} THEN "reload" ELSE "store"
      /\ output_ring' = [output_ring EXCEPT !.data[reg] = ch]
      /\ UNCHANGED <<ch, reg, buf, len, idle, packet, ctr, resets, harmed, early,
                     silent>>
  BY DEF Store, reading, endpoint, ghosts
<1>2. reg \in Places(size) /\ ch \in Byte
  BY <1>1, LogAssumption DEF LogInv, Writes
<1>3. output_ring' = [size |-> size, data |-> [output_ring.data EXCEPT ![reg] = ch],
                      begin |-> output_ring.begin, end |-> output_ring.end]
  BY <1>1, WideFields DEF LogInv, TypeOK, Wide
<1>4. TypeOK'
  <2>1. output_ring' \in [size : {size}, data : [Places(size) -> Byte],
                          begin : Places(size), end : 0..size]
    BY <1>2, <1>3 DEF LogInv, TypeOK
  <2>2. at' \in {"store", "reload"} /\ todo' \subseteq {"end", "data"}
    BY <1>1 DEF LogInv, TypeOK
  <2> QED BY <1>1, <2>1, <2>2 DEF LogInv, TypeOK
<1>5. Writes'
  <2>1. output_ring'.data[reg] = ch
    <3>1. output_ring.data \in [Places(size) -> Byte]
      BY DEF LogInv, TypeOK
    <3> QED BY <1>2, <1>3, <3>1
  <2>2. HasRoom(output_ring)' <=> HasRoom(output_ring)
    BY <1>3 DEF HasRoom, Succ, LogInv, TypeOK
  <2>3. todo' # {} => "end" \in todo'
    BY <1>1 DEF LogInv, TypeOK
  <2> QED BY <1>1, <1>3, <2>1, <2>2, <2>3 DEF LogInv, Writes, CleanWrite
<1>6. Reads' /\ OneChunk'
  BY <1>1 DEF LogInv, Reads, OneChunk
<1> QED BY <1>4, <1>5, <1>6 DEF LogInv

LEMMA ReloadInv == LogInv /\ Reload => LogInv'
<1> SUFFICES ASSUME LogInv, Reload PROVE LogInv'
  OBVIOUS
<1> USE DEF Reload, LogInv, reading, endpoint, ghosts
<1>1. TypeOK'
  BY DEF TypeOK
<1>2. Writes' /\ Reads' /\ OneChunk'
  BY DEF Writes, CleanWrite, Reads, OneChunk
<1> QED BY <1>1, <1>2

LEMMA WrapInv == LogInv /\ Wrap => LogInv'
<1> SUFFICES ASSUME LogInv, Wrap PROVE LogInv'
  OBVIOUS
<1> USE DEF Wrap, LogInv, reading, endpoint, ghosts
<1>1. PICK e \in 0..(size - 1) : e = reg % size
  BY Sizes DEF TypeOK
<1>2. output_ring' = [size |-> size, data |-> output_ring.data,
                      begin |-> output_ring.begin, end |-> e]
  BY <1>1, WideFields DEF TypeOK, Wide
<1>3. TypeOK'
  <2>1. output_ring' \in [size : {size}, data : [Places(size) -> Byte],
                          begin : Places(size), end : 0..size]
    BY <1>2, Sizes DEF TypeOK
  <2>2. output_ring'.end # size /\ 0 \in 0..size
    BY <1>2, Sizes
  <2> QED BY <2>1, <2>2 DEF TypeOK
<1>4. Writes' /\ Reads' /\ OneChunk'
  BY DEF Writes, CleanWrite, Reads, OneChunk
<1> QED BY <1>3, <1>4

-----------------------------------------------------------------------------
(* The steps of serial_out.                                                 *)

\* A chunk is of one byte at least, and lies in the buffer and in the queue.
LEMMA ReadIs ==
  ASSUME NEW r \in RingOf(size, Byte), ~RING_EMPTY(r)
  PROVE  /\ ring_contineous(r, EP_SIZE) \in 1..EP_SIZE
         /\ r.begin + ring_contineous(r, EP_SIZE) <= size
         /\ ring_read_contineous(r, EP_SIZE).begin =
              (r.begin + ring_contineous(r, EP_SIZE)) % size
<1>1. /\ RingLen(r) \in 0..(size - 1)
      /\ RingLen(r) = IF r.end >= r.begin THEN r.end - r.begin
                                          ELSE r.end - r.begin + size
  BY LenIs, Sizes
<1>2. r.begin \in 0..(size - 1) /\ r.end \in 0..(size - 1) /\ r.size = size
  BY Fields, Sizes
<1>3. RingLen(r) > 0
  <2>1. r.begin # r.end
    BY DEF RING_EMPTY
  <2> QED BY <2>1, <1>1, <1>2, Sizes
<1>4. LET upTo == IF RingLen(r) < size - r.begin THEN RingLen(r)
                                                 ELSE size - r.begin
      IN  ring_contineous(r, EP_SIZE) = IF upTo > EP_SIZE THEN EP_SIZE ELSE upTo
  BY ContineousIs, Sizes
<1>5. ring_read_contineous(r, EP_SIZE).begin =
        (r.begin + ring_contineous(r, EP_SIZE)) % size
  BY <1>2, Fields, Sizes DEF ring_read_contineous
<1> QED BY <1>1, <1>2, <1>3, <1>4, <1>5, Sizes

LEMMA ReadInv == LogInv /\ Read => LogInv'
<1> SUFFICES ASSUME LogInv, Read PROVE LogInv'
  OBVIOUS
<1>1. /\ at = "rest" /\ at' = "begin" /\ idle
      /\ UNCHANGED <<output_ring, ch, todo, idle, packet, ctr, resets, harmed,
                     early, silent>>
  BY DEF Read, endpoint, ghosts
<1>2. output_ring \in RingOf(size, Byte)
  BY <1>1, RestRing DEF LogInv
<1>3. /\ buf' = output_ring.begin
      /\ len' = ring_contineous(output_ring, EP_SIZE)
      /\ reg' = (buf' + len') % size
      /\ len' \in 1..EP_SIZE /\ buf' + len' <= size
  BY <1>2, ReadIs DEF Read
<1>4. buf' \in Places(size) /\ buf' \in Nat
  BY <1>2, <1>3, Fields, Sizes DEF Places
<1>5. PICK x \in 0..(size - 1) : x = reg'
  BY <1>3, <1>4, Sizes
<1>6. TypeOK'
  <2>1. reg' \in 0..size /\ len' \in 0..EP_SIZE
    BY <1>3, <1>5, Sizes
  <2> QED BY <1>1, <1>3, <1>4, <2>1 DEF LogInv, TypeOK
<1>7. Writes'
  BY <1>1 DEF LogInv, Writes, CleanWrite
<1>8. Reads'
  <2>1. len' \in 1..ring_contineous(output_ring, EP_SIZE)
    BY <1>3
  <2> QED BY <1>1, <1>3, <2>1 DEF Reads
<1>9. OneChunk'
  BY <1>1 DEF LogInv, OneChunk
<1> QED BY <1>6, <1>7, <1>8, <1>9 DEF LogInv

LEMMA StoreBeginInv == LogInv /\ StoreBegin => LogInv'
<1> SUFFICES ASSUME LogInv, StoreBegin PROVE LogInv'
  OBVIOUS
<1>1. /\ at = "begin" /\ at' = "clear" /\ reg' = 0
      /\ output_ring' = [output_ring EXCEPT !.begin = reg]
      /\ UNCHANGED <<ch, todo, buf, len, idle, packet, ctr, resets, harmed,
                     early, silent>>
  BY DEF StoreBegin, reading, endpoint, ghosts
<1>2. reg = (buf + len) % size /\ len > 0
  <2>1. reg = (buf + len) % size
        /\ len \in 1..ring_contineous(output_ring, EP_SIZE)
    BY <1>1 DEF LogInv, Reads
  <2> QED BY <2>1
<1>3. reg \in Places(size)
  <2>1. buf + len \in Nat
    BY Sizes DEF LogInv, TypeOK, Places
  <2> QED BY <1>2, <2>1, Sizes DEF Places
<1>4. output_ring' = [size |-> size, data |-> output_ring.data,
                      begin |-> reg, end |-> output_ring.end]
  BY <1>1, WideFields DEF LogInv, TypeOK, Wide
<1>5. TypeOK'
  <2>1. output_ring' \in [size : {size}, data : [Places(size) -> Byte],
                          begin : Places(size), end : 0..size]
    BY <1>3, <1>4 DEF LogInv, TypeOK
  <2>2. output_ring'.end # size /\ 0 \in 0..size
    BY <1>1, <1>4, Sizes DEF LogInv, TypeOK
  <2> QED BY <1>1, <2>1, <2>2 DEF LogInv, TypeOK
<1>6. Writes' /\ OneChunk'
  BY <1>1 DEF LogInv, Writes, CleanWrite, OneChunk
<1>7. Reads'
  BY <1>1, <1>2, <1>4 DEF Reads
<1> QED BY <1>5, <1>6, <1>7 DEF LogInv

LEMMA ClearIdleInv == LogInv /\ ClearIdle => LogInv'
<1> SUFFICES ASSUME LogInv, ClearIdle PROVE LogInv'
  OBVIOUS
<1> USE DEF ClearIdle, LogInv, reading, ghosts
<1>1. TypeOK'
  BY DEF TypeOK
<1>2. Writes' /\ Reads' /\ OneChunk'
  BY DEF Writes, CleanWrite, Reads, OneChunk
<1> QED BY <1>1, <1>2

LEMMA ChunkType == TypeOK => Chunk \in Seq(Byte) /\ Len(Chunk) = len
<1> SUFFICES ASSUME TypeOK PROVE Chunk \in Seq(Byte) /\ Len(Chunk) = len
  OBVIOUS
<1>1. /\ len \in Nat /\ buf \in Nat /\ buf + len <= size
      /\ output_ring.data \in [Places(size) -> Byte]
  BY Sizes DEF TypeOK, Places
<1>2. ASSUME NEW i \in 1..len PROVE output_ring.data[buf + i - 1] \in Byte
  <2>1. buf + i - 1 \in Places(size)
    BY <1>1, Sizes DEF Places
  <2> QED BY <1>1, <2>1
<1> QED BY <1>1, <1>2 DEF Chunk

LEMMA CopyInv == LogInv /\ Copy => LogInv'
<1> SUFFICES ASSUME LogInv, Copy PROVE LogInv'
  OBVIOUS
<1>1. /\ at = "copy" /\ at' = "rest" /\ buf' = 0 /\ len' = 0
      /\ packet' \in {packet, Chunk} /\ (packet = <<>> \/ packet' = packet)
      /\ silent' \in {silent, FALSE}
      /\ UNCHANGED <<output_ring, ch, reg, todo, idle, ctr, resets, harmed, early>>
  BY DEF Copy
<1>2. TypeOK'
  <2>1. packet' \in Seq(Byte) /\ Len(packet') <= EP_SIZE
    BY <1>1, ChunkType DEF LogInv, TypeOK
  <2>2. 0 \in Places(size) /\ 0 \in 0..EP_SIZE /\ 0 + 0 <= size
    BY Sizes DEF Places
  <2> QED BY <1>1, <2>1, <2>2 DEF LogInv, TypeOK
<1>3. Writes' /\ Reads' /\ OneChunk'
  BY <1>1 DEF LogInv, Writes, CleanWrite, Reads, OneChunk
<1> QED BY <1>2, <1>3 DEF LogInv

-----------------------------------------------------------------------------
(* The steps of the interrupt.                                              *)

\* A message leaves what the main loop is at as it was, or harms it.
LEMMA InterruptKeeps ==
  ASSUME LogInv, NEW msg \in Message, Interrupt(msg)
  PROVE  /\ UNCHANGED <<at, ch, reg, todo, buf, len>>
         /\ output_ring' \in Wide /\ output_ring'.begin = output_ring.begin
         /\ output_ring'.end = size => output_ring.end = size
         /\ output_ring \in RingOf(size, Byte) =>
              /\ output_ring' \in RingOf(size, Byte)
              /\ RingLen(output_ring) <= RingLen(output_ring')
         /\ harmed' \in BOOLEAN /\ Writes' /\ Reads'
<1>1. /\ UNCHANGED <<at, ch, reg, todo, buf, len>>
      /\ output_ring' = Logged(msg) /\ harmed' = (harmed \/ Meets)
  BY DEF Interrupt, writing, reading
<1>2. msg \in Seq(Byte) /\ output_ring \in Wide
  BY LogAssumption DEF LogInv, TypeOK, Wide
<1>3. /\ output_ring' \in Wide /\ output_ring'.begin = output_ring.begin
      /\ output_ring'.end = size => output_ring.end = size
  BY <1>1, <1>2, LoggedWide
<1>4. ASSUME output_ring \in RingOf(size, Byte)
      PROVE  /\ output_ring' \in RingOf(size, Byte)
             /\ RingLen(output_ring) <= RingLen(output_ring')
  <2>1. /\ output_ring' \in RingOf(size, Byte)
        /\ RingLen(output_ring') =
             IF RingLen(output_ring) + Len(msg) < size - 1
               THEN RingLen(output_ring) + Len(msg) ELSE size - 1
    BY <1>1, <1>2, <1>4, LoggedRing
  <2>2. RingLen(output_ring) \in 0..(size - 1) /\ Len(msg) \in Nat
    BY <1>2, <1>4, LenIs, Sizes
  <2> QED BY <2>1, <2>2, Sizes
<1>5. harmed' \in BOOLEAN
  BY <1>1 DEF LogInv, TypeOK
<1>6. Writes'
  <2>1. ASSUME ~harmed' PROVE CleanWrite'
    <3>1. CleanWrite /\ ~Meets
      BY <1>1, <2>1 DEF LogInv, Writes
    <3>2. CASE output_ring' = output_ring
      BY <1>1, <3>1, <3>2 DEF CleanWrite, PlaceOf
    <3>3. CASE output_ring' # output_ring
      <4>1. /\ output_ring.end # size /\ at # "wrap"
            /\ at = "load" => HasRoom(output_ring')
            /\ ~(at = "store" /\ "end" \in todo)
        BY <3>1, <3>3 DEF Meets
      <4>2. RingLen(output_ring) <= RingLen(output_ring')
            /\ RingLen(output_ring) \in Nat /\ RingLen(output_ring') \in Nat
        <5>1. output_ring \in RingOf(size, Byte)
          BY <4>1, RestRing DEF LogInv
        <5> QED BY <1>4, <5>1, LenIs, Sizes
      <4>3. \A i : PlaceOf(i)' = PlaceOf(i)
        BY <1>3 DEF PlaceOf
      <4> QED BY <1>1, <3>1, <4>1, <4>2, <4>3 DEF CleanWrite
    <3> QED BY <3>2, <3>3
  <2> QED BY <1>1, <2>1 DEF LogInv, Writes
<1>7. Reads'
  <2>1. ASSUME at = "begin"
        PROVE  len \in 1..ring_contineous(output_ring', EP_SIZE)
    <3>1. output_ring \in RingOf(size, Byte)
      BY <2>1, RestRing DEF LogInv
    <3>2. /\ RingLen(output_ring) <= RingLen(output_ring')
          /\ RingLen(output_ring) \in Nat /\ RingLen(output_ring') \in Nat
          /\ output_ring' \in RingOf(size, Byte)
      BY <1>4, <3>1, LenIs, Sizes
    <3>3. ring_contineous(output_ring, EP_SIZE)
            <= ring_contineous(output_ring', EP_SIZE)
          /\ ring_contineous(output_ring, EP_SIZE) \in Int
          /\ ring_contineous(output_ring', EP_SIZE) \in Int
      BY <1>3, <3>1, <3>2, ContineousIs, Fields, Sizes
    <3>4. len \in 1..ring_contineous(output_ring, EP_SIZE)
      BY <2>1 DEF LogInv, Reads
    <3> QED BY <3>3, <3>4
  <2> QED BY <1>1, <1>3, <2>1 DEF LogInv, Reads
<1> QED BY <1>1, <1>3, <1>4, <1>5, <1>6, <1>7

\* The steps that log, as far as the ring is concerned.
LEMMA InterruptInv ==
  ASSUME LogInv, NEW msg \in Message, Interrupt(msg),
         idle' \in BOOLEAN, ctr' \in BOOLEAN, packet' \in {packet, <<>>},
         resets' \in 0..MaxResets, early' \in BOOLEAN, silent' \in BOOLEAN,
         OneChunk'
  PROVE  LogInv'
<1>1. TypeOK'
  <2>1. output_ring' \in [size : {size}, data : [Places(size) -> Byte],
                          begin : Places(size), end : 0..size]
    BY InterruptKeeps DEF Wide
  <2>2. /\ UNCHANGED <<at, ch, reg, todo, buf, len>> /\ harmed' \in BOOLEAN
        /\ output_ring'.end = size => output_ring.end = size
    BY InterruptKeeps
  <2>3. packet' \in Seq(Byte) /\ Len(packet') <= EP_SIZE
    <3>1. CASE packet' = packet
      BY <3>1 DEF LogInv, TypeOK
    <3>2. CASE packet' = <<>>
      BY <3>2, Sizes
    <3> QED BY <3>1, <3>2
  <2> QED BY <2>1, <2>2, <2>3 DEF LogInv, TypeOK
<1>2. Writes' /\ Reads'
  BY InterruptKeeps
<1> QED BY <1>1, <1>2 DEF LogInv

LEMMA InterruptLogsInv == LogInv /\ InterruptLogs => LogInv'
<1> SUFFICES ASSUME LogInv, InterruptLogs PROVE LogInv'
  OBVIOUS
<1>1. PICK msg \in Message : Interrupt(msg)
  BY DEF InterruptLogs
<1>2. UNCHANGED <<at, idle, packet, ctr, resets, early, silent>>
  BY <1>1, InterruptKeeps DEF InterruptLogs, endpoint, ghosts
<1>3. OneChunk'
  BY <1>2 DEF LogInv, OneChunk
<1> QED BY <1>1, <1>2, <1>3, InterruptInv DEF LogInv, TypeOK

\* Who attaches while a chunk is under way notes it.
LEMMA AttachInv == LogInv /\ Attach => LogInv'
<1> SUFFICES ASSUME LogInv, Attach PROVE LogInv'
  OBVIOUS
<1>1. PICK msg \in Message : Interrupt(msg)
  BY DEF Attach
<1>2. /\ UNCHANGED <<at, packet, ctr, resets>>
      /\ idle' = TRUE /\ silent' = FALSE
      /\ early' = (early \/ Pending) /\ early' \in BOOLEAN
  BY <1>1, InterruptKeeps DEF Attach, LogInv, TypeOK
<1>3. OneChunk'
  BY <1>2 DEF LogInv, OneChunk, Pending
<1> QED BY <1>1, <1>2, <1>3, InterruptInv DEF LogInv, TypeOK

LEMMA BusResetInv == LogInv /\ BusReset => LogInv'
<1> SUFFICES ASSUME LogInv, BusReset PROVE LogInv'
  OBVIOUS
<1>1. PICK msg \in Message : Interrupt(msg)
  BY DEF BusReset
<1>2. /\ UNCHANGED <<at, idle, early>> /\ packet' = <<>> /\ ctr' = FALSE
      /\ silent' = (silent \/ Pending) /\ silent' \in BOOLEAN
  BY <1>1, InterruptKeeps DEF BusReset, LogInv, TypeOK
<1>3. resets' \in 0..MaxResets
  BY LogAssumption DEF BusReset, LogInv, TypeOK
<1>4. OneChunk'
  BY <1>2 DEF LogInv, OneChunk
<1> QED BY <1>1, <1>2, <1>3, <1>4, InterruptInv DEF LogInv, TypeOK

\* The others leave the ring alone.
LEMMA OtherInv == LogInv /\ (Detach \/ HostPoll \/ usb_endpoint_idle) => LogInv'
<1> SUFFICES ASSUME LogInv, Detach \/ HostPoll \/ usb_endpoint_idle PROVE LogInv'
  OBVIOUS
<1>1. /\ UNCHANGED <<output_ring, at, ch, reg, todo, buf, len, resets, harmed>>
      /\ packet' \in {packet, <<>>}
  BY DEF Detach, HostPoll, usb_endpoint_idle, writing, reading
<1>2. TypeOK'
  <2>1. packet' \in Seq(Byte) /\ Len(packet') <= EP_SIZE
    <3>1. CASE packet' = packet
      BY <3>1 DEF LogInv, TypeOK
    <3>2. CASE packet' = <<>>
      BY <3>2, Sizes
    <3> QED BY <1>1, <3>1, <3>2
  <2>2. idle' \in BOOLEAN /\ ctr' \in BOOLEAN /\ early' \in BOOLEAN
        /\ silent' \in BOOLEAN
    BY DEF LogInv, TypeOK, Detach, HostPoll, usb_endpoint_idle, ghosts
  <2> QED BY <1>1, <2>1, <2>2 DEF LogInv, TypeOK
<1>3. Writes' /\ Reads'
  BY <1>1 DEF LogInv, Writes, CleanWrite, PlaceOf, Reads
<1>4. OneChunk'
  BY DEF LogInv, OneChunk, Detach, HostPoll, usb_endpoint_idle, writing, ghosts
<1> QED BY <1>2, <1>3, <1>4 DEF LogInv

LEMMA LogStep == LogInv /\ [Next]_vars => LogInv'
<1> SUFFICES ASSUME LogInv, [Next]_vars PROVE LogInv'
  OBVIOUS
<1>1. CASE UNCHANGED vars
  BY <1>1 DEF vars, writing, reading, endpoint, ghosts, LogInv, TypeOK, Writes,
              CleanWrite, PlaceOf, Reads, OneChunk
<1>2. CASE MainGoesOn
  BY <1>2, LoadInv, StoreEndInv, StoreDataInv, ReloadInv, WrapInv, StoreBeginInv,
     ClearIdleInv, CopyInv DEF MainGoesOn
<1> QED
  BY <1>1, <1>2, CheckInv, ReadInv, InterruptLogsInv, AttachInv, BusResetInv,
     OtherInv DEF Next

LEMMA LogInvHolds == Spec => []LogInv
BY InitLog, LogStep, PTL DEF Spec

\* Every variable of Log keeps its type, whatever the interrupt does between
\* the loads and stores of ring_write_ch and ring_read_contineous: begin and
\* end are inside the ring, end but for the moment between its two stores, and
\* a chunk never reaches beyond the buffer.
THEOREM LogTypeCorrect == Spec => []TypeOK
<1>1. LogInv => TypeOK
  BY DEF LogInv
<1> QED BY <1>1, LogInvHolds, PTL

\* cdcacm_data_wx, whose result nobody looks at, is refused only if the host
\* opened the port while a chunk was under way.
THEOREM LogLosesOnlyAfterAttach == Spec => []LostOnlyAfterAttach
<1>1. LogInv => LostOnlyAfterAttach
  BY DEF LogInv, OneChunk, LostOnlyAfterAttach
<1> QED BY <1>1, LogInvHolds, PTL

-----------------------------------------------------------------------------
(* Log implements Pipe.                                                     *)

\* What queue and chunk of Pipe stand for, place by place.
Filling == at = "store" /\ todo = {"data"}
ByteOf(i) == IF Filling /\ PlaceOf(i) = reg THEN ch ELSE output_ring.data[PlaceOf(i)]
Out == IF at \in {"clear", "copy"} THEN Chunk ELSE <<>>

LEMMA PlacesAre ==
  ASSUME TypeOK
  PROVE  \A i \in 1..size :
           /\ PlaceOf(i) = IF output_ring.begin + i - 1 < size
                             THEN output_ring.begin + i - 1
                             ELSE output_ring.begin + i - 1 - size
           /\ PlaceOf(i) \in Places(size)
<1> SUFFICES ASSUME NEW i \in 1..size
             PROVE  /\ PlaceOf(i) = IF output_ring.begin + i - 1 < size
                                      THEN output_ring.begin + i - 1
                                      ELSE output_ring.begin + i - 1 - size
                    /\ PlaceOf(i) \in Places(size)
  OBVIOUS
<1>0. output_ring.begin \in 0..(size - 1)
  BY Sizes, WideFields DEF TypeOK, Wide
<1>9. PICK x \in Int : x = output_ring.begin + i - 1
  BY <1>0, Sizes
<1>1. x \in 0..(2 * size - 1)
  BY <1>0, <1>9, Sizes
<1>2. x % size = IF x < size THEN x ELSE x - size
  BY <1>1, Sizes, ModIs
<1>3. PlaceOf(i) = IF x < size THEN x ELSE x - size
  BY <1>2, <1>9 DEF PlaceOf
<1>4. PlaceOf(i) \in Places(size)
  BY <1>1, <1>3, Sizes DEF Places
<1>5. PlaceOf(i) = IF output_ring.begin + i - 1 < size
                     THEN output_ring.begin + i - 1
                     ELSE output_ring.begin + i - 1 - size
  BY <1>0, <1>3, <1>9, Sizes
<1> QED BY <1>4, <1>5

LEMMA PlacesDiffer ==
  ASSUME TypeOK, NEW i \in 1..size, NEW j \in 1..size, PlaceOf(i) = PlaceOf(j)
  PROVE  i = j
<1>1. output_ring.begin \in 0..(size - 1)
  BY Sizes, WideFields DEF TypeOK, Wide
<1> QED BY <1>1, PlacesAre, Sizes

\* The length of the queue, also when end is one too far.
LEMMA WideLen ==
  ASSUME TypeOK
  PROVE  RingLen(output_ring) \in 0..(size - 1)
<1>1. /\ output_ring.begin \in Int /\ output_ring.end \in Int
      /\ output_ring.size = size
  BY WideFields DEF TypeOK, Wide
<1>2. PICK x \in Int : x = (output_ring.end - output_ring.begin) + size
  BY <1>1, Sizes
<1>3. RingLen(output_ring) = x % size
  BY <1>1, <1>2 DEF RingLen, ring_marklen
<1> QED BY <1>3, Sizes

QueueFacts ==
  /\ Queue \in Seq(Byte) /\ Len(Queue) = RingLen(output_ring)
  /\ Len(Queue) \in 0..(size - 1)
  /\ \A i \in 1..Len(Queue) : Queue[i] = ByteOf(i)

LEMMA QueueIs == LogInv => QueueFacts
<1> SUFFICES ASSUME TypeOK, Writes PROVE QueueFacts
  BY DEF LogInv
<1> DEFINE L == RingLen(output_ring)
           r == IF Filling THEN [output_ring EXCEPT !.data[reg] = ch]
                           ELSE output_ring
<1>1. /\ output_ring.size = size /\ output_ring.data \in [Places(size) -> Byte]
      /\ output_ring = [size |-> size, data |-> output_ring.data,
                        begin |-> output_ring.begin, end |-> output_ring.end]
  BY WideFields DEF TypeOK, Wide
<1>2. L \in 0..(size - 1)
  BY WideLen
<1>3. r = [size |-> size,
           data |-> IF Filling THEN [output_ring.data EXCEPT ![reg] = ch]
                               ELSE output_ring.data,
           begin |-> output_ring.begin, end |-> output_ring.end]
  BY <1>1
<1>4. RingLen(r) = L
  BY <1>1, <1>3 DEF RingLen, ring_marklen
<1>5. ASSUME NEW i \in 1..L
      PROVE  r.data[(r.begin + i - 1) % r.size] = ByteOf(i) /\ ByteOf(i) \in Byte
  <2>1. (r.begin + i - 1) % r.size = PlaceOf(i) /\ PlaceOf(i) \in Places(size)
    BY <1>2, <1>3, PlacesAre, Sizes DEF PlaceOf
  <2>2. Filling => ch \in Byte
    BY LogAssumption DEF Filling, Writes
  <2>3. r.data[PlaceOf(i)] = ByteOf(i)
    BY <1>1, <1>3, <2>1 DEF ByteOf
  <2>4. ByteOf(i) \in Byte
    BY <1>1, <2>1, <2>2 DEF ByteOf
  <2> QED BY <2>1, <2>3, <2>4
<1>6. Queue = Contents(r)
  BY DEF Queue, Filling
<1> HIDE DEF r, L
<1>7. Queue = [i \in 1..L |-> ByteOf(i)]
  BY <1>4, <1>5, <1>6 DEF Contents
<1>8. Queue \in Seq(Byte) /\ Len(Queue) = L
  <2>1. \A i \in 1..L : ByteOf(i) \in Byte
    BY <1>5
  <2>2. L \in Nat
    BY <1>2, Sizes
  <2> HIDE DEF ByteOf
  <2> QED BY <1>7, <2>1, <2>2
<1> QED BY <1>2, <1>7, <1>8 DEF L, QueueFacts

\* Any queue will do while harm is done.
LEMMA HarmIs ==
  ASSUME LogInv', harmed \/ harmed', Len(Out') = Len(Out)
  PROVE  Ideal!Harm
<1>1. Len(Queue') <= size - 1 /\ \A i \in 1..Len(Queue') : Queue'[i] \in Byte
  <2>1. QueueFacts'
    BY QueueIs, PTL
  <2> QED BY <2>1, Sizes DEF QueueFacts
<1> QED BY <1>1 DEF Ideal!Harm, Ideal!AnyQueue, Out

\* A byte of the queue is where it was, and so the queue is what it was.
LEMMA QueueStays ==
  ASSUME LogInv, LogInv', RingLen(output_ring') = RingLen(output_ring),
         \A i \in 1..RingLen(output_ring) : ByteOf(i)' = ByteOf(i)
  PROVE  Queue' = Queue
<1>1. QueueFacts
  BY QueueIs
<1>2. QueueFacts'
  BY QueueIs, PTL
<1> HIDE DEF ByteOf
<1> QED BY <1>1, <1>2, SeqEqual DEF QueueFacts

\* A message put at the end of the queue, byte by byte.
LEMMA PutIs ==
  ASSUME LogInv, LogInv', NEW msg \in Seq(Byte),
         RingLen(output_ring') =
           IF RingLen(output_ring) + Len(msg) < size - 1
             THEN RingLen(output_ring) + Len(msg) ELSE size - 1,
         \A i \in 1..RingLen(output_ring') :
           ByteOf(i)' = IF i <= RingLen(output_ring) THEN ByteOf(i)
                        ELSE msg[i - RingLen(output_ring)],
         Len(Out') = Len(Out),
         RingLen(output_ring') + Len(Out) <= size => Out' = Out
  PROVE  Ideal!Put(msg)
<1> DEFINE L == RingLen(output_ring)
           n == IF Len(msg) < size - 1 - L THEN Len(msg) ELSE size - 1 - L
           s == SubSeq(msg, 1, n)
<1>1. QueueFacts
  BY QueueIs
<1>2. QueueFacts'
  BY QueueIs, PTL
<1>3. L \in 0..(size - 1) /\ Len(msg) \in Nat /\ n \in 0..Len(msg)
  BY <1>1, Sizes DEF QueueFacts
<1>4. s \in Seq(Byte) /\ Len(s) = n /\ \A i \in 1..n : s[i] = msg[i]
  <2> HIDE DEF n
  <2> QED BY <1>3
<1>5. Queue' = Queue \o s
  <2>1. Queue \o s \in Seq(Byte) /\ Len(Queue \o s) = L + n
    <3>1. Queue \in Seq(Byte) /\ Len(Queue) = L
      BY <1>1 DEF QueueFacts
    <3> HIDE DEF s, L, n
    <3> QED BY <1>4, <3>1, ConcatProperties
  <2>2. Queue' \in Seq(Byte) /\ Len(Queue') = L + n
    BY <1>2, <1>3, Sizes DEF QueueFacts
  <2>3. ASSUME NEW i \in 1..(L + n) PROVE Queue'[i] = (Queue \o s)[i]
    <3>1. Queue'[i] = IF i <= L THEN ByteOf(i) ELSE msg[i - L]
      BY <1>2, <2>2 DEF QueueFacts
    <3>2. CASE i <= L
      BY <1>1, <1>4, <3>1, <3>2 DEF QueueFacts
    <3>3. CASE ~(i <= L)
      <4>1. i - L \in 1..n
        BY <1>3, <3>3
      <4>2. (Queue \o s)[i] = s[i - L]
        <5>1. Queue \in Seq(Byte) /\ Len(Queue) = L
          BY <1>1 DEF QueueFacts
        <5> HIDE DEF s, L, n
        <5> QED BY <1>3, <1>4, <3>3, <5>1, ConcatProperties
      <4> QED BY <1>4, <3>1, <3>3, <4>1, <4>2
    <3> QED BY <3>2, <3>3
  <2> HIDE DEF s, L, n
  <2> QED BY <2>1, <2>2, <2>3, SeqEqual
<1>6. Len(Queue) = L /\ Len(Queue') = RingLen(output_ring')
  BY <1>1, <1>2 DEF QueueFacts
<1>7. Len(Queue') + Len(Out) > size - 1 + 1 \/ Out' = Out
  <2>1. Len(Out) \in Nat
    BY ChunkType DEF LogInv, TypeOK, Out
  <2>2. Len(Queue') \in Nat
    BY <1>2 DEF QueueFacts
  <2> QED BY <1>6, <2>1, <2>2, Sizes
<1> QED BY <1>5, <1>6, <1>7 DEF Ideal!Put, Out

\* Where the bytes of a chunk lie that is on its way.
LEMMA ChunkPlaces ==
  ASSUME LogInv, at \in {"clear", "copy"}, NEW j \in 1..len
  PROVE  /\ size - len + j \in 1..size
         /\ buf + j - 1 = PlaceOf(size - len + j)
<1>1. /\ buf \in 0..(size - 1) /\ len \in 1..size /\ buf + len <= size
      /\ output_ring.begin = (buf + len) % size
  BY Sizes DEF LogInv, TypeOK, Reads, Places
<1>2. PICK x \in 0..(2 * size - 1) : x = buf + len
  BY <1>1, Sizes
<1>3. x % size = IF x < size THEN x ELSE x - size
  BY Sizes, ModIs
<1>4. output_ring.begin = IF buf + len < size THEN buf + len ELSE 0
  BY <1>1, <1>2, <1>3, Sizes
<1>5. PICK i \in 1..size : i = size - len + j
  BY <1>1, Sizes
<1>6. PlaceOf(i) = IF output_ring.begin + i - 1 < size
                     THEN output_ring.begin + i - 1
                     ELSE output_ring.begin + i - 1 - size
  BY PlacesAre DEF LogInv
<1>7. buf + j - 1 = PlaceOf(i)
  <2> HIDE DEF PlaceOf
  <2> QED BY <1>1, <1>4, <1>5, <1>6, Sizes
<1> QED BY <1>5, <1>7

\* The steps of Pipe that an interrupt may be.
Logs ==
  \/ \E msg \in Message : Ideal!Put(msg) /\ harmed' \in {harmed, TRUE}
  \/ Ideal!Harm
  \/ UNCHANGED <<Queue, Out, harmed>>

LEMMA InterruptPuts ==
  ASSUME LogInv, LogInv', NEW msg \in Message, Interrupt(msg)
  PROVE  Logs
<1> DEFINE L == RingLen(output_ring)
<1>1. /\ UNCHANGED <<at, ch, reg, todo, buf, len>>
      /\ output_ring' = Logged(msg) /\ harmed' = (harmed \/ Meets)
  BY DEF Interrupt, writing, reading
<1>2. Len(Out') = Len(Out)
  <2>1. Len(Chunk) = len
    BY ChunkType DEF LogInv
  <2>2. TypeOK'
    BY DEF LogInv
  <2>3. (Len(Chunk) = len)'
    BY <2>2, ChunkType, PTL
  <2> QED BY <1>1, <2>1, <2>3 DEF Out
<1>3. CASE harmed'
  BY <1>2, <1>3, HarmIs DEF Logs
<1>4. CASE ~harmed' /\ output_ring' = output_ring
  <2>1. UNCHANGED <<Queue, Out, harmed>>
    BY <1>1, <1>4 DEF Queue, Out, Chunk, LogInv, TypeOK
  <2> QED BY <2>1 DEF Logs
<1>5. CASE ~harmed' /\ output_ring' # output_ring
  <2>1. /\ ~harmed /\ harmed' = harmed /\ output_ring.end # size
        /\ ~(at = "store" /\ "end" \in todo)
    BY <1>1, <1>5 DEF Meets, LogInv, TypeOK
  <2>2. output_ring \in RingOf(size, Byte) /\ msg \in Seq(Byte) /\ L \in 0..(size - 1)
    BY <2>1, RestRing, WideLen, LogAssumption DEF LogInv
  <2>3. /\ RingLen(output_ring') = IF L + Len(msg) < size - 1 THEN L + Len(msg)
                                                              ELSE size - 1
        /\ output_ring'.begin = output_ring.begin
        /\ \A i \in 1..size :
             output_ring'.data[PlaceOf(i)] =
               IF L < i /\ i <= RingLen(output_ring') THEN msg[i - L]
                                                      ELSE output_ring.data[PlaceOf(i)]
    BY <1>1, <2>2, LoggedRing
  <2>4. \A i : PlaceOf(i)' = PlaceOf(i)
    BY <2>3 DEF PlaceOf
  <2>5. Filling' <=> Filling
    BY <1>1 DEF Filling
  <2>6. Len(msg) \in Nat /\ RingLen(output_ring') \in 0..(size - 1)
        /\ L <= RingLen(output_ring')
    BY <2>2, <2>3, Sizes
  <2>7. ASSUME NEW i \in 1..RingLen(output_ring')
        PROVE  ByteOf(i)' = IF i <= L THEN ByteOf(i) ELSE msg[i - L]
    <3>1. i \in 1..size /\ i \in Int /\ L \in Int
      BY <2>2, <2>6, Sizes
    <3>2. CASE Filling /\ PlaceOf(i) = reg
      <4>1. PICK k \in 1..L : reg = PlaceOf(k)
        BY <2>1, <3>2 DEF Filling, LogInv, Writes, CleanWrite
      <4>2. k \in 1..size
        BY <2>2, Sizes
      <4>3. i = k
        BY <3>1, <3>2, <4>1, <4>2, PlacesDiffer DEF LogInv
      <4>4. ByteOf(i)' = ch /\ ByteOf(i) = ch
        BY <1>1, <2>4, <2>5, <3>2 DEF ByteOf
      <4> QED BY <4>1, <4>3, <4>4
    <3>3. CASE ~(Filling /\ PlaceOf(i) = reg)
      <4>1. ByteOf(i)' = output_ring'.data[PlaceOf(i)]
            /\ ByteOf(i) = output_ring.data[PlaceOf(i)]
        BY <1>1, <2>4, <2>5, <3>3 DEF ByteOf
      <4>2. output_ring'.data[PlaceOf(i)] =
              IF L < i THEN msg[i - L] ELSE output_ring.data[PlaceOf(i)]
        BY <2>3, <3>1
      <4>3. L < i <=> ~(i <= L)
        BY <3>1
      <4> HIDE DEF L
      <4> QED BY <4>1, <4>2, <4>3
    <3> QED BY <3>2, <3>3
  <2>8. ASSUME RingLen(output_ring') + Len(Out) <= size PROVE Out' = Out
    <3>1. CASE at \in {"clear", "copy"}
      <4>1. Len(Out) = len /\ len \in Nat /\ Out = Chunk /\ Out' = Chunk'
        BY <1>1, <3>1, ChunkType DEF Out, LogInv, TypeOK
      <4>2. ASSUME NEW j \in 1..len
            PROVE  output_ring'.data[buf + j - 1] = output_ring.data[buf + j - 1]
        <5>1. size - len + j \in 1..size /\ buf + j - 1 = PlaceOf(size - len + j)
          BY <3>1, ChunkPlaces
        <5>2. ~(size - len + j <= RingLen(output_ring'))
          BY <2>6, <2>8, <4>1, Sizes
        <5> QED BY <2>3, <5>1, <5>2
      <4> QED BY <1>1, <4>1, <4>2 DEF Chunk
    <3>2. CASE at \notin {"clear", "copy"}
      BY <1>1, <3>2 DEF Out
    <3> QED BY <3>1, <3>2
  <2>9. Ideal!Put(msg)
    <3> HIDE DEF L
    <3> QED BY <1>2, <2>2, <2>3, <2>7, <2>8, PutIs DEF L
  <2> QED BY <2>1, <2>9 DEF Logs
<1> QED BY <1>3, <1>4, <1>5

LEMMA InterruptSteps ==
  LogInv /\ LogInv' /\ (InterruptLogs \/ Attach \/ BusReset) => Ideal!Next
<1> SUFFICES ASSUME LogInv, LogInv', InterruptLogs \/ Attach \/ BusReset
             PROVE  Ideal!Next
  OBVIOUS
<1>1. PICK msg \in Message : Interrupt(msg)
  BY DEF InterruptLogs, Attach, BusReset
<1>2. packet' \in {packet, <<>>}
  BY DEF InterruptLogs, Attach, BusReset, endpoint
<1>3. Logs
  BY <1>1, InterruptPuts
<1> QED BY <1>2, <1>3 DEF Logs, Ideal!Next, Ideal!MayGo, Out

LEMMA QuietSteps ==
  LogInv /\ (\/ \E c \in MainByte : Check(c)
             \/ Load \/ Reload \/ Read \/ ClearIdle \/ Detach \/ usb_endpoint_idle)
    => UNCHANGED <<Queue, Out, packet, harmed>>
<1> SUFFICES ASSUME LogInv,
                    \/ \E c \in MainByte : Check(c)
                    \/ Load \/ Reload \/ Read \/ ClearIdle \/ Detach
                    \/ usb_endpoint_idle
             PROVE  UNCHANGED <<Queue, Out, packet, harmed>>
  OBVIOUS
<1>1. UNCHANGED <<output_ring, packet, harmed>>
  BY DEF Check, Load, Reload, Read, ClearIdle, Detach, usb_endpoint_idle, endpoint
<1>2. UNCHANGED Out
  BY <1>1 DEF Out, Chunk, Check, Load, Reload, Read, ClearIdle, Detach,
              usb_endpoint_idle, writing, reading
<1>3. UNCHANGED Queue
  <2>1. \/ UNCHANGED <<at, reg, todo, ch>>
        \/ at # "store" /\ (at' = "store" => todo' = {"end", "data"})
    BY DEF Check, Load, Reload, Read, ClearIdle, Detach, usb_endpoint_idle, writing
  <2> QED BY <1>1, <2>1 DEF Queue
<1> QED BY <1>1, <1>2, <1>3

LEMMA HostPollStep == HostPoll => Ideal!Next
<1> SUFFICES ASSUME HostPoll PROVE Ideal!Next
  OBVIOUS
<1>1. packet' = <<>> /\ UNCHANGED <<output_ring, at, ch, reg, todo, buf, len, harmed>>
  BY DEF HostPoll, writing, reading
<1>2. UNCHANGED <<Queue, Out>>
  BY <1>1 DEF Queue, Out, Chunk
<1> QED BY <1>1, <1>2 DEF Ideal!Next, Ideal!MayGo, Out

LEMMA CopyStep == LogInv /\ Copy => Ideal!Next
<1> SUFFICES ASSUME LogInv, Copy PROVE Ideal!Next
  OBVIOUS
<1>1. /\ at = "copy" /\ at' = "rest"
      /\ packet' = IF packet = <<>> THEN Chunk ELSE packet
      /\ UNCHANGED <<output_ring, ch, reg, todo, harmed>>
  BY DEF Copy
<1>2. Out = Chunk /\ Out' = <<>> /\ UNCHANGED Queue
  BY <1>1 DEF Out, Queue
<1>3. Chunk # <<>>
  BY <1>1, ChunkType DEF LogInv, Reads, TypeOK
<1> QED BY <1>1, <1>2, <1>3 DEF Ideal!Next, Ideal!Hand, Out

\* What Read saw as its chunk is still what the queue begins with.
LEMMA StoreBeginStep == LogInv /\ LogInv' /\ StoreBegin => Ideal!Next
<1> SUFFICES ASSUME LogInv, LogInv', StoreBegin PROVE Ideal!Next
  OBVIOUS
<1>1. /\ at = "begin" /\ at' = "clear"
      /\ output_ring' = [output_ring EXCEPT !.begin = reg]
      /\ UNCHANGED <<packet, harmed, buf, len>>
  BY DEF StoreBegin, reading, endpoint, ghosts
<1>2. /\ buf = output_ring.begin /\ reg = (buf + len) % size
      /\ len \in 1..ring_contineous(output_ring, EP_SIZE)
      /\ len \in 0..EP_SIZE
  BY <1>1 DEF LogInv, Reads, TypeOK
<1>3. output_ring \in RingOf(size, Byte)
  BY <1>1, RestRing DEF LogInv
<1>4. ring_contineous(output_ring, len) = len /\ len \in 1..EP_SIZE
  <2>1. output_ring.begin \in 0..(size - 1) /\ RingLen(output_ring) \in Nat
    BY <1>3, Fields, LenIs, Sizes
  <2> DEFINE upTo == IF RingLen(output_ring) < size - output_ring.begin
                       THEN RingLen(output_ring) ELSE size - output_ring.begin
  <2>2. ring_contineous(output_ring, EP_SIZE) =
          IF upTo > EP_SIZE THEN EP_SIZE ELSE upTo
    BY <1>3, ContineousIs, Sizes
  <2>3. ring_contineous(output_ring, len) = IF upTo > len THEN len ELSE upTo
    BY <1>2, <1>3, ContineousIs, Sizes
  <2>4. upTo \in Int
    BY <2>1, Sizes
  <2> HIDE DEF upTo
  <2> QED BY <1>2, <2>2, <2>3, <2>4, Sizes
<1>5. output_ring' = ring_read_contineous(output_ring, len)
  <2>1. output_ring.size = size
    BY <1>3, Fields, Sizes
  <2> QED BY <1>1, <1>2, <1>4, <2>1 DEF ring_read_contineous
<1>6. Chunk = ring_chunk(output_ring, len) /\ Chunk' = Chunk
  <2>1. output_ring'.data = output_ring.data
    BY <1>1, <1>3, Fields, Sizes
  <2> QED BY <1>1, <1>2, <1>4, <2>1 DEF Chunk, ring_chunk
<1>7. /\ Chunk = SubSeq(Contents(output_ring), 1, len)
      /\ Contents(output_ring') =
           SubSeq(Contents(output_ring), len + 1, RingLen(output_ring))
      /\ len \in 0..RingLen(output_ring)
  <2>1. len \in Nat \ {0} /\ size \in Nat \ {0}
    BY <1>4, Sizes
  <2>2. LET n == ring_contineous(output_ring, len)
        IN  /\ n \in 0..RingLen(output_ring)
            /\ ring_chunk(output_ring, len) = SubSeq(Contents(output_ring), 1, n)
            /\ Contents(ring_read_contineous(output_ring, len)) =
                 SubSeq(Contents(output_ring), n + 1, RingLen(output_ring))
    BY <1>3, <2>1, ReadContineousTakesPrefix
  <2> QED BY <1>4, <1>5, <1>6, <2>2
<1>8. Queue = Contents(output_ring) /\ Queue' = Contents(output_ring')
  BY <1>1 DEF Queue
<1>9. QueueFacts
  BY QueueIs
<1>10. Queue = Chunk \o Queue' /\ Queue # <<>>
  <2>1. Queue \in Seq(Byte) /\ Len(Queue) = RingLen(output_ring)
    BY <1>9 DEF QueueFacts
  <2>2. Queue = SubSeq(Queue, 1, len) \o SubSeq(Queue, len + 1, Len(Queue))
    <3>1. Len(Queue) \in Nat /\ len \in 0..Len(Queue)
      BY <1>7, <2>1
    <3> QED BY <2>1, <3>1, ConcatAdjacentSubSeq, SubSeqFull
  <2>3. Len(Queue) > 0
    BY <1>4, <1>7, <2>1
  <2> QED BY <1>7, <1>8, <2>1, <2>2, <2>3
<1>11. Out = <<>> /\ Out' = Chunk /\ Len(Chunk) = len
  BY <1>1, <1>6, ChunkType DEF Out, LogInv
<1> QED BY <1>1, <1>4, <1>10, <1>11 DEF Ideal!Next, Ideal!Take, Out

LEMMA StoreDataStep ==
  LogInv /\ LogInv' /\ Store("data") => Ideal!Next \/ UNCHANGED <<Queue, Out, packet, harmed>>
<1> SUFFICES ASSUME LogInv, LogInv', Store("data")
             PROVE  Ideal!Next \/ UNCHANGED <<Queue, Out, packet, harmed>>
  OBVIOUS
<1>1. /\ at = "store" /\ at' \in {"store", "reload"} /\ "data" \in todo
      /\ todo' = todo \ {"data"}
      /\ output_ring' = [output_ring EXCEPT !.data[reg] = ch]
      /\ UNCHANGED <<packet, harmed, ch, reg>>
  BY DEF Store, reading, endpoint, ghosts
<1>2. Out = <<>> /\ Out' = <<>>
  BY <1>1 DEF Out
<1>3. CASE harmed
  BY <1>1, <1>2, <1>3, HarmIs DEF Ideal!Next, Ideal!MayGo
<1>4. CASE ~harmed
  <2>1. /\ output_ring' = [size |-> size,
                           data |-> [output_ring.data EXCEPT ![reg] = ch],
                           begin |-> output_ring.begin, end |-> output_ring.end]
        /\ output_ring.data \in [Places(size) -> Byte] /\ output_ring.size = size
    BY <1>1, WideFields DEF LogInv, TypeOK, Wide
  <2>2. reg \in Places(size) /\ ch \in Byte /\ ~Filling'
    BY <1>1, LogAssumption DEF LogInv, Writes, Filling
  <2>3. RingLen(output_ring') = RingLen(output_ring)
    BY <2>1 DEF RingLen, ring_marklen
  <2>4. \A i : PlaceOf(i)' = PlaceOf(i)
    BY <2>1 DEF PlaceOf
  <2>5. RingLen(output_ring) \in 0..(size - 1)
    BY WideLen DEF LogInv
  <2>6. ASSUME NEW i \in 1..RingLen(output_ring) PROVE ByteOf(i)' = ByteOf(i)
    <3>1. i \in 1..size /\ PlaceOf(i) \in Places(size)
      BY <2>5, PlacesAre, Sizes DEF LogInv
    <3>2. ByteOf(i)' = [output_ring.data EXCEPT ![reg] = ch][PlaceOf(i)]
      BY <2>1, <2>2, <2>4 DEF ByteOf
    <3>3. CASE "end" \in todo
      <4>1. HasRoom(output_ring) /\ reg = output_ring.end
        BY <1>1, <1>4, <3>3 DEF LogInv, Writes, CleanWrite
      <4>2. output_ring \in RingOf(size, Byte)
        BY <2>2, <4>1, Sizes, RestRing DEF LogInv, Places
      <4>3. PICK k \in 1..(size - 1) :
              k = RingLen(output_ring) + 1 /\ PlaceOf(k) = output_ring.end
        BY <4>1, <4>2, EndMoves DEF PlaceOf
      <4>4. PlaceOf(i) # reg
        <5>1. k \in 1..size /\ i # k
          BY <2>5, <4>3, Sizes
        <5> QED BY <3>1, <4>1, <4>3, <5>1, PlacesDiffer DEF LogInv
      <4>5. ~Filling
        BY <3>3 DEF Filling
      <4> QED BY <2>1, <3>1, <3>2, <4>4, <4>5 DEF ByteOf
    <3>4. CASE "end" \notin todo
      <4>1. Filling
        BY <1>1, <3>4 DEF Filling, LogInv, TypeOK
      <4> QED BY <2>1, <3>1, <3>2, <4>1 DEF ByteOf
    <3> QED BY <3>3, <3>4
  <2>7. Queue' = Queue
    BY <2>3, <2>6, QueueStays
  <2> QED BY <1>1, <1>2, <2>7
<1> QED BY <1>3, <1>4

\* The byte is logged when its end is stored.
LEMMA StoreEndStep == LogInv /\ LogInv' /\ Store("end") => Ideal!Next
<1> SUFFICES ASSUME LogInv, LogInv', Store("end") PROVE Ideal!Next
  OBVIOUS
<1>1. /\ at = "store" /\ at' \in {"store", "reload"} /\ "end" \in todo
      /\ todo' = todo \ {"end"} /\ (at' = "store" <=> todo' # {})
      /\ output_ring' = [output_ring EXCEPT !.end = reg + 1]
      /\ UNCHANGED <<packet, harmed, ch, reg>>
  BY DEF Store, reading, endpoint, ghosts
<1>2. Out = <<>> /\ Out' = <<>>
  BY <1>1 DEF Out
<1>3. CASE harmed
  BY <1>1, <1>2, <1>3, HarmIs DEF Ideal!Next, Ideal!MayGo
<1>4. CASE ~harmed
  <2>1. /\ HasRoom(output_ring) /\ reg = output_ring.end
        /\ "data" \notin todo => output_ring.data[reg] = ch
        /\ reg \in Places(size) /\ ch \in MainByte
    BY <1>1, <1>4 DEF LogInv, Writes, CleanWrite
  <2>2. output_ring \in RingOf(size, Byte)
    BY <2>1, Sizes, RestRing DEF LogInv, Places
  <2>3. PICK k \in 1..(size - 1) : k = RingLen(output_ring) + 1
    BY <2>1, <2>2, EndMoves
  <2>4. RingLen(output_ring') = k /\ PlaceOf(k) = reg
    BY <1>1, <2>1, <2>2, <2>3, EndMoves DEF PlaceOf
  <2>5. output_ring'.data = output_ring.data /\ \A i : PlaceOf(i)' = PlaceOf(i)
    <3>1. output_ring' = [size |-> size, data |-> output_ring.data,
                          begin |-> output_ring.begin, end |-> reg + 1]
      BY <1>1, WideFields DEF LogInv, TypeOK, Wide
    <3> QED BY <3>1 DEF PlaceOf
  <2>6. ~Filling /\ (Filling' <=> "data" \in todo)
    BY <1>1 DEF Filling, LogInv, TypeOK
  <2>7. RingLen(output_ring) \in 0..(size - 1)
    BY WideLen DEF LogInv
  <2>8. ASSUME NEW i \in 1..k
        PROVE  ByteOf(i)' = IF i <= RingLen(output_ring) THEN ByteOf(i)
                            ELSE <<ch>>[i - RingLen(output_ring)]
    <3>1. CASE i = k
      <4>1. ByteOf(i)' = ch
        BY <1>1, <2>1, <2>4, <2>5, <2>6, <3>1 DEF ByteOf
      <4>2. ~(i <= RingLen(output_ring)) /\ i - RingLen(output_ring) = 1
        BY <2>3, <2>7, <3>1
      <4> QED BY <4>1, <4>2
    <3>2. CASE i # k
      <4>1. i \in 1..size /\ k \in 1..size /\ i <= RingLen(output_ring)
        BY <2>3, <2>7, <3>2, Sizes
      <4>2. PlaceOf(i) # reg
        BY <2>4, <3>2, <4>1, PlacesDiffer DEF LogInv
      <4>3. ByteOf(i)' = ByteOf(i)
        BY <1>1, <2>5, <2>6, <4>2 DEF ByteOf
      <4> QED BY <4>1, <4>3
    <3> QED BY <3>1, <3>2
  <2>9. Ideal!Put(<<ch>>)
    <3>1. <<ch>> \in Seq(Byte) /\ Len(<<ch>>) = 1
      BY <2>1, LogAssumption
    <3>2. RingLen(output_ring') =
            IF RingLen(output_ring) + 1 < size - 1
              THEN RingLen(output_ring) + 1 ELSE size - 1
      BY <2>3, <2>4, <2>7, Sizes
    <3> QED BY <1>2, <2>4, <2>8, <3>1, <3>2, PutIs
  <2> QED BY <1>1, <2>1, <2>9 DEF Ideal!Next, Ideal!MayGo
<1> QED BY <1>3, <1>4

\* The end that was one too far is the first place again.
LEMMA WrapStep ==
  LogInv /\ LogInv' /\ Wrap => Ideal!Next \/ UNCHANGED <<Queue, Out, packet, harmed>>
<1> SUFFICES ASSUME LogInv, LogInv', Wrap
             PROVE  Ideal!Next \/ UNCHANGED <<Queue, Out, packet, harmed>>
  OBVIOUS
<1>1. /\ at = "wrap" /\ at' = "rest" /\ harmed' = FALSE
      /\ output_ring' = [output_ring EXCEPT !.end = reg % size]
      /\ UNCHANGED packet
  BY DEF Wrap, endpoint
<1>2. Out = <<>> /\ Out' = <<>>
  BY <1>1 DEF Out
<1>3. CASE harmed
  BY <1>1, <1>2, <1>3, HarmIs DEF Ideal!Next, Ideal!MayGo
<1>4. CASE ~harmed
  <2>1. reg = output_ring.end
    BY <1>1, <1>4 DEF LogInv, Writes, CleanWrite
  <2>2. /\ output_ring.begin \in 0..(size - 1) /\ output_ring.end \in 0..size
        /\ output_ring.size = size
    BY Sizes, WideFields DEF LogInv, TypeOK, Wide
  <2>3. PICK e \in Int : e = output_ring.end % size
    BY <2>2, Sizes
  <2>4. e = IF output_ring.end < size THEN output_ring.end ELSE 0
    <3>1. PICK x \in 0..(2 * size - 1) : x = output_ring.end
      BY <2>2, Sizes
    <3> QED BY <2>2, <2>3, <3>1, Sizes, ModIs
  <2>5. output_ring' = [size |-> size, data |-> output_ring.data,
                        begin |-> output_ring.begin, end |-> e]
    BY <1>1, <2>1, <2>3, WideFields DEF LogInv, TypeOK, Wide
  <2>6. RingLen(output_ring') = RingLen(output_ring)
    <3>1. RingLen(output_ring) = ((output_ring.end - output_ring.begin) + size) % size
      BY <2>2 DEF RingLen, ring_marklen
    <3>2. RingLen(output_ring') = ((e - output_ring.begin) + size) % size
      BY <2>5 DEF RingLen, ring_marklen
    <3>3. CASE output_ring.end < size
      BY <2>4, <3>1, <3>2, <3>3
    <3>4. CASE output_ring.end = size
      <4>1. PICK y \in 1..size : y = size - output_ring.begin
        BY <2>2, Sizes
      <4>2. (y + size) % size = y % size
        BY <4>1, Sizes, ModPlus
      <4>3. /\ (output_ring.end - output_ring.begin) + size = y + size
            /\ (e - output_ring.begin) + size = y
        BY <2>2, <2>4, <3>4, <4>1, Sizes
      <4> QED BY <3>1, <3>2, <4>2, <4>3
    <3> QED BY <2>2, <3>3, <3>4, Sizes
  <2>7. ASSUME NEW i \in 1..RingLen(output_ring) PROVE ByteOf(i)' = ByteOf(i)
    BY <1>1, <2>5 DEF ByteOf, PlaceOf, Filling
  <2>8. Queue' = Queue
    BY <2>6, <2>7, QueueStays
  <2>9. harmed' = harmed
    BY <1>1, <1>4 DEF LogInv, TypeOK
  <2> QED BY <1>1, <1>2, <2>8, <2>9
<1> QED BY <1>3, <1>4

LEMMA InitStep == Init => Ideal!Init
<1> SUFFICES ASSUME Init PROVE Ideal!Init
  OBVIOUS
<1>1. QueueFacts
  BY InitLog, QueueIs
<1>2. RingLen(output_ring) = 0
  <2>1. PICK b \in Byte : output_ring = ring_init([p \in Places(size) |-> b], size)
    BY DEF Init
  <2>2. output_ring = [size |-> size, data |-> [p \in Places(size) |-> b],
                       begin |-> 0, end |-> 0]
    BY <2>1 DEF ring_init
  <2>3. RingLen(output_ring) = (0 - 0 + size) % size
    BY <2>2 DEF RingLen, ring_marklen
  <2>4. (0 + size) % size = 0 % size /\ 0 % size = 0 /\ 0 - 0 + size = 0 + size
    BY Sizes, ModPlus
  <2> QED BY <2>3, <2>4
<1>3. Queue = <<>>
  BY <1>1, <1>2 DEF QueueFacts
<1> QED BY <1>3 DEF Init, Ideal!Init

LEMMA PipeStep == LogInv /\ LogInv' /\ [Next]_vars => [Ideal!Next]_(Ideal!vars)
<1> SUFFICES ASSUME LogInv, LogInv', [Next]_vars
             PROVE  Ideal!Next \/ UNCHANGED <<Queue, Out, packet, harmed>>
  BY DEF Ideal!vars, Out
<1>1. CASE UNCHANGED vars
  BY <1>1 DEF vars, writing, reading, endpoint, Queue, Out, Chunk
<1>2. CASE MainGoesOn
  BY <1>2, QuietSteps, StoreDataStep, StoreEndStep, WrapStep, StoreBeginStep,
     CopyStep DEF MainGoesOn
<1> QED
  BY <1>1, <1>2, QuietSteps, InterruptSteps, HostPollStep DEF Next

\* Log implements Pipe: whatever the interrupt logs between the loads and
\* stores of ring_write_ch and ring_read_contineous, bytes come out in order,
\* none is made up and none lost but for want of room, for as long as no
\* interrupt meets a write half way.
THEOREM LogIsInOrder == Spec => LogsInOrder
<1>1. LogInv /\ LogInv' /\ [Next]_vars => [Ideal!Next]_(Ideal!vars)
  BY PipeStep
<1>2. Init => Ideal!Init
  BY InitStep
<1> QED BY <1>1, <1>2, LogInvHolds, PTL DEF Spec, LogsInOrder, Ideal!Spec

-----------------------------------------------------------------------------
(* Command: its sequences.                                                  *)

LEMMA Ranks == [s \in Seq(Char) |-> Len(s)] \in [Seq(Char) -> Nat]
OBVIOUS

LEMMA FromIs ==
  ASSUME NEW s \in Seq(Char), NEW i \in Nat \ {0}
  PROVE  /\ From(s, i) \in Seq(Char)
         /\ Len(From(s, i)) = IF i <= Len(s) THEN Len(s) - i + 1 ELSE 0
         /\ \A j \in 1..Len(From(s, i)) : From(s, i)[j] = s[i + j - 1]
         /\ i > Len(s) => From(s, i) = <<>>
<1>1. Len(s) \in Nat /\ \A j \in i..Len(s) : s[j] \in Char
  OBVIOUS
<1>2. From(s, i) = SubSeq(s, i, Len(s))
  BY DEF From
<1>3. /\ From(s, i) \in Seq(Char)
      /\ Len(From(s, i)) = IF i <= Len(s) THEN Len(s) - i + 1 ELSE 0
      /\ \A j \in 1..(Len(s) - i + 1) : From(s, i)[j] = s[i + j - 1]
  BY <1>1, <1>2, SubSeqProperties
<1>4. \A j \in 1..Len(From(s, i)) : j \in 1..(Len(s) - i + 1)
  BY <1>1, <1>3
<1>5. i > Len(s) => From(s, i) = <<>>
  BY <1>1, <1>2, SubSeqEmpty
<1> QED BY <1>3, <1>4, <1>5

\* Head and Tail under names that the provers need not expand.
First(s) == Head(s)
Rest(s)  == Tail(s)

LEMMA RestIs ==
  ASSUME NEW s \in Seq(Char), s # <<>>
  PROVE  /\ First(s) = s[1] /\ s[1] \in Char
         /\ Rest(s) = From(s, 2) /\ Rest(s) \in Seq(Char)
         /\ Len(Rest(s)) = Len(s) - 1 /\ Len(s) \in Nat \ {0}
         /\ \A j \in 1..(Len(s) - 1) : Rest(s)[j] = s[j + 1]
BY HeadTailProperties, TailIsSubSeq DEF From, First, Rest

LEMMA FromFrom ==
  ASSUME NEW s \in Seq(Char), NEW i \in Nat \ {0}, NEW j \in Nat \ {0}
  PROVE  From(From(s, i), j) = From(s, i + j - 1)
<1> DEFINE t == From(s, i)
           u == From(t, j)
           v == From(s, i + j - 1)
<1>0. i + j - 1 \in Nat \ {0} /\ Len(s) \in Nat
  OBVIOUS
<1>1. /\ t \in Seq(Char) /\ Len(t) = IF i <= Len(s) THEN Len(s) - i + 1 ELSE 0
      /\ \A k \in 1..Len(t) : t[k] = s[i + k - 1]
  BY FromIs
<1>2. /\ v \in Seq(Char)
      /\ Len(v) = IF i + j - 1 <= Len(s) THEN Len(s) - (i + j - 1) + 1 ELSE 0
      /\ \A k \in 1..Len(v) : v[k] = s[i + j - 1 + k - 1]
  BY <1>0, FromIs
<1> HIDE DEF t, v
<1>3. /\ u \in Seq(Char) /\ Len(u) = IF j <= Len(t) THEN Len(t) - j + 1 ELSE 0
      /\ \A k \in 1..Len(u) : u[k] = t[j + k - 1]
  BY <1>1, FromIs
<1> HIDE DEF u
<1>4. Len(u) = Len(v)
  BY <1>0, <1>1, <1>2, <1>3
<1>5. ASSUME NEW k \in 1..Len(u) PROVE u[k] = v[k]
  <2>1. j + k - 1 \in 1..Len(t)
    BY <1>0, <1>1, <1>3
  <2>2. u[k] = s[i + (j + k - 1) - 1]
    BY <1>1, <1>3, <2>1
  <2>3. v[k] = s[i + j - 1 + k - 1]
    BY <1>2, <1>4
  <2>4. i + (j + k - 1) - 1 = i + j - 1 + k - 1
    BY <1>3
  <2> QED BY <2>2, <2>3, <2>4
<1>6. u = v
  BY <1>2, <1>3, <1>4, <1>5, SeqEqual
<1> QED BY <1>6 DEF t, u, v

\* The least of a set of places.
LEMMA MinIs ==
  ASSUME NEW S \in SUBSET Nat, S # {}
  PROVE  Min(S) \in S /\ \A n \in S : Min(S) <= n
<1>1. \E m \in S : \A n \in S : m <= n
  BY Least
<1> QED BY <1>1 DEF Min

\* It is the one that no other is below.
LEMMA MinIsIt ==
  ASSUME NEW S \in SUBSET Nat, NEW m \in S, \A n \in S : m <= n
  PROVE  Min(S) = m
<1>1. Min(S) \in S /\ \A n \in S : Min(S) <= n
  BY MinIs
<1>2. Min(S) <= m /\ m <= Min(S) /\ m \in Nat /\ Min(S) \in Nat
  BY <1>1
<1> QED BY <1>2

-----------------------------------------------------------------------------
(* Command: what is gathered.                                               *)

LEMMA CommandNumbers ==
  /\ SERIAL_BUF_SIZEIN \in Nat \ {0, 1} /\ KEYMAP_ARGS \in Nat \ {0}
  /\ CMD_KEYMAP_SET \in Char /\ CMD_MACRO_SET \in Char
  /\ Simple \subseteq Char /\ Eol \subseteq Char
BY CommandAssumption

LEMMA KeptIs ==
  ASSUME NEW s \in Seq(Char)
  PROVE  /\ Lines!Kept(s) \in Seq(Char)
         /\ Len(Lines!Kept(s)) = IF Len(s) > SERIAL_BUF_SIZEIN - 1
                                   THEN SERIAL_BUF_SIZEIN - 1 ELSE Len(s)
         /\ \A j \in 1..Len(Lines!Kept(s)) : Lines!Kept(s)[j] = s[j]
         /\ Len(s) <= SERIAL_BUF_SIZEIN - 1 => Lines!Kept(s) = s
<1> DEFINE n == IF Len(s) > SERIAL_BUF_SIZEIN - 1 THEN SERIAL_BUF_SIZEIN - 1
                                                  ELSE Len(s)
<1>1. n \in 0..Len(s) /\ Len(s) \in Nat
  BY CommandNumbers
<1>2. Lines!Kept(s) = SubSeq(s, 1, n)
  BY DEF Lines!Kept
<1>3. Len(s) <= SERIAL_BUF_SIZEIN - 1 => n = Len(s)
  BY CommandNumbers
<1> HIDE DEF n
<1>4. \A j \in 1..n : s[j] \in Char
  BY <1>1
<1>5. /\ SubSeq(s, 1, n) \in Seq(Char) /\ Len(SubSeq(s, 1, n)) = n
      /\ \A j \in 1..n : SubSeq(s, 1, n)[j] = s[j]
  BY <1>1, <1>4, SubSeqProperties
<1>6. Len(s) <= SERIAL_BUF_SIZEIN - 1 => Lines!Kept(s) = s
  BY <1>2, <1>3, SubSeqFull
<1> QED BY <1>2, <1>5, <1>6 DEF n

LEMMA PutKept ==
  ASSUME NEW s \in Seq(Char), NEW c \in Char
  PROVE  Put(Lines!Kept(s), c) = Lines!Kept(Append(s, c))
<1> DEFINE k == Lines!Kept(s)
           t == Append(s, c)
           u == Lines!Kept(t)
<1>1. /\ k \in Seq(Char)
      /\ Len(k) = IF Len(s) > SERIAL_BUF_SIZEIN - 1 THEN SERIAL_BUF_SIZEIN - 1
                                                    ELSE Len(s)
      /\ \A j \in 1..Len(k) : k[j] = s[j]
  BY KeptIs
<1>2. /\ t \in Seq(Char) /\ Len(t) = Len(s) + 1 /\ Len(s) \in Nat
      /\ \A j \in 1..Len(s) : t[j] = s[j]
      /\ t[Len(s) + 1] = c
  OBVIOUS
<1>3. /\ u \in Seq(Char)
      /\ Len(u) = IF Len(t) > SERIAL_BUF_SIZEIN - 1 THEN SERIAL_BUF_SIZEIN - 1
                                                    ELSE Len(t)
      /\ \A j \in 1..Len(u) : u[j] = t[j]
  BY <1>2, KeptIs
<1> SUFFICES Put(k, c) = u
  OBVIOUS
<1> HIDE DEF k, t, u
<1>4. CASE Len(s) < SERIAL_BUF_SIZEIN - 1
  <2>1. Put(k, c) = Append(k, c) /\ Len(k) = Len(s) /\ Len(u) = Len(s) + 1
    BY <1>1, <1>2, <1>3, <1>4, CommandNumbers DEF Put
  <2>2. /\ Append(k, c) \in Seq(Char) /\ Len(Append(k, c)) = Len(s) + 1
        /\ \A j \in 1..Len(s) : Append(k, c)[j] = k[j]
        /\ Append(k, c)[Len(s) + 1] = c
    BY <1>1, <2>1
  <2>3. ASSUME NEW j \in 1..(Len(s) + 1) PROVE Append(k, c)[j] = u[j]
    <3>1. CASE j = Len(s) + 1
      BY <1>2, <1>3, <2>1, <2>2, <3>1
    <3>2. CASE j \in 1..Len(s)
      BY <1>1, <1>2, <1>3, <2>1, <2>2, <3>2
    <3>3. j = Len(s) + 1 \/ j \in 1..Len(s)
      BY <1>2
    <3> QED BY <3>1, <3>2, <3>3
  <2>4. Append(k, c) = u
    BY <1>3, <2>1, <2>2, <2>3, SeqEqual
  <2> QED BY <2>1, <2>4
<1>5. CASE ~(Len(s) < SERIAL_BUF_SIZEIN - 1)
  <2>1. Put(k, c) = k /\ Len(k) = SERIAL_BUF_SIZEIN - 1 /\ Len(u) = Len(k)
        /\ Len(k) <= Len(s)
    BY <1>1, <1>2, <1>3, <1>5, CommandNumbers DEF Put
  <2>2. ASSUME NEW j \in 1..Len(k) PROVE k[j] = u[j]
    <3>1. j \in 1..Len(s)
      BY <1>2, <2>1, CommandNumbers
    <3> QED BY <1>1, <1>2, <1>3, <2>1, <3>1
  <2> QED BY <1>1, <1>3, <2>1, <2>2, SeqEqual
<1> QED BY <1>4, <1>5

\* A packet gathers in the ring as far as there is room.
LEMMA GatheredIs ==
  ASSUME NEW ring \in Seq(Char), Len(ring) <= SERIAL_BUF_SIZEIN - 1,
         NEW bytes \in Seq(Char)
  PROVE  Gathered(ring, bytes) = Lines!Kept(ring \o bytes)
<1> DEFINE At(i) == Lines!Kept(ring \o SubSeq(bytes, 1, i))
           Def(g) == g = [i \in 0..Len(bytes) |->
                            IF i = 0 THEN ring ELSE Put(g[i - 1], bytes[i])]
           f == [i \in 0..Len(bytes) |-> At(i)]
<1>1. At(0) = ring
  <2>1. SubSeq(bytes, 1, 0) = <<>>
    BY SubSeqEmpty
  <2>2. ring \o <<>> = ring
    OBVIOUS
  <2> QED BY <2>1, <2>2, KeptIs
<1>2. ASSUME NEW i \in 1..Len(bytes) PROVE At(i) = Put(At(i - 1), bytes[i])
  <2> DEFINE b == SubSeq(bytes, 1, i - 1)
  <2>1. i - 1 \in 0..Len(bytes) /\ i \in Nat /\ bytes[i] \in Char
    OBVIOUS
  <2>2. b \in Seq(Char)
    BY <2>1
  <2>3. SubSeq(bytes, 1, i) = Append(b, bytes[i])
    BY <2>1
  <2> HIDE DEF b
  <2>4. ring \o Append(b, bytes[i]) = Append(ring \o b, bytes[i])
    BY <2>1, <2>2
  <2>5. Put(Lines!Kept(ring \o b), bytes[i]) = Lines!Kept(Append(ring \o b, bytes[i]))
    <3>1. ring \o b \in Seq(Char)
      BY <2>2
    <3> QED BY <2>1, <3>1, PutKept
  <2> QED BY <2>3, <2>4, <2>5 DEF b
<1> HIDE DEF At
<1>3. Def(f)
  <2>1. ASSUME NEW i \in 0..Len(bytes)
        PROVE  At(i) = IF i = 0 THEN ring ELSE Put(f[i - 1], bytes[i])
    <3>1. CASE i = 0
      BY <1>1, <3>1
    <3>2. CASE i # 0
      <4>1. i \in 1..Len(bytes) /\ i - 1 \in 0..Len(bytes)
        BY <3>2
      <4>2. f[i - 1] = At(i - 1)
        BY <4>1
      <4> QED BY <1>2, <3>2, <4>1, <4>2
    <3> QED BY <3>1, <3>2
  <2> QED BY <2>1
<1> DEFINE after == CHOOSE g : Def(g)
<1>4. Def(after)
  <2> HIDE DEF f, Def
  <2> QED BY <1>3
<1>5. Gathered(ring, bytes) = after[Len(bytes)]
  BY DEF Gathered
<1> HIDE DEF after, f
<1> DEFINE S == {n \in Nat : n <= Len(bytes) => after[n] = At(n)}
<1>6. 0 \in S
  BY <1>1, <1>4
<1>7. ASSUME NEW n \in Nat, n \in S PROVE n + 1 \in S
  <2>1. ASSUME n + 1 <= Len(bytes) PROVE after[n + 1] = At(n + 1)
    <3>1. n + 1 \in 1..Len(bytes) /\ n + 1 \in 0..Len(bytes) /\ n + 1 # 0
          /\ (n + 1) - 1 = n /\ n <= Len(bytes)
      BY <2>1
    <3>2. after[n + 1] = Put(after[n], bytes[n + 1])
      BY <1>4, <3>1
    <3>3. At(n + 1) = Put(At(n), bytes[n + 1])
      BY <1>2, <3>1
    <3> QED BY <1>7, <3>1, <3>2, <3>3
  <2> QED BY <2>1
<1>8. Len(bytes) \in Nat /\ Len(bytes) \in S
  <2> HIDE DEF S
  <2> QED BY <1>6, <1>7, SetInduction
<1>9. SubSeq(bytes, 1, Len(bytes)) = bytes
  BY SubSeqFull
<1>10. after[Len(bytes)] = At(Len(bytes))
  BY <1>8
<1>11. At(Len(bytes)) = Lines!Kept(ring \o bytes)
  BY <1>9 DEF At
<1> QED BY <1>5, <1>10, <1>11

-----------------------------------------------------------------------------
(* Command: command_process, which is recursive.                            *)

\* What is executed: commands with their arguments.
Executable ==
  {<<c>> : c \in Simple}
    \cup {<<CMD_KEYMAP_SET, a>> : a \in [1..KEYMAP_ARGS -> Nat]}
    \cup {<<CMD_MACRO_SET, n, p>> : n \in Nat, p \in Seq(Char)}

\* One call, f being what the ones that follow do.
Process(ring, f) ==
  IF ring = <<>> THEN <<>>
  ELSE LET c == Head(ring)
           rest == Tail(ring)
       IN  CASE c \in Simple -> <<<<c>>>> \o f[rest]
             [] c = CMD_KEYMAP_SET ->
                  <<command_set_keymap(rest)>> \o f[From(rest, 2 * KEYMAP_ARGS + 1)]
             [] c = CMD_MACRO_SET ->
                  IF PhraseEnds(rest) = {} THEN <<>>
                  ELSE <<command_set_macro(rest)>>
                         \o f[From(rest, Min(PhraseEnds(rest)) + 1)]
             [] c \in Eol -> f[rest]
             [] OTHER -> f[ring_skip_line(rest)]

LEMMA ProcessCases ==
  ASSUME NEW ring, NEW f, ring # <<>>
  PROVE  /\ First(ring) \in Simple => Process(ring, f) = <<<<First(ring)>>>> \o f[Rest(ring)]
         /\ First(ring) = CMD_KEYMAP_SET =>
              Process(ring, f) = <<command_set_keymap(Rest(ring))>>
                                   \o f[From(Rest(ring), 2 * KEYMAP_ARGS + 1)]
         /\ First(ring) = CMD_MACRO_SET /\ PhraseEnds(Rest(ring)) = {} =>
              Process(ring, f) = <<>>
         /\ First(ring) = CMD_MACRO_SET /\ PhraseEnds(Rest(ring)) # {} =>
              Process(ring, f) = <<command_set_macro(Rest(ring))>>
                                   \o f[From(Rest(ring), Min(PhraseEnds(Rest(ring))) + 1)]
         /\ First(ring) \in Eol => Process(ring, f) = f[Rest(ring)]
         /\ First(ring) \notin Simple \cup Eol \cup {CMD_KEYMAP_SET, CMD_MACRO_SET} =>
              Process(ring, f) = f[ring_skip_line(Rest(ring))]
BY CommandAssumption DEF Process, First, Rest

LEMMA EolsAre ==
  ASSUME NEW s \in Seq(Char), NEW i \in Nat \ {0}
  PROVE  /\ Eols(s, i) \in SUBSET Nat
         /\ Eols(s, i) # {} =>
              /\ Min(Eols(s, i)) \in i..Len(s)
              /\ Min(Eols(s, i)) \in Eols(s, i)
              /\ \A j \in Eols(s, i) : Min(Eols(s, i)) <= j
<1>1. Len(s) \in Nat /\ Eols(s, i) \in SUBSET Nat
  BY DEF Eols
<1>2. ASSUME Eols(s, i) # {}
      PROVE  Min(Eols(s, i)) \in Eols(s, i) /\ \A j \in Eols(s, i) : Min(Eols(s, i)) <= j
  BY <1>1, <1>2, MinIs
<1>3. \A j \in Eols(s, i) : j \in i..Len(s)
  BY DEF Eols
<1> QED BY <1>1, <1>2, <1>3

\* What is left to the calls that follow is shorter.
LEMMA Shorter ==
  ASSUME NEW ring \in Seq(Char), ring # <<>>
  PROVE  /\ Rest(ring) \in Seq(Char) /\ Len(Rest(ring)) < Len(ring)
         /\ From(Rest(ring), 2 * KEYMAP_ARGS + 1) \in Seq(Char)
         /\ Len(From(Rest(ring), 2 * KEYMAP_ARGS + 1)) < Len(ring)
         /\ PhraseEnds(Rest(ring)) # {} =>
              /\ From(Rest(ring), Min(PhraseEnds(Rest(ring))) + 1) \in Seq(Char)
              /\ Len(From(Rest(ring), Min(PhraseEnds(Rest(ring))) + 1)) < Len(ring)
         /\ ring_skip_line(Rest(ring)) \in Seq(Char)
         /\ Len(ring_skip_line(Rest(ring))) < Len(ring)
<1>1. Rest(ring) \in Seq(Char) /\ Len(Rest(ring)) = Len(ring) - 1 /\ Len(ring) \in Nat \ {0}
  BY RestIs
<1>2. ASSUME NEW i \in Nat \ {0}
      PROVE  From(Rest(ring), i) \in Seq(Char) /\ Len(From(Rest(ring), i)) < Len(ring)
  BY <1>1, FromIs
<1>3. 2 * KEYMAP_ARGS + 1 \in Nat \ {0}
  BY CommandNumbers
<1>4. PhraseEnds(Rest(ring)) # {} => Min(PhraseEnds(Rest(ring))) + 1 \in Nat \ {0}
  <2>1. PhraseEnds(Rest(ring)) # {} => Min(PhraseEnds(Rest(ring))) \in 4..Len(Rest(ring))
    BY <1>1, EolsAre DEF PhraseEnds
  <2> QED BY <2>1
<1>5. ring_skip_line(Rest(ring)) \in Seq(Char) /\ Len(ring_skip_line(Rest(ring))) < Len(ring)
  <2>1. CASE Eols(Rest(ring), 1) = {}
    <3>1. <<>> \in Seq(Char) /\ Len(<<>>) = 0
      OBVIOUS
    <3> QED BY <1>1, <2>1, <3>1 DEF ring_skip_line
  <2>2. CASE Eols(Rest(ring), 1) # {}
    <3>1. Min(Eols(Rest(ring), 1)) \in 1..Len(Rest(ring))
      BY <1>1, <2>2, EolsAre
    <3>2. Min(Eols(Rest(ring), 1)) + 1 \in Nat \ {0}
      BY <3>1
    <3> QED BY <1>2, <2>2, <3>2 DEF ring_skip_line
  <2> QED BY <2>1, <2>2
<1>6. Len(Rest(ring)) < Len(ring)
  BY <1>1
<1> QED BY <1>1, <1>2, <1>3, <1>4, <1>5, <1>6

LEMMA ProcessLocal ==
  ASSUME NEW ring \in Seq(Char), NEW f, NEW g,
         \A r \in Seq(Char) : Len(r) < Len(ring) => f[r] = g[r]
  PROVE  Process(ring, f) = Process(ring, g)
<1>1. CASE ring = <<>>
  BY <1>1 DEF Process
<1>2. CASE ring # <<>>
  <2> DEFINE c == First(ring)
             rest == Rest(ring)
  <2>1. f[rest] = g[rest]
    BY <1>2, Shorter
  <2>2. f[From(rest, 2 * KEYMAP_ARGS + 1)] = g[From(rest, 2 * KEYMAP_ARGS + 1)]
    BY <1>2, Shorter
  <2>3. PhraseEnds(rest) # {} =>
          f[From(rest, Min(PhraseEnds(rest)) + 1)]
            = g[From(rest, Min(PhraseEnds(rest)) + 1)]
    BY <1>2, Shorter
  <2>4. f[ring_skip_line(rest)] = g[ring_skip_line(rest)]
    BY <1>2, Shorter
  <2>5. CASE c \in Simple
    BY <1>2, <2>1, <2>5, ProcessCases
  <2>6. CASE c = CMD_KEYMAP_SET
    BY <1>2, <2>2, <2>6, ProcessCases
  <2>7. CASE c = CMD_MACRO_SET /\ PhraseEnds(rest) = {}
    <3>1. Process(ring, f) = <<>> /\ Process(ring, g) = <<>>
      BY <1>2, <2>7, ProcessCases
    <3> QED BY <3>1
  <2>8. CASE c = CMD_MACRO_SET /\ PhraseEnds(rest) # {}
    BY <1>2, <2>3, <2>8, ProcessCases
  <2>9. CASE c \in Eol
    BY <1>2, <2>1, <2>9, ProcessCases
  <2>10. CASE c \notin Simple \cup Eol \cup {CMD_KEYMAP_SET, CMD_MACRO_SET}
    BY <1>2, <2>4, <2>10, ProcessCases
  <2> QED BY <2>5, <2>6, <2>7, <2>8, <2>9, <2>10
<1> QED BY <1>1, <1>2

LEMMA HexIs ==
  ASSUME NEW s \in Seq(Char), NEW i \in Nat \ {0}
  PROVE  hex_digit(s, i) \in Nat /\ read_hex_8(s, i) \in Nat
<1>1. ASSUME NEW j \in Nat \ {0} PROVE hex_digit(s, j) \in Nat
  <2>1. CASE j > Len(s)
    BY <2>1 DEF hex_digit
  <2>2. CASE ~(j > Len(s))
    <3>1. s[j] \in Char
      BY <2>2
    <3>2. HexValue[s[j]] \in 0..15
      BY <3>1, CommandAssumption
    <3> QED BY <2>2, <3>2 DEF hex_digit
  <2> QED BY <2>1, <2>2
<1>2. i + 1 \in Nat \ {0}
  OBVIOUS
<1>3. PICK x \in Nat, y \in Nat : x = hex_digit(s, i) /\ y = hex_digit(s, i + 1)
  BY <1>1, <1>2
<1> QED BY <1>3 DEF read_hex_8

LEMMA ArgumentsAre ==
  ASSUME NEW s \in Seq(Char)
  PROVE  /\ command_set_keymap(s) \in Executable
         /\ PhraseEnds(s) # {} => command_set_macro(s) \in Executable
<1>1. command_set_keymap(s) \in Executable
  <2>1. ASSUME NEW n \in 1..KEYMAP_ARGS PROVE read_hex_8(s, 2 * n - 1) \in Nat
    <3>1. 2 * n - 1 \in Nat \ {0}
      BY CommandNumbers
    <3> QED BY <3>1, HexIs
  <2>2. PICK a \in [1..KEYMAP_ARGS -> Nat] :
          a = [n \in 1..KEYMAP_ARGS |-> read_hex_8(s, 2 * n - 1)]
    BY <2>1
  <2>3. command_set_keymap(s) = <<CMD_KEYMAP_SET, a>>
    BY <2>2 DEF command_set_keymap
  <2> QED BY <2>3 DEF Executable
<1>2. ASSUME PhraseEnds(s) # {} PROVE command_set_macro(s) \in Executable
  <2>1. Min(PhraseEnds(s)) \in 4..Len(s) /\ Len(s) \in Nat
    BY <1>2, EolsAre DEF PhraseEnds
  <2>2. PICK m \in Nat : m = Min(PhraseEnds(s)) - 1 /\ m <= Len(s)
    BY <2>1
  <2>3. \A j \in 3..m : s[j] \in Char
    BY <2>1, <2>2
  <2>4. SubSeq(s, 3, m) \in Seq(Char)
    BY <2>2, <2>3, SubSeqProperties
  <2>5. read_hex_8(s, 1) \in Nat
    BY HexIs
  <2>6. PICK n \in Nat, p \in Seq(Char) : n = read_hex_8(s, 1) /\ p = SubSeq(s, 3, m)
    BY <2>4, <2>5
  <2>7. command_set_macro(s) = <<CMD_MACRO_SET, n, p>>
    BY <2>2, <2>6 DEF command_set_macro
  <2> QED BY <2>7 DEF Executable
<1> QED BY <1>1, <1>2

LEMMA ProcessType ==
  ASSUME NEW ring \in Seq(Char), NEW f \in [Seq(Char) -> Seq(Executable)]
  PROVE  Process(ring, f) \in Seq(Executable)
<1>1. CASE ring = <<>>
  BY <1>1 DEF Process
<1>2. CASE ring # <<>>
  <2> DEFINE c == First(ring)
             rest == Rest(ring)
  <2>1. \A x \in Executable, t \in Seq(Executable) : <<x>> \o t \in Seq(Executable)
    OBVIOUS
  <2>2. rest \in Seq(Char)
    BY <1>2, RestIs
  <2>3. CASE c \in Simple
    <3>1. <<c>> \in Executable
      BY <2>3 DEF Executable
    <3> QED BY <1>2, <2>1, <2>2, <2>3, <3>1, ProcessCases
  <2>4. CASE c = CMD_KEYMAP_SET
    <3>1. f[From(rest, 2 * KEYMAP_ARGS + 1)] \in Seq(Executable)
      BY <1>2, Shorter
    <3>2. command_set_keymap(rest) \in Executable
      BY <2>2, ArgumentsAre
    <3> QED BY <1>2, <2>1, <2>4, <3>1, <3>2, ProcessCases
  <2>5. CASE c = CMD_MACRO_SET /\ PhraseEnds(rest) = {}
    <3>1. Process(ring, f) = <<>>
      BY <1>2, <2>5, ProcessCases
    <3> QED BY <3>1
  <2>6. CASE c = CMD_MACRO_SET /\ PhraseEnds(rest) # {}
    <3>1. f[From(rest, Min(PhraseEnds(rest)) + 1)] \in Seq(Executable)
      BY <1>2, <2>6, Shorter
    <3>2. command_set_macro(rest) \in Executable
      BY <2>2, <2>6, ArgumentsAre
    <3> QED BY <1>2, <2>1, <2>6, <3>1, <3>2, ProcessCases
  <2>7. CASE c \in Eol
    BY <1>2, <2>2, <2>7, ProcessCases
  <2>8. CASE c \notin Simple \cup Eol \cup {CMD_KEYMAP_SET, CMD_MACRO_SET}
    BY <1>2, <2>8, ProcessCases, Shorter
  <2> QED BY <2>3, <2>4, <2>5, <2>6, <2>7, <2>8
<1> QED BY <1>1, <1>2

LEMMA ProcessIs ==
  /\ command_process \in [Seq(Char) -> Seq(Executable)]
  /\ \A ring \in Seq(Char) : command_process[ring] = Process(ring, command_process)
<1> DEFINE D == Seq(Char)
           X == Seq(Executable)
           rank == [s \in D |-> Len(s)]
           H == [ring \in D |-> [f \in [D -> X] |-> Process(ring, f)]]
           Def(f) == f = [ring \in D |-> Process(ring, f)]
<1>1. rank \in [D -> Nat]
  BY Ranks
<1>2. \A ring \in D, f \in [D -> X] : H[ring][f] = Process(ring, f)
  OBVIOUS
<1>3. PICK g \in [D -> X] : \A ring \in D : g[ring] = Process(ring, g)
  <2>1. X # {}
    <3>1. <<>> \in Seq(Executable)
      OBVIOUS
    <3> QED BY <3>1
  <2>2. \A ring \in D, f \in [D -> X] : H[ring][f] \in X
    BY <1>2, ProcessType
  <2>3. ASSUME NEW ring \in D, NEW f \in [D -> X], NEW h \in [D -> X],
               \A r \in D : rank[r] < rank[ring] => f[r] = h[r]
        PROVE  H[ring][f] = H[ring][h]
    <3>1. \A r \in D : Len(r) < Len(ring) => f[r] = h[r]
      BY <2>3
    <3>2. Process(ring, f) = Process(ring, h)
      BY <3>1, ProcessLocal
    <3> QED BY <1>2, <3>2
  <2>4. \E f \in [D -> X] : \A ring \in D : f[ring] = H[ring][f]
    <3> HIDE DEF H, rank, D, X
    <3>1. Recursive(D, X, rank, H)
      BY <1>1, <2>1, <2>2, <2>3 DEF Recursive
    <3> QED BY <3>1, RecursionExists
  <2>5. PICK f \in [D -> X] : \A ring \in D : f[ring] = H[ring][f]
    BY <2>4
  <2>6. \A ring \in D : f[ring] = Process(ring, f)
    BY <1>2, <2>5
  <2> QED BY <2>6
<1>4. Def(g)
  BY <1>3
<1>5. command_process = CHOOSE f : Def(f)
  BY DEF command_process, Process
<1>6. Def(command_process)
  <2> HIDE DEF Def
  <2> QED BY <1>4, <1>5
<1>7. \A ring \in D : command_process[ring] = g[ring]
  <2> DEFINE S == {ring \in D : command_process[ring] = g[ring]}
  <2>1. ASSUME NEW ring \in D, \A r \in D : rank[r] < rank[ring] => r \in S
        PROVE  ring \in S
    <3>1. \A r \in D : Len(r) < Len(ring) => command_process[r] = g[r]
      BY <2>1
    <3>2. Process(ring, command_process) = Process(ring, g)
      BY <3>1, ProcessLocal
    <3> QED BY <1>3, <1>6, <3>2
  <2>2. \A ring \in D : ring \in S
    <3> HIDE DEF rank, D, S
    <3> QED BY <1>1, <2>1, RankInduction
  <2> QED BY <2>2
<1>8. command_process \in [D -> X]
  BY <1>3, <1>6, <1>7
<1> QED BY <1>6, <1>8

-----------------------------------------------------------------------------
(* Command: the invariant.                                                  *)

CommandInv == CommandTypeOK /\ NoLineWaits /\ executed \in Seq(Executable)

LEMMA FirstIsChar == \A e \in Executable : e[1] \in Char
<1> SUFFICES ASSUME NEW e \in Executable PROVE e[1] \in Char
  OBVIOUS
<1>1. CASE \E c \in Simple : e = <<c>>
  BY <1>1, CommandNumbers
<1>2. CASE \E a \in [1..KEYMAP_ARGS -> Nat] : e = <<CMD_KEYMAP_SET, a>>
  BY <1>2, CommandNumbers
<1>3. CASE \E n \in Nat, p \in Seq(Char) : e = <<CMD_MACRO_SET, n, p>>
  BY <1>3, CommandNumbers
<1> QED BY <1>1, <1>2, <1>3 DEF Executable

\* A packet that has no end of line puts none into the ring.
LEMMA SerialInInv ==
  ASSUME CommandInv, NEW bytes \in Packet, serial_in(bytes)
  PROVE  CommandInv'
<1> DEFINE all == input_ring \o bytes
           ring == Lines!Kept(all)
<1>1. bytes \in Seq(Char) /\ input_ring \in Seq(Char)
      /\ Len(input_ring) <= SERIAL_BUF_SIZEIN - 1
  BY CommandAssumption, CommandNumbers DEF CommandInv, CommandTypeOK
<1>2. /\ all \in Seq(Char) /\ Len(all) = Len(input_ring) + Len(bytes)
      /\ \A i \in 1..Len(all) :
           all[i] = IF i <= Len(input_ring) THEN input_ring[i]
                                            ELSE bytes[i - Len(input_ring)]
  BY <1>1, ConcatProperties
<1>3. Gathered(input_ring, bytes) = ring
  BY <1>1, GatheredIs
<1> HIDE DEF all
<1>4. /\ ring \in Seq(Char) /\ Len(ring) <= Len(all) /\ Len(ring) \in Nat
      /\ Len(ring) < SERIAL_BUF_SIZEIN
      /\ \A j \in 1..Len(ring) : ring[j] = all[j]
  BY <1>2, KeptIs, CommandNumbers
<1> HIDE DEF ring
<1>5. CASE ~eol_seen(bytes)
  <2>1. received' = bytes /\ input_ring' = ring /\ executed' = <<>>
    BY <1>3, <1>5 DEF serial_in
  <2>2. ASSUME NEW j \in 1..Len(ring) PROVE ring[j] \notin Eol
    <3>1. j \in 1..Len(all) /\ ring[j] = all[j]
      BY <1>2, <1>4
    <3>2. CASE j <= Len(input_ring)
      BY <1>1, <1>2, <3>1, <3>2 DEF CommandInv, NoLineWaits
    <3>3. CASE ~(j <= Len(input_ring))
      <4>1. j - Len(input_ring) \in 1..Len(bytes)
        BY <1>1, <1>2, <3>1, <3>3
      <4> QED BY <1>2, <1>5, <3>1, <3>3, <4>1 DEF eol_seen
    <3> QED BY <3>2, <3>3
  <2>3. executed' \in Seq(Executable) /\ Len(executed') = 0
    BY <2>1
  <2> QED BY <1>4, <2>1, <2>2, <2>3 DEF CommandInv, CommandTypeOK, NoLineWaits
<1>6. CASE eol_seen(bytes)
  <2>1. received' = bytes /\ input_ring' = <<>> /\ executed' = command_process[ring]
    BY <1>3, <1>6 DEF serial_in
  <2>2. executed' \in Seq(Executable)
    BY <1>4, <2>1, ProcessIs
  <2>3. \A i \in 1..Len(executed') : executed'[i][1] \in Char
    BY <2>2, FirstIsChar
  <2>4. input_ring' \in Seq(Char) /\ Len(input_ring') = 0
    BY <2>1
  <2> QED
    BY <2>1, <2>2, <2>3, <2>4, CommandNumbers DEF CommandInv, CommandTypeOK, NoLineWaits
<1> QED BY <1>5, <1>6

LEMMA CommandInvHolds == CommandSpec => []CommandInv
<1>1. CommandInit => CommandInv
  <2> SUFFICES ASSUME CommandInit PROVE CommandInv
    OBVIOUS
  <2>1. /\ input_ring \in Seq(Char) /\ Len(input_ring) = 0 /\ received = <<>>
        /\ executed \in Seq(Executable) /\ Len(executed) = 0
    BY DEF CommandInit
  <2> QED BY <2>1, CommandNumbers DEF CommandInv, CommandTypeOK, NoLineWaits
<1>2. CommandInv /\ [CommandNext]_commandVars => CommandInv'
  <2> SUFFICES ASSUME CommandInv, [CommandNext]_commandVars PROVE CommandInv'
    OBVIOUS
  <2>1. CASE CommandNext
    BY <2>1, SerialInInv DEF CommandNext
  <2>2. CASE UNCHANGED commandVars
    BY <2>2 DEF commandVars, CommandInv, CommandTypeOK, NoLineWaits
  <2> QED BY <2>1, <2>2
<1> QED BY <1>1, <1>2, PTL DEF CommandSpec

\* The input ring is never overfull, whatever packets come, and what is
\* executed begins with a command.
THEOREM CommandTypeCorrect == CommandSpec => []CommandTypeOK
<1>1. CommandInv => CommandTypeOK
  BY DEF CommandInv
<1> QED BY <1>1, CommandInvHolds, PTL

\* serial_in looks for the end of line in the packet, not in the ring, and so
\* no line waits whose end a full ring dropped.
THEOREM NoCompleteLineWaits == CommandSpec => []NoLineWaits
<1>1. CommandInv => NoLineWaits
  BY DEF CommandInv
<1> QED BY <1>1, CommandInvHolds, PTL

-----------------------------------------------------------------------------
(* CommandLine: its recursive functions.                                    *)

\* The commands of a line, f being those of what follows the first.
Does(l, f) ==
  IF l = <<>> THEN <<>>
  ELSE IF Head(l) \in Simple THEN <<<<Head(l)>>>> \o f[Tail(l)]
  ELSE IF Head(l) = CMD_KEYMAP_SET
         THEN <<Lines!KeymapSet(l)>> \o f[Lines!From(l, 2 * KEYMAP_ARGS + 2)]
  ELSE IF Head(l) = CMD_MACRO_SET /\ Lines!HasEol(l) THEN <<Lines!MacroSet(l)>>
  ELSE <<>>

LEMMA DoesCases ==
  ASSUME NEW l, NEW f
  PROVE  /\ l = <<>> => Does(l, f) = <<>>
         /\ l # <<>> =>
              /\ First(l) \in Simple => Does(l, f) = <<<<First(l)>>>> \o f[Rest(l)]
              /\ First(l) = CMD_KEYMAP_SET =>
                   Does(l, f)
                     = <<Lines!KeymapSet(l)>> \o f[From(l, 2 * KEYMAP_ARGS + 2)]
              /\ First(l) = CMD_MACRO_SET /\ Lines!HasEol(l) =>
                   Does(l, f) = <<Lines!MacroSet(l)>>
              /\ First(l) = CMD_MACRO_SET /\ ~Lines!HasEol(l) => Does(l, f) = <<>>
              /\ First(l) \notin Simple \cup {CMD_KEYMAP_SET, CMD_MACRO_SET} =>
                   Does(l, f) = <<>>
BY CommandAssumption DEF Does, First, Rest, From, Lines!From

\* What is left of a line is shorter.
LEMMA ShorterLine ==
  ASSUME NEW l \in Seq(Char), l # <<>>
  PROVE  /\ Rest(l) \in Seq(Char) /\ Len(Rest(l)) < Len(l)
         /\ From(l, 2 * KEYMAP_ARGS + 2) \in Seq(Char)
         /\ Len(From(l, 2 * KEYMAP_ARGS + 2)) < Len(l)
<1>1. Rest(l) \in Seq(Char) /\ Len(Rest(l)) = Len(l) - 1 /\ Len(l) \in Nat \ {0}
  BY RestIs
<1>2. 2 * KEYMAP_ARGS + 2 \in Nat \ {0} /\ 2 * KEYMAP_ARGS + 2 > 1
  BY CommandNumbers
<1>3. From(l, 2 * KEYMAP_ARGS + 2) \in Seq(Char)
      /\ Len(From(l, 2 * KEYMAP_ARGS + 2)) < Len(l)
  BY <1>1, <1>2, FromIs
<1> QED BY <1>1, <1>3

LEMMA DoesLocal ==
  ASSUME NEW l \in Seq(Char), NEW f, NEW g,
         \A r \in Seq(Char) : Len(r) < Len(l) => f[r] = g[r]
  PROVE  Does(l, f) = Does(l, g)
<1>1. CASE l = <<>>
  <2>1. Does(l, f) = <<>> /\ Does(l, g) = <<>>
    BY <1>1, DoesCases
  <2> QED BY <2>1
<1>2. CASE l # <<>>
  <2> DEFINE c == First(l)
  <2>1. f[Rest(l)] = g[Rest(l)]
    BY <1>2, ShorterLine
  <2>2. f[From(l, 2 * KEYMAP_ARGS + 2)] = g[From(l, 2 * KEYMAP_ARGS + 2)]
    BY <1>2, ShorterLine
  <2>3. CASE c \in Simple
    BY <1>2, <2>1, <2>3, DoesCases
  <2>4. CASE c = CMD_KEYMAP_SET
    BY <1>2, <2>2, <2>4, DoesCases
  <2>5. CASE c = CMD_MACRO_SET /\ Lines!HasEol(l)
    BY <1>2, <2>5, DoesCases
  <2>6. CASE \/ c = CMD_MACRO_SET /\ ~Lines!HasEol(l)
             \/ c \notin Simple \cup {CMD_KEYMAP_SET, CMD_MACRO_SET}
    <3>1. Does(l, f) = <<>> /\ Does(l, g) = <<>>
      BY <1>2, <2>6, DoesCases
    <3> QED BY <3>1
  <2> QED BY <2>3, <2>4, <2>5, <2>6
<1> QED BY <1>1, <1>2

\* A digit of a line is one of the ring.
LEMMA ValueIs ==
  ASSUME NEW l \in Seq(Char), NEW i \in Nat \ {0}
  PROVE  Lines!Value(l, i) = hex_digit(l, i) /\ Lines!Pair(l, i) = read_hex_8(l, i)
BY DEF Lines!Value, Lines!Pair, hex_digit, read_hex_8

LEMMA LineArguments ==
  ASSUME NEW l \in Seq(Char), l # <<>>
  PROVE  Lines!KeymapSet(l) \in Executable /\ Lines!MacroSet(l) \in Executable
<1>1. ASSUME NEW i \in Nat \ {0} PROVE Lines!Pair(l, i) \in Nat
  BY ValueIs, HexIs
<1>2. PICK a \in [1..KEYMAP_ARGS -> Nat] :
        a = [i \in 1..KEYMAP_ARGS |-> Lines!Pair(l, 2 * i)]
  <2>1. ASSUME NEW i \in 1..KEYMAP_ARGS PROVE Lines!Pair(l, 2 * i) \in Nat
    <3>1. 2 * i \in Nat \ {0}
      BY CommandNumbers
    <3> QED BY <1>1, <3>1
  <2> QED BY <2>1
<1>3. Lines!KeymapSet(l) = <<CMD_KEYMAP_SET, a>>
  BY <1>2 DEF Lines!KeymapSet
<1>4. PICK n \in Nat, p \in Seq(Char) :
        n = Lines!Pair(l, 2) /\ p = SubSeq(l, 4, Len(l) - 1)
  <2>1. Len(l) \in Nat \ {0} /\ \A j \in 1..Len(l) : l[j] \in Char
    BY RestIs
  <2>2. Len(l) - 1 \in Int /\ \A j \in 4..(Len(l) - 1) : l[j] \in Char
    BY <2>1
  <2>3. SubSeq(l, 4, Len(l) - 1) \in Seq(Char)
    BY <2>2, SubSeqProperties
  <2>4. Lines!Pair(l, 2) \in Nat
    BY <1>1
  <2> QED BY <2>3, <2>4, Zenon
<1>5. Lines!MacroSet(l) = <<CMD_MACRO_SET, n, p>>
  BY <1>4 DEF Lines!MacroSet
<1> QED BY <1>3, <1>5 DEF Executable

LEMMA DoesType ==
  ASSUME NEW l \in Seq(Char), NEW f \in [Seq(Char) -> Seq(Executable)]
  PROVE  Does(l, f) \in Seq(Executable)
<1>0. <<>> \in Seq(Executable)
  OBVIOUS
<1>1. CASE Does(l, f) = <<>>
  BY <1>0, <1>1
<1>2. CASE l # <<>>
  <2> DEFINE c == First(l)
  <2>1. \A x \in Executable, t \in Seq(Executable) :
          <<x>> \o t \in Seq(Executable) /\ <<x>> \in Seq(Executable)
    OBVIOUS
  <2>2. /\ f[Rest(l)] \in Seq(Executable)
        /\ f[From(l, 2 * KEYMAP_ARGS + 2)] \in Seq(Executable)
    BY <1>2, ShorterLine
  <2>3. CASE c \in Simple
    <3>1. <<c>> \in Executable
      BY <2>3 DEF Executable
    <3>2. PICK x \in Executable : x = <<c>>
      BY <3>1
    <3>3. Does(l, f) = <<x>> \o f[Rest(l)]
      BY <1>2, <2>3, <3>2, DoesCases
    <3> QED BY <2>1, <2>2, <3>3
  <2>4. CASE c = CMD_KEYMAP_SET
    <3>1. Lines!KeymapSet(l) \in Executable
      BY <1>2, LineArguments
    <3>2. Does(l, f) = <<Lines!KeymapSet(l)>> \o f[From(l, 2 * KEYMAP_ARGS + 2)]
      BY <1>2, <2>4, DoesCases
    <3> QED BY <2>1, <2>2, <3>1, <3>2
  <2>5. CASE c = CMD_MACRO_SET /\ Lines!HasEol(l)
    <3>1. Does(l, f) = <<Lines!MacroSet(l)>> /\ Lines!MacroSet(l) \in Executable
      BY <1>2, <2>5, DoesCases, LineArguments
    <3> QED BY <1>0, <2>1, <3>1
  <2>6. c = CMD_MACRO_SET /\ ~Lines!HasEol(l) => Does(l, f) = <<>>
    BY <1>2, DoesCases
  <2>7. c \notin Simple \cup {CMD_KEYMAP_SET, CMD_MACRO_SET} => Does(l, f) = <<>>
    BY <1>2, DoesCases
  <2> QED BY <1>1, <2>3, <2>4, <2>5, <2>6, <2>7
<1>3. l = <<>> => Does(l, f) = <<>>
  BY DoesCases
<1> QED BY <1>1, <1>2, <1>3

LEMMA CommandsAre ==
  /\ Lines!Commands \in [Seq(Char) -> Seq(Executable)]
  /\ \A l \in Seq(Char) : Lines!Commands[l] = Does(l, Lines!Commands)
<1> DEFINE D == Seq(Char)
           X == Seq(Executable)
           C == Lines!Commands
           rank == [s \in D |-> Len(s)]
           H == [l \in D |-> [f \in [D -> X] |-> Does(l, f)]]
           Def(f) == f = [l \in D |-> Does(l, f)]
<1>1. rank \in [D -> Nat]
  BY Ranks
<1>2. \A l \in D, f \in [D -> X] : H[l][f] = Does(l, f)
  OBVIOUS
<1>3. PICK g \in [D -> X] : \A l \in D : g[l] = Does(l, g)
  <2>1. X # {}
    <3>1. <<>> \in Seq(Executable)
      OBVIOUS
    <3> QED BY <3>1
  <2>2. \A l \in D, f \in [D -> X] : H[l][f] \in X
    BY <1>2, DoesType
  <2>3. ASSUME NEW l \in D, NEW f \in [D -> X], NEW h \in [D -> X],
               \A r \in D : rank[r] < rank[l] => f[r] = h[r]
        PROVE  H[l][f] = H[l][h]
    <3>1. \A r \in D : Len(r) < Len(l) => f[r] = h[r]
      BY <2>3
    <3>2. Does(l, f) = Does(l, h)
      BY <3>1, DoesLocal
    <3> QED BY <1>2, <3>2
  <2>4. \E f \in [D -> X] : \A l \in D : f[l] = H[l][f]
    <3> HIDE DEF H, rank, D, X
    <3>1. Recursive(D, X, rank, H)
      BY <1>1, <2>1, <2>2, <2>3 DEF Recursive
    <3> QED BY <3>1, RecursionExists
  <2>5. PICK f \in [D -> X] : \A l \in D : f[l] = H[l][f]
    BY <2>4
  <2>6. \A l \in D : f[l] = Does(l, f)
    BY <1>2, <2>5
  <2> QED BY <2>6
<1>4. Def(g)
  BY <1>3
<1>5. C = CHOOSE f : Def(f)
  BY DEF Lines!Commands, Does
<1>6. Def(C)
  <2> HIDE DEF Def
  <2> QED BY <1>4, <1>5
<1>7. \A l \in D : C[l] = g[l]
  <2> DEFINE S == {l \in D : C[l] = g[l]}
  <2>1. ASSUME NEW l \in D, \A r \in D : rank[r] < rank[l] => r \in S
        PROVE  l \in S
    <3>1. \A r \in D : Len(r) < Len(l) => C[r] = g[r]
      BY <2>1
    <3>2. Does(l, C) = Does(l, g)
      BY <3>1, DoesLocal
    <3> QED BY <1>3, <1>6, <3>2
  <2>2. \A l \in D : l \in S
    <3> HIDE DEF rank, D, S
    <3> QED BY <1>1, <2>1, RankInduction
  <2> QED BY <2>2
<1>8. C \in [D -> X]
  BY <1>3, <1>6, <1>7
<1> QED BY <1>6, <1>8

\* Whether a line breaks off, f being whether what follows its first command does.
Fits(l, f) ==
  \/ l = <<>>
  \/ Head(l) \in Simple /\ f[Tail(l)]
  \/ /\ Head(l) = CMD_KEYMAP_SET
     /\ Len(l) > 2 * KEYMAP_ARGS + 1 /\ f[Lines!From(l, 2 * KEYMAP_ARGS + 2)]
  \/ Head(l) = CMD_MACRO_SET /\ Len(l) > 4
  \/ Head(l) \notin Simple \cup {CMD_KEYMAP_SET, CMD_MACRO_SET}

LEMMA FitsCases ==
  ASSUME NEW l, NEW f, l # <<>>
  PROVE  /\ Fits(l, f) \in BOOLEAN
         /\ First(l) \in Simple => (Fits(l, f) <=> f[Rest(l)])
         /\ First(l) = CMD_KEYMAP_SET =>
              (Fits(l, f) <=> /\ Len(l) > 2 * KEYMAP_ARGS + 1
                              /\ f[From(l, 2 * KEYMAP_ARGS + 2)])
         /\ First(l) = CMD_MACRO_SET => (Fits(l, f) <=> Len(l) > 4)
         /\ First(l) \notin Simple \cup {CMD_KEYMAP_SET, CMD_MACRO_SET} => Fits(l, f)
<1> DEFINE a == f[Tail(l)]
           b == f[Lines!From(l, 2 * KEYMAP_ARGS + 2)]
           m == Len(l) > 2 * KEYMAP_ARGS + 1
           n == Len(l) > 4
           c == Head(l)
<1>1. CMD_KEYMAP_SET \notin Simple /\ CMD_MACRO_SET \notin Simple
      /\ CMD_KEYMAP_SET # CMD_MACRO_SET
  BY CommandAssumption
<1>2. Fits(l, f) = (\/ c \in Simple /\ a
                    \/ c = CMD_KEYMAP_SET /\ m /\ b
                    \/ c = CMD_MACRO_SET /\ n
                    \/ c \notin Simple \cup {CMD_KEYMAP_SET, CMD_MACRO_SET})
  BY DEF Fits
<1>3. f[Rest(l)] = a /\ f[From(l, 2 * KEYMAP_ARGS + 2)] = b /\ First(l) = c
  BY DEF Rest, From, Lines!From, First
<1> HIDE DEF a, b, m, n, c
<1>4. /\ Fits(l, f) \in BOOLEAN
      /\ c \in Simple => (Fits(l, f) <=> a)
      /\ c = CMD_KEYMAP_SET => (Fits(l, f) <=> m /\ b)
      /\ c = CMD_MACRO_SET => (Fits(l, f) <=> n)
      /\ c \notin Simple \cup {CMD_KEYMAP_SET, CMD_MACRO_SET} => Fits(l, f)
  BY <1>1, <1>2
<1> QED BY <1>3, <1>4 DEF m, n

LEMMA FitsLocal ==
  ASSUME NEW l \in Seq(Char), NEW f, NEW g,
         \A r \in Seq(Char) : Len(r) < Len(l) => f[r] = g[r]
  PROVE  Fits(l, f) = Fits(l, g)
<1>1. CASE l = <<>>
  BY <1>1 DEF Fits
<1>2. CASE l # <<>>
  <2> DEFINE c == First(l)
  <2>1. f[Rest(l)] = g[Rest(l)]
    BY <1>2, ShorterLine
  <2>2. f[From(l, 2 * KEYMAP_ARGS + 2)] = g[From(l, 2 * KEYMAP_ARGS + 2)]
    BY <1>2, ShorterLine
  <2>3. Fits(l, f) \in BOOLEAN /\ Fits(l, g) \in BOOLEAN
    BY <1>2, FitsCases
  <2>4. CASE c \in Simple
    <3>1. (Fits(l, f) <=> f[Rest(l)]) /\ (Fits(l, g) <=> g[Rest(l)])
      BY <1>2, <2>4, FitsCases
    <3> QED BY <2>1, <2>3, <3>1
  <2>5. CASE c = CMD_KEYMAP_SET
    <3>1. /\ Fits(l, f) <=> /\ Len(l) > 2 * KEYMAP_ARGS + 1
                            /\ f[From(l, 2 * KEYMAP_ARGS + 2)]
          /\ Fits(l, g) <=> /\ Len(l) > 2 * KEYMAP_ARGS + 1
                            /\ g[From(l, 2 * KEYMAP_ARGS + 2)]
      BY <1>2, <2>5, FitsCases
    <3> QED BY <2>2, <2>3, <3>1
  <2>6. CASE c = CMD_MACRO_SET
    <3>1. (Fits(l, f) <=> Len(l) > 4) /\ (Fits(l, g) <=> Len(l) > 4)
      BY <1>2, <2>6, FitsCases
    <3> QED BY <2>3, <3>1
  <2>7. CASE c \notin Simple \cup {CMD_KEYMAP_SET, CMD_MACRO_SET}
    BY <1>2, <2>3, <2>7, FitsCases
  <2> QED BY <2>4, <2>5, <2>6, <2>7
<1> QED BY <1>1, <1>2

LEMMA WellFormedIs ==
  \A l \in Seq(Char) : Lines!WellFormed[l] = Fits(l, Lines!WellFormed)
<1> DEFINE D == Seq(Char)
           C == Lines!WellFormed
           rank == [s \in D |-> Len(s)]
           H == [l \in D |-> [f \in [D -> BOOLEAN] |-> Fits(l, f)]]
           Def(f) == f = [l \in D |-> Fits(l, f)]
<1>1. rank \in [D -> Nat]
  BY Ranks
<1>2. \A l \in D, f \in [D -> BOOLEAN] : H[l][f] = Fits(l, f)
  OBVIOUS
<1>3. PICK g \in [D -> BOOLEAN] : \A l \in D : g[l] = Fits(l, g)
  <2>2. \A l \in D, f \in [D -> BOOLEAN] : H[l][f] \in BOOLEAN
    BY <1>2 DEF Fits
  <2>3. ASSUME NEW l \in D, NEW f \in [D -> BOOLEAN], NEW h \in [D -> BOOLEAN],
               \A r \in D : rank[r] < rank[l] => f[r] = h[r]
        PROVE  H[l][f] = H[l][h]
    <3>1. \A r \in D : Len(r) < Len(l) => f[r] = h[r]
      BY <2>3
    <3>2. Fits(l, f) = Fits(l, h)
      BY <3>1, FitsLocal
    <3> QED BY <1>2, <3>2
  <2>4. \E f \in [D -> BOOLEAN] : \A l \in D : f[l] = H[l][f]
    <3> HIDE DEF H, rank, D
    <3>1. Recursive(D, BOOLEAN, rank, H)
      BY <1>1, <2>2, <2>3 DEF Recursive
    <3> QED BY <3>1, RecursionExists
  <2>5. PICK f \in [D -> BOOLEAN] : \A l \in D : f[l] = H[l][f]
    BY <2>4
  <2>6. \A l \in D : f[l] = Fits(l, f)
    BY <1>2, <2>5
  <2> QED BY <2>6
<1>4. Def(g)
  BY <1>3
<1>5. C = CHOOSE f : Def(f)
  BY DEF Lines!WellFormed, Fits
<1>6. Def(C)
  <2> HIDE DEF Def
  <2> QED BY <1>4, <1>5
<1> QED BY <1>6

\* The promise of bytes, f being that of what follows their first line.
Says(s, f) ==
  IF ~Lines!HasEol(s) THEN [first |-> Lines!Commands[s], spoiled |-> FALSE]
  ELSE LET end  == Lines!Min({i \in 1..Len(s) : s[i] \in Eol})
           l    == SubSeq(s, 1, end)
           rest == f[Lines!From(s, end + 1)]
       IN  IF Lines!WellFormed[l]
             THEN [first |-> Lines!Commands[l] \o rest.first, spoiled |-> rest.spoiled]
             ELSE [first |-> <<>>, spoiled |-> TRUE]

\* The first line of bytes that have an end of line, and what follows it.
End(s)     == Min(Eols(s, 1))
LineOf(s)  == SubSeq(s, 1, End(s))
AfterIt(s) == From(s, End(s) + 1)

LEMMA HasEolIs == \A s : Lines!HasEol(s) <=> Eols(s, 1) # {}
BY DEF Lines!HasEol, Eols

LEMMA SaysCases ==
  ASSUME NEW s, NEW f
  PROVE  /\ Eols(s, 1) = {} => Says(s, f) = [first |-> Lines!Commands[s], spoiled |-> FALSE]
         /\ Eols(s, 1) # {} /\ Lines!WellFormed[LineOf(s)] =>
              Says(s, f) = [first   |-> Lines!Commands[LineOf(s)] \o f[AfterIt(s)].first,
                            spoiled |-> f[AfterIt(s)].spoiled]
         /\ Eols(s, 1) # {} /\ ~Lines!WellFormed[LineOf(s)] =>
              Says(s, f) = [first |-> <<>>, spoiled |-> TRUE]
<1>1. Lines!Min({i \in 1..Len(s) : s[i] \in Eol}) = End(s)
  BY DEF End, Eols, Min, Lines!Min
<1> DEFINE e == End(s)
<1>2. Says(s, f) =
        IF ~Lines!HasEol(s) THEN [first |-> Lines!Commands[s], spoiled |-> FALSE]
        ELSE IF Lines!WellFormed[SubSeq(s, 1, e)]
               THEN [first   |-> Lines!Commands[SubSeq(s, 1, e)] \o f[From(s, e + 1)].first,
                     spoiled |-> f[From(s, e + 1)].spoiled]
               ELSE [first |-> <<>>, spoiled |-> TRUE]
  BY <1>1 DEF Says, From, Lines!From
<1> QED BY <1>2, HasEolIs DEF LineOf, AfterIt

LEMMA FirstLine ==
  ASSUME NEW s \in Seq(Char), Eols(s, 1) # {}
  PROVE  /\ End(s) \in 1..Len(s) /\ s[End(s)] \in Eol
         /\ \A j \in 1..Len(s) : j < End(s) => s[j] \notin Eol
         /\ LineOf(s) \in Seq(Char) /\ Len(LineOf(s)) = End(s)
         /\ \A j \in 1..End(s) : LineOf(s)[j] = s[j]
         /\ AfterIt(s) \in Seq(Char) /\ Len(AfterIt(s)) < Len(s)
<1>1. /\ End(s) \in 1..Len(s) /\ Len(s) \in Nat /\ End(s) \in Eols(s, 1)
      /\ \A j \in Eols(s, 1) : End(s) <= j
  BY EolsAre DEF End
<1>2. s[End(s)] \in Eol /\ \A j \in 1..Len(s) : j < End(s) => s[j] \notin Eol
  BY <1>1 DEF Eols
<1>3. \A j \in 1..End(s) : s[j] \in Char
  BY <1>1
<1>4. /\ LineOf(s) \in Seq(Char) /\ Len(LineOf(s)) = End(s)
      /\ \A j \in 1..End(s) : LineOf(s)[j] = s[j]
  <2>1. PICK e \in Nat : e = End(s) /\ e >= 1 /\ \A j \in 1..e : s[j] \in Char
    BY <1>1, <1>3
  <2>2. /\ SubSeq(s, 1, e) \in Seq(Char) /\ Len(SubSeq(s, 1, e)) = e
        /\ \A j \in 1..e : SubSeq(s, 1, e)[j] = s[j]
    <3>1. /\ SubSeq(s, 1, e) \in Seq(Char)
          /\ Len(SubSeq(s, 1, e)) = IF 1 <= e THEN e - 1 + 1 ELSE 0
          /\ \A j \in 1..(e - 1 + 1) : SubSeq(s, 1, e)[j] = s[1 + j - 1]
      BY <2>1, SubSeqProperties
    <3> QED BY <2>1, <3>1
  <2> QED BY <2>1, <2>2 DEF LineOf
<1>5. AfterIt(s) \in Seq(Char) /\ Len(AfterIt(s)) < Len(s)
  <2>1. PICK e \in 1..Len(s) : e = End(s)
    BY <1>1
  <2>2. e + 1 \in Nat \ {0}
    BY <2>1
  <2>3. /\ From(s, e + 1) \in Seq(Char)
        /\ Len(From(s, e + 1)) = IF e + 1 <= Len(s) THEN Len(s) - (e + 1) + 1 ELSE 0
    BY <2>2, FromIs
  <2>4. Len(From(s, e + 1)) < Len(s)
    BY <1>1, <2>1, <2>3
  <2> QED BY <2>1, <2>3, <2>4 DEF AfterIt
<1> QED BY <1>1, <1>2, <1>4, <1>5

Promised == [first : Seq(Executable), spoiled : BOOLEAN]

LEMMA SaysLocal ==
  ASSUME NEW s \in Seq(Char), NEW f, NEW g,
         \A r \in Seq(Char) : Len(r) < Len(s) => f[r] = g[r]
  PROVE  Says(s, f) = Says(s, g)
<1>1. CASE Eols(s, 1) = {}
  <2>1. Says(s, f) = [first |-> Lines!Commands[s], spoiled |-> FALSE]
    BY <1>1, SaysCases
  <2>2. Says(s, g) = [first |-> Lines!Commands[s], spoiled |-> FALSE]
    BY <1>1, SaysCases
  <2> QED BY <2>1, <2>2, Zenon
<1>2. CASE Eols(s, 1) # {} /\ Lines!WellFormed[LineOf(s)]
  <2>1. f[AfterIt(s)] = g[AfterIt(s)]
    BY <1>2, FirstLine
  <2>2. Says(s, f) = [first   |-> Lines!Commands[LineOf(s)] \o f[AfterIt(s)].first,
                      spoiled |-> f[AfterIt(s)].spoiled]
    BY <1>2, SaysCases
  <2>3. Says(s, g) = [first   |-> Lines!Commands[LineOf(s)] \o g[AfterIt(s)].first,
                      spoiled |-> g[AfterIt(s)].spoiled]
    BY <1>2, SaysCases
  <2> QED BY <2>1, <2>2, <2>3, Zenon
<1>3. CASE Eols(s, 1) # {} /\ ~Lines!WellFormed[LineOf(s)]
  <2>1. Says(s, f) = [first |-> <<>>, spoiled |-> TRUE]
    BY <1>3, SaysCases
  <2>2. Says(s, g) = [first |-> <<>>, spoiled |-> TRUE]
    BY <1>3, SaysCases
  <2> QED BY <2>1, <2>2, Zenon
<1> QED BY <1>1, <1>2, <1>3

LEMMA SaysType ==
  ASSUME NEW s \in Seq(Char), NEW f \in [Seq(Char) -> Promised]
  PROVE  Says(s, f) \in Promised
<1>1. CASE Eols(s, 1) = {}
  <2>1. Lines!Commands[s] \in Seq(Executable)
    BY CommandsAre
  <2>2. Says(s, f) = [first |-> Lines!Commands[s], spoiled |-> FALSE]
    BY <1>1, SaysCases
  <2> QED BY <2>1, <2>2 DEF Promised
<1>2. CASE Eols(s, 1) # {} /\ Lines!WellFormed[LineOf(s)]
  <2>1. f[AfterIt(s)] \in Promised
    BY <1>2, FirstLine
  <2>2. Lines!Commands[LineOf(s)] \in Seq(Executable)
    BY <1>2, FirstLine, CommandsAre
  <2>3. PICK a \in Seq(Executable), b \in Seq(Executable), t \in BOOLEAN :
          a = Lines!Commands[LineOf(s)] /\ b = f[AfterIt(s)].first
          /\ t = f[AfterIt(s)].spoiled
    BY <2>1, <2>2 DEF Promised
  <2>4. Says(s, f) = [first |-> a \o b, spoiled |-> t]
    BY <1>2, <2>3, SaysCases
  <2>5. a \o b \in Seq(Executable)
    OBVIOUS
  <2> QED BY <2>4, <2>5 DEF Promised
<1>3. CASE Eols(s, 1) # {} /\ ~Lines!WellFormed[LineOf(s)]
  <2>1. Says(s, f) = [first |-> <<>>, spoiled |-> TRUE]
    BY <1>3, SaysCases
  <2>2. <<>> \in Seq(Executable)
    OBVIOUS
  <2> QED BY <2>1, <2>2 DEF Promised
<1> QED BY <1>1, <1>2, <1>3

LEMMA PromiseIs ==
  /\ Lines!Promise \in [Seq(Char) -> Promised]
  /\ \A s \in Seq(Char) : Lines!Promise[s] = Says(s, Lines!Promise)
<1> DEFINE D == Seq(Char)
           X == Promised
           C == Lines!Promise
           rank == [s \in D |-> Len(s)]
           H == [s \in D |-> [f \in [D -> X] |-> Says(s, f)]]
           Def(f) == f = [s \in D |-> Says(s, f)]
<1>1. rank \in [D -> Nat]
  BY Ranks
<1>2. \A s \in D, f \in [D -> X] : H[s][f] = Says(s, f)
  OBVIOUS
<1>3. PICK g \in [D -> X] : \A s \in D : g[s] = Says(s, g)
  <2>1. X # {}
    <3>1. <<>> \in Seq(Executable)
      OBVIOUS
    <3>2. [first |-> <<>>, spoiled |-> TRUE] \in Promised
      BY <3>1 DEF Promised
    <3> QED BY <3>2
  <2>2. \A s \in D, f \in [D -> X] : H[s][f] \in X
    BY <1>2, SaysType
  <2>3. ASSUME NEW s \in D, NEW f \in [D -> X], NEW h \in [D -> X],
               \A r \in D : rank[r] < rank[s] => f[r] = h[r]
        PROVE  H[s][f] = H[s][h]
    <3>1. \A r \in D : Len(r) < Len(s) => f[r] = h[r]
      BY <2>3
    <3>2. Says(s, f) = Says(s, h)
      BY <3>1, SaysLocal
    <3> QED BY <1>2, <3>2
  <2>4. \E f \in [D -> X] : \A s \in D : f[s] = H[s][f]
    <3> HIDE DEF H, rank, D, X
    <3>1. Recursive(D, X, rank, H)
      BY <1>1, <2>1, <2>2, <2>3 DEF Recursive
    <3> QED BY <3>1, RecursionExists
  <2>5. PICK f \in [D -> X] : \A s \in D : f[s] = H[s][f]
    BY <2>4
  <2>6. \A s \in D : f[s] = Says(s, f)
    BY <1>2, <2>5
  <2> QED BY <2>6
<1>4. Def(g)
  BY <1>3
<1>5. C = CHOOSE f : Def(f)
  BY DEF Lines!Promise, Says
<1>6. Def(C)
  <2> HIDE DEF Def
  <2> QED BY <1>4, <1>5
<1>7. \A s \in D : C[s] = g[s]
  <2> DEFINE S == {s \in D : C[s] = g[s]}
  <2>1. ASSUME NEW s \in D, \A r \in D : rank[r] < rank[s] => r \in S
        PROVE  s \in S
    <3>1. \A r \in D : Len(r) < Len(s) => C[r] = g[r]
      BY <2>1
    <3>2. Says(s, C) = Says(s, g)
      BY <3>1, SaysLocal
    <3> QED BY <1>3, <1>6, <3>2
  <2>2. \A s \in D : s \in S
    <3> HIDE DEF rank, D, S
    <3> QED BY <1>1, <2>1, RankInduction
  <2> QED BY <2>2
<1>8. C \in [D -> X]
  BY <1>3, <1>6, <1>7
<1> QED BY <1>6, <1>8

-----------------------------------------------------------------------------
(* Command: what is executed is what the lines say.                         *)

\* What follows the first bytes of the first line ends where that line does.
LEMMA Suffix ==
  ASSUME NEW s \in Seq(Char), Eols(s, 1) # {}, NEW k \in 1..End(s)
  PROVE  /\ From(s, k) \in Seq(Char) /\ Eols(From(s, k), 1) # {}
         /\ End(From(s, k)) = End(s) - k + 1
         /\ LineOf(From(s, k)) = From(LineOf(s), k)
         /\ AfterIt(From(s, k)) = AfterIt(s)
<1> DEFINE t == From(s, k)
           l == LineOf(s)
           e == End(s)
<1>1. /\ e \in 1..Len(s) /\ Len(s) \in Nat /\ s[e] \in Eol
      /\ \A j \in 1..Len(s) : j < e => s[j] \notin Eol
      /\ l \in Seq(Char) /\ Len(l) = e /\ \A j \in 1..e : l[j] = s[j]
  BY FirstLine
<1> HIDE DEF l, e
<1>2. k \in Nat \ {0} /\ k <= e /\ k <= Len(s)
  BY <1>1 DEF e
<1>3. /\ t \in Seq(Char) /\ Len(t) = Len(s) - k + 1
      /\ \A j \in 1..Len(t) : t[j] = s[k + j - 1]
  BY <1>1, <1>2, FromIs
<1> HIDE DEF t
<1>4. e - k + 1 \in Eols(t, 1)
  <2>1. e - k + 1 \in 1..Len(t) /\ k + (e - k + 1) - 1 = e
    BY <1>1, <1>2, <1>3
  <2>2. t[e - k + 1] \in Eol
    BY <1>1, <1>3, <2>1
  <2> QED BY <2>1, <2>2 DEF Eols
<1>5. ASSUME NEW j \in Eols(t, 1) PROVE e - k + 1 <= j
  <2>1. j \in 1..Len(t) /\ t[j] \in Eol
    BY DEF Eols
  <2>2. k + j - 1 \in 1..Len(s) /\ s[k + j - 1] \in Eol
    BY <1>1, <1>2, <1>3, <2>1
  <2>3. ~(k + j - 1 < e)
    BY <1>1, <2>2
  <2> QED BY <1>1, <1>2, <2>1, <2>3
<1>6. End(t) = e - k + 1
  <2>1. Eols(t, 1) \in SUBSET Nat
    BY <1>3, EolsAre
  <2> QED BY <1>4, <1>5, <2>1, MinIsIt DEF End
<1>7. LineOf(t) = From(l, k)
  <2>1. /\ LineOf(t) \in Seq(Char) /\ Len(LineOf(t)) = e - k + 1
        /\ \A j \in 1..(e - k + 1) : LineOf(t)[j] = t[j]
    BY <1>3, <1>4, <1>6, FirstLine
  <2>2. /\ From(l, k) \in Seq(Char) /\ Len(From(l, k)) = e - k + 1
        /\ \A j \in 1..Len(From(l, k)) : From(l, k)[j] = l[k + j - 1]
    BY <1>1, <1>2, FromIs
  <2>3. ASSUME NEW j \in 1..(e - k + 1) PROVE LineOf(t)[j] = From(l, k)[j]
    <3>1. j \in 1..Len(t) /\ k + j - 1 \in 1..e
      BY <1>1, <1>2, <1>3
    <3> QED BY <1>1, <1>3, <2>1, <2>2, <3>1
  <2> QED BY <2>1, <2>2, <2>3, SeqEqual
<1>8. AfterIt(t) = AfterIt(s)
  <2>1. e - k + 2 \in Nat \ {0} /\ e - k + 1 + 1 = e - k + 2
        /\ k + (e - k + 2) - 1 = e + 1
    BY <1>1, <1>2
  <2>2. AfterIt(t) = From(From(s, k), e - k + 2)
    BY <1>6, <2>1 DEF AfterIt, t
  <2>3. From(From(s, k), e - k + 2) = From(s, e + 1)
    BY <1>2, <2>1, FromFrom
  <2> QED BY <2>2, <2>3 DEF AfterIt, e
<1> QED BY <1>3, <1>4, <1>6, <1>7, <1>8 DEF t, l, e

LEMMA ProcessedCases ==
  ASSUME NEW s \in Seq(Char)
  PROVE  /\ s = <<>> => command_process[s] = <<>>
         /\ s # <<>> =>
              /\ First(s) \in Simple =>
                   command_process[s] = <<<<First(s)>>>> \o command_process[Rest(s)]
              /\ First(s) = CMD_KEYMAP_SET =>
                   command_process[s]
                     = <<command_set_keymap(Rest(s))>>
                         \o command_process[From(Rest(s), 2 * KEYMAP_ARGS + 1)]
              /\ First(s) = CMD_MACRO_SET /\ PhraseEnds(Rest(s)) = {} =>
                   command_process[s] = <<>>
              /\ First(s) = CMD_MACRO_SET /\ PhraseEnds(Rest(s)) # {} =>
                   command_process[s]
                     = <<command_set_macro(Rest(s))>>
                         \o command_process[From(Rest(s), Min(PhraseEnds(Rest(s))) + 1)]
              /\ First(s) \in Eol => command_process[s] = command_process[Rest(s)]
              /\ First(s) \notin Simple \cup Eol \cup {CMD_KEYMAP_SET, CMD_MACRO_SET} =>
                   command_process[s] = command_process[ring_skip_line(Rest(s))]
<1>1. command_process[s] = Process(s, command_process)
  BY ProcessIs
<1>2. s = <<>> => Process(s, command_process) = <<>>
  BY DEF Process
<1> QED BY <1>1, <1>2, ProcessCases

LEMMA LineCases ==
  ASSUME NEW l \in Seq(Char)
  PROVE  /\ l = <<>> => Lines!Commands[l] = <<>>
         /\ l # <<>> =>
              /\ First(l) \in Simple =>
                   Lines!Commands[l] = <<<<First(l)>>>> \o Lines!Commands[Rest(l)]
              /\ First(l) = CMD_KEYMAP_SET =>
                   Lines!Commands[l]
                     = <<Lines!KeymapSet(l)>>
                         \o Lines!Commands[From(l, 2 * KEYMAP_ARGS + 2)]
              /\ First(l) = CMD_MACRO_SET /\ Eols(l, 1) # {} =>
                   Lines!Commands[l] = <<Lines!MacroSet(l)>>
              /\ First(l) = CMD_MACRO_SET /\ Eols(l, 1) = {} =>
                   Lines!Commands[l] = <<>>
              /\ First(l) \notin Simple \cup {CMD_KEYMAP_SET, CMD_MACRO_SET} =>
                   Lines!Commands[l] = <<>>
<1>1. Lines!Commands[l] = Does(l, Lines!Commands)
  BY CommandsAre
<1> QED BY <1>1, DoesCases, HasEolIs

\* A line that has the arguments of a keymap command has those that are read.
LEMMA SameKey ==
  ASSUME NEW s \in Seq(Char), s # <<>>, NEW l \in Seq(Char),
         \/ l = s
         \/ /\ Len(l) > 2 * KEYMAP_ARGS /\ Len(l) <= Len(s)
            /\ \A j \in 1..Len(l) : l[j] = s[j]
  PROVE  Lines!KeymapSet(l) = command_set_keymap(Rest(s))
<1>1. /\ Len(s) \in Nat \ {0} /\ Rest(s) \in Seq(Char) /\ Len(Rest(s)) = Len(s) - 1
      /\ \A j \in 1..(Len(s) - 1) : Rest(s)[j] = s[j + 1]
  BY RestIs
<1>2. ASSUME NEW j \in 1..(2 * KEYMAP_ARGS)
      PROVE  Lines!Value(l, j + 1) = hex_digit(Rest(s), j)
  <2>1. j + 1 \in Nat /\ j \in Nat \ {0} /\ j + 1 <= 2 * KEYMAP_ARGS + 1
    BY CommandNumbers
  <2>2. Lines!Value(l, j + 1) = Lines!Value(s, j + 1)
    <3>1. CASE l = s
      BY <3>1
    <3>2. CASE l # s
      <4>1. j + 1 \in 1..Len(l) /\ ~(j + 1 > Len(l)) /\ ~(j + 1 > Len(s))
        BY <1>1, <2>1, <3>2, CommandNumbers
      <4>2. l[j + 1] = s[j + 1]
        BY <3>2, <4>1
      <4> QED BY <4>1, <4>2 DEF Lines!Value
    <3> QED BY <3>1, <3>2
  <2>3. CASE j > Len(Rest(s))
    <3>1. j + 1 > Len(s)
      BY <1>1, <2>1, <2>3
    <3> QED BY <2>2, <2>3, <3>1 DEF Lines!Value, hex_digit
  <2>4. CASE ~(j > Len(Rest(s)))
    <3>1. ~(j + 1 > Len(s)) /\ j \in 1..(Len(s) - 1)
      BY <1>1, <2>1, <2>4
    <3>2. Rest(s)[j] = s[j + 1]
      BY <1>1, <3>1
    <3> QED BY <2>2, <2>4, <3>1, <3>2 DEF Lines!Value, hex_digit
  <2> QED BY <2>3, <2>4
<1>3. ASSUME NEW n \in 1..KEYMAP_ARGS
      PROVE  Lines!Pair(l, 2 * n) = read_hex_8(Rest(s), 2 * n - 1)
  <2>1. /\ 2 * n - 1 \in 1..(2 * KEYMAP_ARGS) /\ 2 * n \in 1..(2 * KEYMAP_ARGS)
        /\ (2 * n - 1) + 1 = 2 * n
    BY CommandNumbers
  <2>2. /\ Lines!Value(l, 2 * n) = hex_digit(Rest(s), 2 * n - 1)
        /\ Lines!Value(l, 2 * n + 1) = hex_digit(Rest(s), 2 * n)
    <3>1. Lines!Value(l, (2 * n - 1) + 1) = hex_digit(Rest(s), 2 * n - 1)
      BY <1>2, <2>1
    <3>2. Lines!Value(l, 2 * n + 1) = hex_digit(Rest(s), 2 * n)
      BY <1>2, <2>1
    <3> QED BY <2>1, <3>1, <3>2
  <2> QED BY <2>1, <2>2 DEF Lines!Pair, read_hex_8
<1>4. [i \in 1..KEYMAP_ARGS |-> Lines!Pair(l, 2 * i)]
        = [n \in 1..KEYMAP_ARGS |-> read_hex_8(Rest(s), 2 * n - 1)]
  BY <1>3
<1> QED BY <1>4, Zenon DEF Lines!KeymapSet, command_set_keymap

\* Without an end of line, what is executed is what the bytes say as far as
\* they go.
LEMMA NoLineEnds ==
  \A s \in Seq(Char) : Eols(s, 1) = {} => command_process[s] = Lines!Commands[s]
<1> DEFINE D == Seq(Char)
           rank == [s \in D |-> Len(s)]
           S == {s \in D : Eols(s, 1) = {} => command_process[s] = Lines!Commands[s]}
<1>1. ASSUME NEW s \in D, \A r \in D : rank[r] < rank[s] => r \in S,
             Eols(s, 1) = {}, s # <<>>
      PROVE  command_process[s] = Lines!Commands[s]
  <2>1. ASSUME NEW i \in Nat \ {0} PROVE Eols(From(s, i), 1) = {}
    <3>1. \A j \in 1..Len(From(s, i)) : i + j - 1 \in 1..Len(s)
      BY FromIs
    <3>2. \A j \in 1..Len(s) : s[j] \notin Eol
      BY <1>1 DEF Eols
    <3>3. \A j \in 1..Len(From(s, i)) : From(s, i)[j] \notin Eol
      BY <3>1, <3>2, FromIs
    <3> QED BY <3>3 DEF Eols
  <2>2. ASSUME NEW r \in D, Len(r) < Len(s), Eols(r, 1) = {}
        PROVE  command_process[r] = Lines!Commands[r]
    BY <1>1, <2>2
  <2>3. /\ First(s) = s[1] /\ Rest(s) = From(s, 2) /\ Rest(s) \in D
        /\ Len(Rest(s)) < Len(s) /\ Len(s) \in Nat \ {0}
    BY <1>1, RestIs
  <2>4. Eols(Rest(s), 1) = {} /\ PhraseEnds(Rest(s)) = {}
    <3>1. Eols(Rest(s), 1) = {}
      BY <2>1, <2>3
    <3> QED BY <3>1 DEF Eols, PhraseEnds
  <2>5. CASE First(s) \in Simple
    <3>1. command_process[Rest(s)] = Lines!Commands[Rest(s)]
      BY <2>2, <2>3, <2>4
    <3>2. command_process[s] = <<<<First(s)>>>> \o command_process[Rest(s)]
      BY <1>1, <2>5, ProcessedCases
    <3>3. Lines!Commands[s] = <<<<First(s)>>>> \o Lines!Commands[Rest(s)]
      BY <1>1, <2>5, LineCases
    <3> QED BY <3>1, <3>2, <3>3
  <2>6. CASE First(s) = CMD_KEYMAP_SET
    <3> DEFINE r == From(s, 2 * KEYMAP_ARGS + 2)
    <3>1. From(Rest(s), 2 * KEYMAP_ARGS + 1) = r
      <4>1. 2 * KEYMAP_ARGS + 1 \in Nat \ {0} /\ 2 + (2 * KEYMAP_ARGS + 1) - 1 = 2 * KEYMAP_ARGS + 2
        BY CommandNumbers
      <4> QED BY <2>3, <4>1, FromFrom
    <3>2. command_process[r] = Lines!Commands[r]
      <4>1. r \in D /\ Len(r) < Len(s)
        BY <1>1, ShorterLine
      <4>2. Eols(r, 1) = {}
        BY <2>1, CommandNumbers
      <4> QED BY <2>2, <4>1, <4>2
    <3>3. command_process[s] = <<command_set_keymap(Rest(s))>> \o command_process[r]
      BY <1>1, <2>6, <3>1, ProcessedCases
    <3>4. Lines!Commands[s] = <<Lines!KeymapSet(s)>> \o Lines!Commands[r]
      BY <1>1, <2>6, LineCases
    <3>5. Lines!KeymapSet(s) = command_set_keymap(Rest(s))
      BY <1>1, SameKey
    <3> HIDE DEF r
    <3> QED BY <3>2, <3>3, <3>4, <3>5
  <2>7. CASE First(s) = CMD_MACRO_SET
    <3>1. command_process[s] = <<>> /\ Lines!Commands[s] = <<>>
      BY <1>1, <2>4, <2>7, ProcessedCases, LineCases
    <3> QED BY <3>1
  <2>8. CASE First(s) \notin Simple \cup Eol \cup {CMD_KEYMAP_SET, CMD_MACRO_SET}
    <3>1. ring_skip_line(Rest(s)) = <<>>
      BY <2>4 DEF ring_skip_line
    <3>2. <<>> \in Seq(Char)
      OBVIOUS
    <3>3. command_process[<<>>] = <<>>
      BY <3>2, ProcessedCases
    <3>4. command_process[s] = command_process[ring_skip_line(Rest(s))]
      BY <1>1, <2>8, ProcessedCases
    <3>5. Lines!Commands[s] = <<>>
      BY <1>1, <2>8, LineCases
    <3> QED BY <3>1, <3>3, <3>4, <3>5
  <2>9. First(s) \notin Eol
    BY <1>1, <2>3 DEF Eols
  <2> QED BY <2>5, <2>6, <2>7, <2>8, <2>9
<1>2. ASSUME NEW s \in D, \A r \in D : rank[r] < rank[s] => r \in S
      PROVE  s \in S
  <2>1. s = <<>> => command_process[s] = <<>> /\ Lines!Commands[s] = <<>>
    BY ProcessedCases, LineCases
  <2>2. s = <<>> => command_process[s] = Lines!Commands[s]
    BY <2>1
  <2> QED BY <1>1, <1>2, <2>2
<1>3. \A s \in D : s \in S
  <2>1. rank \in [D -> Nat]
    BY Ranks
  <2> HIDE DEF rank, D, S
  <2> QED BY <1>2, <2>1, RankInduction
<1> QED BY <1>3

\* A phrase that is read is the phrase of the line.
LEMMA SamePhrase ==
  ASSUME NEW s \in Seq(Char), Eols(s, 1) # {}, End(s) > 4
  PROVE  /\ PhraseEnds(Rest(s)) # {} /\ Min(PhraseEnds(Rest(s))) = End(s) - 1
         /\ command_set_macro(Rest(s)) = Lines!MacroSet(LineOf(s))
<1> DEFINE e == End(s)
           l == LineOf(s)
           t == Rest(s)
<1>1. /\ e \in 1..Len(s) /\ Len(s) \in Nat /\ s[e] \in Eol
      /\ \A j \in 1..Len(s) : j < e => s[j] \notin Eol
      /\ l \in Seq(Char) /\ Len(l) = e /\ \A j \in 1..e : l[j] = s[j]
  BY FirstLine
<1>2. s # <<>>
  BY <1>1
<1>3. /\ t \in Seq(Char) /\ Len(t) = Len(s) - 1
      /\ \A j \in 1..(Len(s) - 1) : t[j] = s[j + 1]
  BY <1>2, RestIs
<1>4. e > 4
  OBVIOUS
<1> HIDE DEF e, l, t
<1>5. e - 1 \in PhraseEnds(t)
  <2>1. e - 1 \in 4..Len(t) /\ t[e - 1] \in Eol
    BY <1>1, <1>3, <1>4
  <2> QED BY <2>1 DEF PhraseEnds, Eols
<1>6. ASSUME NEW j \in PhraseEnds(t) PROVE e - 1 <= j
  <2>1. j \in 4..Len(t) /\ t[j] \in Eol
    BY DEF PhraseEnds, Eols
  <2>2. j + 1 \in 1..Len(s) /\ s[j + 1] \in Eol
    BY <1>1, <1>3, <2>1
  <2>3. ~(j + 1 < e)
    BY <1>1, <2>2
  <2> QED BY <1>1, <2>1, <2>3
<1>7. Min(PhraseEnds(t)) = e - 1
  <2>1. PhraseEnds(t) \in SUBSET Nat
    BY <1>3, EolsAre DEF PhraseEnds
  <2> QED BY <1>5, <1>6, <2>1, MinIsIt
<1>8. SubSeq(t, 3, e - 1 - 1) = SubSeq(l, 4, e - 1)
  <2> DEFINE p == SubSeq(t, 3, e - 1 - 1)
             q == SubSeq(l, 4, e - 1)
  <2>1. /\ p \in Seq(Char) /\ Len(p) = e - 4
        /\ \A j \in 1..(e - 4) : p[j] = t[3 + j - 1]
    <3>1. e - 1 - 1 \in Int /\ 3 <= e - 1 - 1 /\ e - 1 - 1 - 3 + 1 = e - 4
      BY <1>1, <1>4
    <3>2. \A j \in 3..(e - 1 - 1) : t[j] \in Char
      BY <1>1, <1>3
    <3> QED BY <3>1, <3>2, SubSeqProperties
  <2>2. /\ q \in Seq(Char) /\ Len(q) = e - 4
        /\ \A j \in 1..(e - 4) : q[j] = l[4 + j - 1]
    <3>1. e - 1 \in Int /\ 4 <= e - 1 /\ e - 1 - 4 + 1 = e - 4
      BY <1>1, <1>4
    <3>2. \A j \in 4..(e - 1) : l[j] \in Char
      BY <1>1
    <3> QED BY <3>1, <3>2, SubSeqProperties
  <2> HIDE DEF p, q
  <2>3. ASSUME NEW j \in 1..(e - 4) PROVE p[j] = q[j]
    <3>1. 3 + j - 1 \in 1..(Len(s) - 1) /\ 4 + j - 1 \in 1..e /\ 3 + j - 1 + 1 = 4 + j - 1
      BY <1>1, <1>4
    <3>2. p[j] = s[4 + j - 1]
      BY <1>3, <2>1, <3>1
    <3> QED BY <1>1, <2>2, <3>1, <3>2
  <2>4. p = q
    BY <2>1, <2>2, <2>3, SeqEqual
  <2> QED BY <2>4 DEF p, q
<1>9. Lines!Pair(l, 2) = read_hex_8(t, 1)
  <2>1. Lines!Value(l, 2) = hex_digit(t, 1) /\ Lines!Value(l, 3) = hex_digit(t, 2)
    <3>1. ~(2 > Len(l)) /\ ~(3 > Len(l)) /\ ~(1 > Len(t)) /\ ~(2 > Len(t))
      BY <1>1, <1>3, <1>4
    <3>2. l[2] = t[1] /\ l[3] = t[2]
      BY <1>1, <1>3, <1>4
    <3> QED BY <3>1, <3>2 DEF Lines!Value, hex_digit
  <2> QED BY <2>1 DEF Lines!Pair, read_hex_8
<1>10. command_set_macro(t) = Lines!MacroSet(l)
  BY <1>1, <1>7, <1>8, <1>9 DEF command_set_macro, Lines!MacroSet
<1> QED BY <1>5, <1>7, <1>10 DEF e, l, t

\* A line that does not break off is executed, and then what follows it is.
Split(s) ==
  Eols(s, 1) # {} /\ Lines!WellFormed[LineOf(s)] =>
    command_process[s] = Lines!Commands[LineOf(s)] \o command_process[AfterIt(s)]

LEMMA ThenTheRest ==
  ASSUME NEW x \in Executable, NEW a \in Seq(Executable), NEW b \in Seq(Executable)
  PROVE  (<<x>> \o a) \o b = <<x>> \o (a \o b)
<1>1. <<x>> \in Seq(Executable)
  OBVIOUS
<1> QED BY <1>1, ConcatAssociative

LEMMA LineIsExecuted ==
  ASSUME NEW s \in Seq(Char), Eols(s, 1) # {}, Lines!WellFormed[LineOf(s)],
         \A r \in Seq(Char) : Len(r) < Len(s) => Split(r)
  PROVE  command_process[s] = Lines!Commands[LineOf(s)] \o command_process[AfterIt(s)]
<1> DEFINE l == LineOf(s)
           e == End(s)
           c == First(s)
           Whole == command_process[s] = Lines!Commands[l] \o command_process[AfterIt(s)]
<1>1. /\ e \in 1..Len(s) /\ Len(s) \in Nat /\ s[e] \in Eol
      /\ \A j \in 1..Len(s) : j < e => s[j] \notin Eol
      /\ l \in Seq(Char) /\ Len(l) = e /\ \A j \in 1..e : l[j] = s[j]
      /\ AfterIt(s) \in Seq(Char) /\ AfterIt(s) = From(s, e + 1)
  BY FirstLine DEF AfterIt
<1>2. s # <<>> /\ l # <<>>
  BY <1>1
<1>3. /\ c = s[1] /\ Rest(s) = From(s, 2) /\ Rest(s) \in Seq(Char)
      /\ Len(Rest(s)) = Len(s) - 1
      /\ First(l) = c /\ Rest(l) = From(l, 2) /\ Rest(l) \in Seq(Char)
  <2>1. c = s[1] /\ Rest(s) = From(s, 2) /\ Rest(s) \in Seq(Char)
        /\ Len(Rest(s)) = Len(s) - 1
    BY <1>2, RestIs
  <2>2. First(l) = l[1] /\ Rest(l) = From(l, 2) /\ Rest(l) \in Seq(Char)
    BY <1>1, <1>2, RestIs
  <2>3. l[1] = s[1]
    BY <1>1
  <2> QED BY <2>1, <2>2, <2>3
<1>4. Lines!WellFormed[l] = Fits(l, Lines!WellFormed)
  BY <1>1, WellFormedIs
<1>5. /\ Lines!Commands[l] \in Seq(Executable)
      /\ command_process[AfterIt(s)] \in Seq(Executable)
  BY <1>1, CommandsAre, ProcessIs
<1>6. /\ {CMD_KEYMAP_SET, CMD_MACRO_SET} \cap (Simple \cup Eol) = {}
      /\ CMD_KEYMAP_SET # CMD_MACRO_SET /\ Simple \cap Eol = {}
  BY CommandAssumption
<1>7. ASSUME NEW k \in 2..e, Lines!WellFormed[From(l, k)]
      PROVE  /\ command_process[From(s, k)]
                  = Lines!Commands[From(l, k)] \o command_process[AfterIt(s)]
             /\ Lines!Commands[From(l, k)] \in Seq(Executable)
  <2>1. k \in 1..e /\ k \in Nat \ {0} /\ k <= Len(s)
    BY <1>1
  <2>2. /\ From(s, k) \in Seq(Char) /\ Eols(From(s, k), 1) # {}
        /\ LineOf(From(s, k)) = From(l, k) /\ AfterIt(From(s, k)) = AfterIt(s)
    BY <2>1, Suffix
  <2>3. Len(From(s, k)) < Len(s)
    BY <1>1, <2>1, FromIs
  <2>4. From(l, k) \in Seq(Char)
    BY <1>1, <2>1, FromIs
  <2> QED BY <1>7, <2>2, <2>3, <2>4, CommandsAre DEF Split
<1>8. \A x \in Seq(Executable) : <<>> \o x = x
  BY ConcatEmptySeq
<1>9. CASE c \in Simple
  <2>1. e # 1
    BY <1>1, <1>3, <1>6, <1>9
  <2>2. 2 \in 2..e
    BY <1>1, <2>1
  <2>3. Lines!WellFormed[From(l, 2)]
    BY <1>2, <1>3, <1>4, <1>9, FitsCases
  <2>4. /\ command_process[From(s, 2)]
             = Lines!Commands[From(l, 2)] \o command_process[AfterIt(s)]
        /\ Lines!Commands[From(l, 2)] \in Seq(Executable)
    BY <1>7, <2>2, <2>3
  <2>5. <<c>> \in Executable
    BY <1>9 DEF Executable
  <2>6. PICK x \in Executable : x = <<c>>
    BY <2>5
  <2>7. command_process[s] = <<x>> \o command_process[From(s, 2)]
    BY <1>2, <1>3, <1>9, <2>6, ProcessedCases
  <2>8. Lines!Commands[l] = <<x>> \o Lines!Commands[From(l, 2)]
    BY <1>1, <1>2, <1>3, <1>9, <2>6, LineCases
  <2>9. (<<x>> \o Lines!Commands[From(l, 2)]) \o command_process[AfterIt(s)]
          = <<x>> \o (Lines!Commands[From(l, 2)] \o command_process[AfterIt(s)])
    BY <1>5, <2>4, ThenTheRest
  <2> QED BY <2>4, <2>7, <2>8, <2>9, Zenon
<1>10. CASE c = CMD_KEYMAP_SET
  <2> DEFINE k == 2 * KEYMAP_ARGS + 2
  <2>1. Len(l) > 2 * KEYMAP_ARGS + 1 /\ Lines!WellFormed[From(l, k)]
    BY <1>2, <1>3, <1>4, <1>10, FitsCases
  <2>2. k \in 2..e
    BY <1>1, <2>1, CommandNumbers
  <2>3. /\ command_process[From(s, k)]
             = Lines!Commands[From(l, k)] \o command_process[AfterIt(s)]
        /\ Lines!Commands[From(l, k)] \in Seq(Executable)
    BY <1>7, <2>1, <2>2
  <2>4. Lines!KeymapSet(l) = command_set_keymap(Rest(s))
    <3>1. Len(l) > 2 * KEYMAP_ARGS /\ Len(l) <= Len(s)
      BY <1>1, <2>1, CommandNumbers
    <3> QED BY <1>1, <1>2, <3>1, SameKey
  <2>5. command_set_keymap(Rest(s)) \in Executable
    BY <1>3, ArgumentsAre
  <2>6. From(Rest(s), 2 * KEYMAP_ARGS + 1) = From(s, k)
    <3>1. 2 * KEYMAP_ARGS + 1 \in Nat \ {0} /\ 2 + (2 * KEYMAP_ARGS + 1) - 1 = k
      BY CommandNumbers
    <3> QED BY <1>3, <3>1, FromFrom
  <2>7. command_process[s] = <<command_set_keymap(Rest(s))>> \o command_process[From(s, k)]
    BY <1>2, <1>10, <2>6, ProcessedCases
  <2>8. Lines!Commands[l] = <<Lines!KeymapSet(l)>> \o Lines!Commands[From(l, k)]
    BY <1>1, <1>2, <1>3, <1>10, LineCases
  <2> HIDE DEF k
  <2>9. PICK x \in Executable : x = command_set_keymap(Rest(s))
    BY <2>5
  <2>10. (<<x>> \o Lines!Commands[From(l, k)]) \o command_process[AfterIt(s)]
           = <<x>> \o (Lines!Commands[From(l, k)] \o command_process[AfterIt(s)])
    BY <1>5, <2>3, ThenTheRest
  <2> QED BY <2>3, <2>4, <2>7, <2>8, <2>9, <2>10, Zenon
<1>11. CASE c = CMD_MACRO_SET
  <2>1. e > 4
    BY <1>1, <1>2, <1>3, <1>4, <1>11, FitsCases
  <2>2. /\ PhraseEnds(Rest(s)) # {} /\ Min(PhraseEnds(Rest(s))) = e - 1
        /\ command_set_macro(Rest(s)) = Lines!MacroSet(l)
    BY <2>1, SamePhrase
  <2>3. From(Rest(s), e - 1 + 1) = AfterIt(s)
    <3>1. e - 1 + 1 \in Nat \ {0} /\ 2 + (e - 1 + 1) - 1 = e + 1
      BY <1>1
    <3> QED BY <1>1, <1>3, <3>1, FromFrom
  <2>4. command_process[s] = <<Lines!MacroSet(l)>> \o command_process[AfterIt(s)]
    BY <1>2, <1>11, <2>2, <2>3, ProcessedCases
  <2>5. Eols(l, 1) # {}
    <3>1. e \in 1..Len(l) /\ l[e] \in Eol
      BY <1>1
    <3> QED BY <3>1 DEF Eols
  <2>6. Lines!Commands[l] = <<Lines!MacroSet(l)>>
    BY <1>1, <1>2, <1>3, <1>11, <2>5, LineCases
  <2> QED BY <2>4, <2>6
<1>12. CASE c \notin Simple \cup {CMD_KEYMAP_SET, CMD_MACRO_SET}
  <2>1. Lines!Commands[l] = <<>>
    BY <1>1, <1>2, <1>3, <1>12, LineCases
  <2>2. CASE c \in Eol
    <3>1. e = 1
      BY <1>1, <1>3, <2>2
    <3>2. AfterIt(s) = Rest(s)
      BY <1>1, <1>3, <3>1
    <3>3. command_process[s] = command_process[AfterIt(s)]
      BY <1>2, <2>2, <3>2, ProcessedCases
    <3> QED BY <1>5, <1>8, <2>1, <3>3
  <2>3. CASE c \notin Eol
    <3>1. e # 1 /\ 2 \in 1..e
      BY <1>1, <1>3, <2>3
    <3>2. Eols(Rest(s), 1) # {} /\ End(Rest(s)) = e - 2 + 1 /\ AfterIt(Rest(s)) = AfterIt(s)
      BY <1>3, <3>1, Suffix
    <3>3. ring_skip_line(Rest(s)) = AfterIt(s)
      BY <3>2 DEF ring_skip_line, AfterIt, End
    <3>4. command_process[s] = command_process[AfterIt(s)]
      BY <1>2, <1>12, <2>3, <3>3, ProcessedCases
    <3> QED BY <1>5, <1>8, <2>1, <3>4
  <2> QED BY <2>2, <2>3
<1> QED BY <1>9, <1>10, <1>11, <1>12

LEMMA LinesAreExecuted == \A s \in Seq(Char) : Split(s)
<1> DEFINE D == Seq(Char)
           rank == [s \in D |-> Len(s)]
           S == {s \in D : Split(s)}
<1>1. ASSUME NEW s \in D, \A r \in D : rank[r] < rank[s] => r \in S
      PROVE  s \in S
  <2>1. \A r \in D : Len(r) < Len(s) => Split(r)
    BY <1>1
  <2>2. Split(s)
    BY <2>1, LineIsExecuted DEF Split
  <2> QED BY <2>2
<1>2. \A s \in D : s \in S
  <2>1. rank \in [D -> Nat]
    BY Ranks
  <2> HIDE DEF rank, D, S
  <2> QED BY <1>1, <2>1, RankInduction
<1> QED BY <1>2

\* Something is executed as promised.
Keeps(promise, x) ==
  IF promise.spoiled THEN IsPrefix(promise.first, x) ELSE x = promise.first

LEMMA PrefixStays ==
  ASSUME NEW X, NEW a \in Seq(X), NEW b \in Seq(X), NEW x \in Seq(X), IsPrefix(b, x)
  PROVE  IsPrefix(a \o b, a \o x)
<1> DEFINE p == a \o b
           q == a \o x
           n == Len(a) + Len(b)
<1>1. /\ p \in Seq(X) /\ Len(p) = n
      /\ \A i \in 1..n : p[i] = IF i <= Len(a) THEN a[i] ELSE b[i - Len(a)]
  BY ConcatProperties
<1>2. /\ q \in Seq(X) /\ Len(q) = Len(a) + Len(x)
      /\ \A i \in 1..(Len(a) + Len(x)) :
           q[i] = IF i <= Len(a) THEN a[i] ELSE x[i - Len(a)]
  BY ConcatProperties
<1>3. Len(a) \in Nat /\ Len(b) \in Nat /\ Len(x) \in Nat
  OBVIOUS
<1>4. Len(b) <= Len(x) /\ \A i \in 1..Len(b) : b[i] = x[i]
  <2>1. Len(b) <= Len(x) /\ SubSeq(b, 1, Len(b)) = SubSeq(x, 1, Len(b))
    BY DEF IsPrefix
  <2>2. ASSUME NEW s \in Seq(X), NEW i \in 1..Len(b), Len(b) <= Len(s)
        PROVE  SubSeq(s, 1, Len(b))[i] = s[i]
    <3>1. /\ 1 \in Int /\ Len(b) \in Int /\ \A j \in 1..Len(b) : s[j] \in X
          /\ i \in 1..(Len(b) - 1 + 1) /\ 1 + i - 1 = i
      BY <1>3, <2>2
    <3> QED BY <3>1, SubSeqProperties
  <2>3. ASSUME NEW i \in 1..Len(b) PROVE b[i] = x[i]
    <3>1. SubSeq(b, 1, Len(b))[i] = b[i] /\ SubSeq(x, 1, Len(b))[i] = x[i]
      BY <1>3, <2>1, <2>2
    <3> QED BY <2>1, <3>1
  <2> QED BY <2>1, <2>3
<1> HIDE DEF p, q
<1>5. ASSUME NEW i \in 1..n PROVE p[i] = q[i]
  <2>1. i \in 1..(Len(a) + Len(x))
    BY <1>3, <1>4
  <2>2. CASE i <= Len(a)
    BY <1>1, <1>2, <2>1, <2>2
  <2>3. CASE ~(i <= Len(a))
    <3>1. i - Len(a) \in 1..Len(b)
      BY <1>3, <2>3
    <3> QED BY <1>1, <1>2, <1>4, <2>1, <2>3, <3>1
  <2> QED BY <2>2, <2>3
<1>6. n \in Nat /\ n <= Len(q)
  BY <1>2, <1>3, <1>4
<1> HIDE DEF n
<1>7. SubSeq(p, 1, n) = SubSeq(q, 1, n)
  <2>1. ASSUME NEW s \in Seq(X), n <= Len(s)
        PROVE  /\ SubSeq(s, 1, n) \in Seq(X) /\ Len(SubSeq(s, 1, n)) = n
               /\ \A i \in 1..n : SubSeq(s, 1, n)[i] = s[i]
    <3>1. 1 \in Int /\ n \in Int /\ \A j \in 1..n : s[j] \in X
      BY <1>6, <2>1
    <3>2. n = n - 1 + 1 /\ \A i \in 1..n : 1 + i - 1 = i
      BY <1>6
    <3>3. /\ SubSeq(s, 1, n) \in Seq(X)
          /\ Len(SubSeq(s, 1, n)) = IF 1 <= n THEN n - 1 + 1 ELSE 0
          /\ \A i \in 1..(n - 1 + 1) : SubSeq(s, 1, n)[i] = s[1 + i - 1]
      BY <3>1, SubSeqProperties
    <3> QED BY <1>6, <3>2, <3>3
  <2>2. /\ SubSeq(p, 1, n) \in Seq(X) /\ Len(SubSeq(p, 1, n)) = n
        /\ \A i \in 1..n : SubSeq(p, 1, n)[i] = p[i]
    BY <1>1, <1>6, <2>1
  <2>3. /\ SubSeq(q, 1, n) \in Seq(X) /\ Len(SubSeq(q, 1, n)) = n
        /\ \A i \in 1..n : SubSeq(q, 1, n)[i] = q[i]
    BY <1>2, <1>6, <2>1
  <2> QED BY <1>5, <2>2, <2>3, SeqEqual
<1>8. IsPrefix(p, q)
  BY <1>1, <1>6, <1>7 DEF IsPrefix
<1> QED BY <1>8 DEF p, q

\* What is promised of bytes is executed.
LEMMA PromiseIsKept == \A s \in Seq(Char) : Keeps(Lines!Promise[s], command_process[s])
<1> DEFINE D == Seq(Char)
           rank == [s \in D |-> Len(s)]
           S == {s \in D : Keeps(Lines!Promise[s], command_process[s])}
<1>1. ASSUME NEW s \in D, \A r \in D : rank[r] < rank[s] => r \in S
      PROVE  Keeps(Lines!Promise[s], command_process[s])
  <2>1. Lines!Promise[s] = Says(s, Lines!Promise) /\ command_process[s] \in Seq(Executable)
    BY PromiseIs, ProcessIs
  <2>2. CASE Eols(s, 1) = {}
    <3>1. Lines!Promise[s] = [first |-> Lines!Commands[s], spoiled |-> FALSE]
      BY <2>1, <2>2, SaysCases
    <3>2. command_process[s] = Lines!Commands[s]
      BY <2>2, NoLineEnds
    <3> QED BY <3>1, <3>2 DEF Keeps
  <2>3. CASE Eols(s, 1) # {} /\ ~Lines!WellFormed[LineOf(s)]
    <3>1. Lines!Promise[s] = [first |-> <<>>, spoiled |-> TRUE]
      BY <2>1, <2>3, SaysCases
    <3>2. IsPrefix(<<>>, command_process[s])
      <4>1. PICK x \in Seq(Executable) : x = command_process[s]
        BY <2>1
      <4>2. Len(<<>>) = 0 /\ 0 <= Len(x) /\ SubSeq(<<>>, 1, 0) = <<>> /\ SubSeq(x, 1, 0) = <<>>
        BY SubSeqEmpty
      <4> QED BY <4>1, <4>2 DEF IsPrefix
    <3> QED BY <3>1, <3>2 DEF Keeps
  <2>4. CASE Eols(s, 1) # {} /\ Lines!WellFormed[LineOf(s)]
    <3>1. /\ AfterIt(s) \in Seq(Char) /\ LineOf(s) \in Seq(Char)
          /\ Keeps(Lines!Promise[AfterIt(s)], command_process[AfterIt(s)])
      <4>1. AfterIt(s) \in D /\ Len(AfterIt(s)) < Len(s) /\ LineOf(s) \in Seq(Char)
        BY <2>4, FirstLine
      <4> QED BY <1>1, <4>1
    <3>2. PICK a \in Seq(Executable), x \in Seq(Executable), rest \in Promised :
            /\ a = Lines!Commands[LineOf(s)] /\ x = command_process[AfterIt(s)]
            /\ rest = Lines!Promise[AfterIt(s)]
      BY <3>1, CommandsAre, ProcessIs, PromiseIs
    <3>3. command_process[s] = a \o x
      BY <2>4, <3>2, LinesAreExecuted DEF Split
    <3>4. Lines!Promise[s] = [first |-> a \o rest.first, spoiled |-> rest.spoiled]
      BY <2>1, <2>4, <3>2, SaysCases
    <3>5. rest.first \in Seq(Executable) /\ rest.spoiled \in BOOLEAN
      BY DEF Promised
    <3>6. CASE rest.spoiled
      <4>1. IsPrefix(rest.first, x)
        BY <3>1, <3>2, <3>6 DEF Keeps
      <4>2. IsPrefix(a \o rest.first, a \o x)
        BY <3>5, <4>1, PrefixStays
      <4> QED BY <3>3, <3>4, <3>6, <4>2 DEF Keeps
    <3>7. CASE ~rest.spoiled
      <4>1. x = rest.first
        BY <3>1, <3>2, <3>7 DEF Keeps
      <4> QED BY <3>3, <3>4, <3>7, <4>1 DEF Keeps
    <3> QED BY <3>6, <3>7
  <2> QED BY <2>2, <2>3, <2>4
<1>2. \A s \in D : s \in S
  <2>1. ASSUME NEW s \in D, \A r \in D : rank[r] < rank[s] => r \in S PROVE s \in S
    BY <1>1, <2>1
  <2>2. rank \in [D -> Nat]
    BY Ranks
  <2> HIDE DEF rank, D, S
  <2> QED BY <2>1, <2>2, RankInduction
<1> QED BY <1>2

LEMMA SerialInStep ==
  ASSUME CommandInv, NEW bytes \in Packet, serial_in(bytes)
  PROVE  Lines!Next
<1> DEFINE kept == Lines!Kept(input_ring \o bytes)
<1>1. bytes \in Seq(Char) /\ input_ring \in Seq(Char)
      /\ Len(input_ring) <= SERIAL_BUF_SIZEIN - 1
  BY CommandAssumption, CommandNumbers DEF CommandInv, CommandTypeOK
<1>2. Gathered(input_ring, bytes) = kept /\ received' = bytes
  BY <1>1, GatheredIs DEF serial_in
<1>3. kept \in Seq(Char)
  <2>1. input_ring \o bytes \in Seq(Char)
    BY <1>1, ConcatProperties
  <2> QED BY <2>1, KeptIs
<1>4. Lines!HasEol(bytes) <=> eol_seen(bytes)
  BY DEF Lines!HasEol, eol_seen
<1> HIDE DEF kept
<1>5. CASE ~eol_seen(bytes)
  <2>1. input_ring' = kept /\ executed' = <<>>
    BY <1>2, <1>5 DEF serial_in
  <2>2. Lines!Gather
    BY <1>2, <1>4, <1>5, <2>1 DEF Lines!Gather, kept
  <2> QED BY <2>2 DEF Lines!Next
<1>6. CASE eol_seen(bytes)
  <2>1. input_ring' = <<>> /\ executed' = command_process[kept]
    BY <1>2, <1>6 DEF serial_in
  <2>2. Keeps(Lines!Promise[kept], executed')
    BY <1>3, <2>1, PromiseIsKept
  <2>3. IF Lines!Promise[kept].spoiled
          THEN Lines!IsPrefix(Lines!Promise[kept].first, executed')
          ELSE executed' = Lines!Promise[kept].first
    BY <2>2 DEF Keeps, IsPrefix, Lines!IsPrefix
  <2>4. Lines!Execute
    BY <1>2, <1>4, <1>6, <2>1, <2>3 DEF Lines!Execute, kept
  <2> QED BY <2>4 DEF Lines!Next
<1> QED BY <1>5, <1>6

\* Command implements CommandLine: whatever packets come and however lines are
\* spread over them, serial_in executes the lines one by one, and nothing that
\* overflows or breaks off is in the ring when the next packet comes.
THEOREM LinesAreExecutedAlone == CommandSpec => ExecutesLines
<1>1. CommandInit => Lines!Init
  BY DEF CommandInit, Lines!Init
<1>2. CommandInv /\ [CommandNext]_commandVars => [Lines!Next]_(Lines!vars)
  <2> SUFFICES ASSUME CommandInv, [CommandNext]_commandVars
               PROVE  [Lines!Next]_(Lines!vars)
    OBVIOUS
  <2>1. CASE CommandNext
    BY <2>1, SerialInStep DEF CommandNext
  <2>2. CASE UNCHANGED commandVars
    BY <2>2 DEF commandVars, Lines!vars
  <2> QED BY <2>1, <2>2
<1> QED BY <1>1, <1>2, CommandInvHolds, PTL DEF CommandSpec, ExecutesLines, Lines!Spec
=============================================================================
