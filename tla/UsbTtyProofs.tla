---------------------------- MODULE UsbTtyProofs ----------------------------
(***************************************************************************)
(* Theorems about UsbTty, for buffers, packets, answers and requests of    *)
(* any size and any number of flushes that give up.                        *)
(*                                                                         *)
(* The argument: a ring buffer is a queue as long as nobody pushes beyond  *)
(* its size (PushAppends, PopTakes), and so is the transfer block with the *)
(* FIFO behind it (WriteFifoIs, AppendIs).  What remains is that nobody    *)
(* does, though buf_push never looks.  Towards the program the host's      *)
(* restraint bounds what is on its way (InStock) and the calls leave bytes *)
(* in the receiving block only where they move them on (Held).  Towards    *)
(* the host each flush that gives up leaves at most one answer behind      *)
(* (Backlog).                                                              *)
(***************************************************************************)
EXTENDS UsbTty, TLAPS

-----------------------------------------------------------------------------
(* The constants, sequences and pointers.                                  *)

\* The tail is the counted number of bytes behind the top, and there is room for them.
IsRing(b) == b \in Buffer(Nat) /\ b.size <= RING /\ b.tail = Wrap(b.top + b.size)

\* The size of a buffer and the indices of its array.
LEMMA RingNat == RING \in Nat /\ RING >= 1 /\ Index = 0 .. RING - 1
BY RingAssumption DEF RingAssumption, Index

\* A concatenation, element by element.
LEMMA ConcatIs ==
  ASSUME NEW s \in Seq(Nat), NEW t \in Seq(Nat)
  PROVE  /\ s \o t \in Seq(Nat) /\ Len(s \o t) = Len(s) + Len(t)
         /\ \A k \in 1..Len(s) : (s \o t)[k] = s[k]
         /\ \A k \in 1..Len(t) : (s \o t)[Len(s) + k] = t[k]
<1>1. s \o t \in Seq(Nat) /\ Len(s \o t) = Len(s) + Len(t)
  OBVIOUS
<1>2. \A k \in 1..Len(s) : (s \o t)[k] = s[k]
  OBVIOUS
<1>3. \A k \in 1..Len(t) : (s \o t)[Len(s) + k] = t[k]
  OBVIOUS
<1> QED  BY <1>1, <1>2, <1>3

\* Sequences with the same elements are the same.
LEMMA SeqEqual ==
  ASSUME NEW s \in Seq(Nat), NEW t \in Seq(Nat), Len(s) = Len(t),
         \A k \in 1..Len(s) : s[k] = t[k]
  PROVE  s = t
OBVIOUS

\* One step around the end of the array is enough.
LEMMA WrapIs ==
  ASSUME NEW p \in 0 .. RING - 1, NEW n \in 0 .. RING
  PROVE  /\ Wrap(p + n) \in 0 .. RING - 1
         /\ p + n < RING => Wrap(p + n) = p + n
         /\ p + n >= RING => Wrap(p + n) = p + n - RING
BY RingNat DEF Wrap

\* Moving on twice is moving on by the sum.
LEMMA WrapTwice ==
  ASSUME NEW p \in 0 .. RING - 1, NEW n \in Nat, NEW m \in Nat, n + m <= RING
  PROVE  Wrap(Wrap(p + n) + m) = Wrap(p + (n + m))
<1>1. n \in 0..RING /\ m \in 0..RING /\ n + m \in 0..RING
  BY RingNat
<1> DEFINE q == Wrap(p + n)
<1>2. /\ q \in 0..RING - 1
      /\ p + n < RING => q = p + n
      /\ p + n >= RING => q = p + n - RING
  BY <1>1, WrapIs
<1> HIDE DEF q
<1>3. /\ q + m < RING => Wrap(q + m) = q + m
      /\ q + m >= RING => Wrap(q + m) = q + m - RING
  BY <1>1, <1>2, WrapIs
<1>4. /\ p + (n + m) < RING => Wrap(p + (n + m)) = p + (n + m)
      /\ p + (n + m) >= RING => Wrap(p + (n + m)) = p + (n + m) - RING
  BY <1>1, WrapIs
<1>6. Wrap(q + m) = Wrap(p + (n + m))
  BY <1>1, <1>2, <1>3, <1>4, RingNat
<1> QED  BY <1>6 DEF q

\* How far byte k of the array, counted from the top, is from the tail.
LEMMA FromTail ==
  ASSUME NEW p \in 0 .. RING - 1, NEW n \in Nat, NEW m \in Nat, n + m <= RING,
         NEW k \in 0 .. n + m - 1
  PROVE  /\ Wrap(p + k) \in 0 .. RING - 1
         /\ Offset(Wrap(p + n), Wrap(p + k)) \in Nat
         /\ k < n => Offset(Wrap(p + n), Wrap(p + k)) >= m
         /\ k >= n => Offset(Wrap(p + n), Wrap(p + k)) = k - n
<1>1. n \in 0..RING /\ k \in 0..RING
  BY RingNat
<1> DEFINE t == Wrap(p + n)
           j == Wrap(p + k)
<1>2. t \in 0..RING - 1 /\ (p + n < RING => t = p + n) /\ (p + n >= RING => t = p + n - RING)
  BY <1>1, WrapIs
<1>3. j \in 0..RING - 1 /\ (p + k < RING => j = p + k) /\ (p + k >= RING => j = p + k - RING)
  BY <1>1, WrapIs
<1> HIDE DEF t, j
<1>4. Offset(t, j) \in Nat /\ (k < n => Offset(t, j) >= m) /\ (k >= n => Offset(t, j) = k - n)
  BY <1>1, <1>2, <1>3, RingNat DEF Offset
<1> QED  BY <1>3, <1>4 DEF t, j

\* The n bytes from index p on, around the end of the array.
Stretch(data, p, n) == [k \in 1..n |-> data[Wrap(p + k - 1)]]

\* A stretch, element by element.
LEMMA StretchIs ==
  ASSUME NEW d \in [Index -> Nat], NEW p \in 0 .. RING - 1, NEW n \in 0..RING
  PROVE  /\ Stretch(d, p, n) \in Seq(Nat) /\ Len(Stretch(d, p, n)) = n
         /\ \A k \in 1..n : Stretch(d, p, n)[k] = d[Wrap(p + (k - 1))]
<1>1. \A k \in 1..n : k - 1 \in 0..RING /\ p + k - 1 = p + (k - 1)
  BY RingNat
<1>2. \A k \in 1..n : Wrap(p + (k - 1)) \in Index
  BY <1>1, WrapIs, RingNat
<1>3. \A k \in 1..n : Wrap(p + k - 1) = Wrap(p + (k - 1))
  BY <1>1
<1>4. \A k \in 1..n : d[Wrap(p + k - 1)] \in Nat
  BY <1>2, <1>3
<1>5. n \in Nat  BY RingNat
<1> QED  BY <1>3, <1>4, <1>5 DEF Stretch

\* Array e is array d with src stored from index t on.
StoredFrom(t, src, d, e) == \A i \in Index :
  e[i] = IF Offset(t, i) < Len(src) THEN src[Offset(t, i) + 1] ELSE d[i]

\* There is room for src behind n bytes, and l are there then.
HasRoom(n, src, l) == l \in Nat /\ l = n + Len(src) /\ l <= RING

\* Bytes stored behind a stretch prolong it.
LEMMA StretchPushed ==
  ASSUME NEW d \in [Index -> Nat], NEW p \in 0 .. RING - 1, NEW n \in Nat,
         NEW src \in Seq(Nat), NEW l, HasRoom(n, src, l),
         NEW e \in [Index -> Nat],
         StoredFrom(Wrap(p + n), src, d, e)
  PROVE  Stretch(e, p, l) = Stretch(d, p, n) \o src
<1> DEFINE t == Wrap(p + n)
           m == Len(src)
<1>0. m \in Nat /\ l = n + m /\ n + m <= RING
  BY DEF HasRoom
<1>1. n \in 0..RING /\ m \in 0..RING /\ n + m \in 0..RING
  BY <1>0, RingNat
<1>2. t \in 0..RING - 1  BY <1>1, WrapIs
<1>3. \A i \in Index : e[i] = IF Offset(t, i) < m THEN src[Offset(t, i) + 1] ELSE d[i]
  BY DEF StoredFrom
<1>5. \A k \in 0 .. n + m - 1 :
        /\ Wrap(p + k) \in Index
        /\ k < n => Offset(t, Wrap(p + k)) >= m
        /\ k >= n => Offset(t, Wrap(p + k)) = k - n
        /\ Offset(t, Wrap(p + k)) \in Nat
  BY <1>0, FromTail, RingNat
<1>4. Len(src) = m
  OBVIOUS
<1> HIDE DEF t, m
<1> DEFINE x == Stretch(d, p, n)
           y == Stretch(e, p, n + m)
           z == x \o src
<1>7. x \in Seq(Nat) /\ Len(x) = n /\ \A k \in 1..n : x[k] = d[Wrap(p + (k - 1))]
  BY <1>1, StretchIs
<1>8. y \in Seq(Nat) /\ Len(y) = n + m /\ \A k \in 1..n + m : y[k] = e[Wrap(p + (k - 1))]
  BY <1>1, StretchIs
<1> HIDE DEF x, y
<1>9. /\ z \in Seq(Nat) /\ Len(z) = n + m
      /\ \A k \in 1..n : z[k] = x[k]
      /\ \A k \in 1..m : z[n + k] = src[k]
  BY <1>4, <1>7, ConcatIs
<1> HIDE DEF z
<1>10. ASSUME NEW k \in 1..n + m PROVE y[k] = z[k]
  <2> DEFINE h == k - 1
             j == Wrap(p + h)
  <2>1. h \in 0 .. n + m - 1 /\ k = h + 1  BY <1>0
  <2>2. y[k] = e[j]  BY <1>8
  <2>3. /\ j \in Index /\ Offset(t, j) \in Nat
        /\ h < n => Offset(t, j) >= m
        /\ h >= n => Offset(t, j) = h - n
    BY <1>5, <2>1
  <2>4. e[j] = IF Offset(t, j) < m THEN src[Offset(t, j) + 1] ELSE d[j]
    BY <1>3, <2>3
  <2>5. k \in 1..n => x[k] = d[j]  BY <1>7
  <2> HIDE DEF h, j
  <2>6. CASE k \in 1..n
    <3>1. h < n  BY <2>1, <2>6
    <3>2. ~ (Offset(t, j) < m)  BY <1>0, <2>3, <3>1
    <3> QED  BY <1>9, <2>2, <2>4, <2>5, <2>6, <3>2
  <2>7. CASE k \notin 1..n
    <3>1. h >= n /\ h - n \in Nat /\ h - n < m /\ (h - n) + 1 \in 1..m /\ n + ((h - n) + 1) = k
      BY <1>0, <2>1, <2>7
    <3>2. e[j] = src[(h - n) + 1]  BY <2>3, <2>4, <3>1
    <3>3. z[n + ((h - n) + 1)] = src[(h - n) + 1]  BY <1>9, <3>1
    <3> QED  BY <2>2, <3>1, <3>2, <3>3
  <2> QED  BY <2>6, <2>7
<1>11. y = z  BY <1>8, <1>9, <1>10, SeqEqual
<1> QED  BY <1>0, <1>11 DEF x, y, z

\* A stretch is its first n bytes and the rest.
LEMMA StretchPopped ==
  ASSUME NEW d \in [Index -> Nat], NEW p \in 0 .. RING - 1, NEW n \in Nat, NEW m \in Nat,
         n + m <= RING
  PROVE  /\ Stretch(d, p, n) \in Seq(Nat) /\ Len(Stretch(d, p, n)) = n
         /\ Stretch(d, p, n + m) = Stretch(d, p, n) \o Stretch(d, Wrap(p + n), m)
<1> DEFINE t == Wrap(p + n)
           x == Stretch(d, p, n)
           y == Stretch(d, p, n + m)
           w == Stretch(d, t, m)
           z == x \o w
<1>1. n \in 0..RING /\ m \in 0..RING /\ n + m \in 0..RING
  BY RingNat
<1>2. t \in 0..RING - 1  BY <1>1, WrapIs
<1>3. \A l \in 0..m : Wrap(t + l) = Wrap(p + (n + l))
  <2> SUFFICES ASSUME NEW l \in 0..m PROVE Wrap(t + l) = Wrap(p + (n + l))
      OBVIOUS
  <2>1. l \in Nat /\ n + l <= RING  BY RingNat
  <2> QED  BY <2>1, WrapTwice
<1> HIDE DEF t
<1>4. x \in Seq(Nat) /\ Len(x) = n /\ \A k \in 1..n : x[k] = d[Wrap(p + (k - 1))]
  BY <1>1, StretchIs
<1>5. y \in Seq(Nat) /\ Len(y) = n + m /\ \A k \in 1..n + m : y[k] = d[Wrap(p + (k - 1))]
  BY <1>1, StretchIs
<1>6. w \in Seq(Nat) /\ Len(w) = m /\ \A k \in 1..m : w[k] = d[Wrap(t + (k - 1))]
  BY <1>1, <1>2, StretchIs
<1> HIDE DEF x, y, w
<1>7. /\ z \in Seq(Nat) /\ Len(z) = n + m
      /\ \A k \in 1..n : z[k] = x[k]
      /\ \A k \in 1..m : z[n + k] = w[k]
  BY <1>4, <1>6, ConcatIs
<1> HIDE DEF z
<1>8. ASSUME NEW k \in 1..n + m PROVE y[k] = z[k]
  <2>1. CASE k \in 1..n  BY <1>4, <1>5, <1>7, <2>1
  <2>2. CASE k \notin 1..n
    <3> DEFINE l == k - n
    <3>1. l \in 1..m /\ n + l = k /\ l - 1 \in 0..m /\ n + (l - 1) = k - 1
      BY <2>2
    <3> HIDE DEF l
    <3>2. z[k] = w[l]  BY <1>7, <3>1
    <3>3. w[l] = d[Wrap(t + (l - 1))]  BY <1>6, <3>1
    <3>4. Wrap(t + (l - 1)) = Wrap(p + (k - 1))  BY <1>3, <3>1
    <3> QED  BY <1>5, <3>2, <3>3, <3>4
  <2> QED  BY <2>1, <2>2
<1>9. y = z  BY <1>5, <1>7, <1>8, SeqEqual
<1> QED  BY <1>4, <1>9 DEF x, y, w, z, t

-----------------------------------------------------------------------------
(* The ring buffer is a queue, as long as there is room.                   *)

\* What a sound ring buffer consists of.
LEMMA RingType ==
  ASSUME NEW b, IsRing(b)
  PROVE  /\ b.data \in [Index -> Nat] /\ b.top \in 0 .. RING - 1 /\ b.tail \in 0 .. RING - 1
         /\ b.size \in 0..RING /\ b.tail = Wrap(b.top + b.size)
BY RingNat DEF IsRing, Buffer

\* Its contents are the stretch from top on, as long as the count says.
LEMMA ContentsIs ==
  ASSUME NEW b, IsRing(b)
  PROVE  /\ Contents(b) = Stretch(b.data, b.top, b.size)
         /\ Contents(b) \in Seq(Nat) /\ Len(Contents(b)) = b.size
<1> DEFINE n == b.size
           p == b.top
<1>1. b.data \in [Index -> Nat] /\ p \in 0..RING - 1 /\ n \in 0..RING
  BY RingType
<1>2. Contents(b) = Stretch(b.data, p, n)
  <2>1. (IF n > RING THEN RING ELSE n) = n /\ Capped(b, n) = n
    BY <1>1, RingNat DEF Capped
  <2> QED  BY <2>1 DEF Contents, Taken, Stretch
<1> HIDE DEF n, p
<1>3. Stretch(b.data, p, n) \in Seq(Nat) /\ Len(Stretch(b.data, p, n)) = n
  BY <1>1, StretchIs
<1> QED  BY <1>2, <1>3 DEF n, p

\* The fields after buf_push, which does not look for room.
LEMMA PushFields ==
  ASSUME NEW b, IsRing(b), NEW src \in Seq(Nat)
  PROVE  /\ buf_push(b, src).data =
              [i \in Index |-> IF Offset(b.tail, i) < Len(src) THEN src[Offset(b.tail, i) + 1]
                                                              ELSE b.data[i]]
         /\ buf_push(b, src).top = b.top
         /\ buf_push(b, src).tail = Wrap(b.tail + Len(src))
         /\ buf_push(b, src).size = b.size + Len(src)
         /\ \A d \in [Index -> Nat], t \in Index, n \in Nat :
              /\ d = buf_push(b, src).data
              /\ t = buf_push(b, src).tail
              /\ n = buf_push(b, src).size
              => buf_push(b, src) \in Buffer(Nat)
<1> DEFINE d == [i \in Index |-> IF Offset(b.tail, i) < Len(src) THEN src[Offset(b.tail, i) + 1]
                                                              ELSE b.data[i]]
           t == Wrap(b.tail + Len(src))
           n == b.size + Len(src)
<1>1. b \in [data : [Index -> Nat], top : Index, tail : Index, size : Nat]
  BY DEF IsRing, Buffer
<1>2. buf_push(b, src) = [b EXCEPT !.data = d, !.tail = t, !.size = n]
  BY Zenon DEF buf_push
<1> HIDE DEF d, t, n
<1>3. /\ buf_push(b, src).data = d /\ buf_push(b, src).top = b.top
      /\ buf_push(b, src).tail = t /\ buf_push(b, src).size = n
  BY <1>1, <1>2
<1>4. d \in [Index -> Nat] /\ t \in Index /\ n \in Nat => buf_push(b, src) \in Buffer(Nat)
  BY <1>1, <1>2 DEF Buffer
<1> QED  BY <1>3, <1>4 DEF d, t, n

\* The fields after buf_pop.
LEMMA PopFields ==
  ASSUME NEW b, IsRing(b), NEW len \in Nat
  PROVE  /\ buf_pop(b, len).data = b.data
         /\ buf_pop(b, len).top = Wrap(b.top + Capped(b, len))
         /\ buf_pop(b, len).tail = b.tail
         /\ buf_pop(b, len).size = b.size - Capped(b, len)
         /\ Wrap(b.top + Capped(b, len)) \in Index /\ b.size - Capped(b, len) \in Nat
              => buf_pop(b, len) \in Buffer(Nat)
<1> DEFINE t == Wrap(b.top + Capped(b, len))
           n == b.size - Capped(b, len)
<1>1. b \in [data : [Index -> Nat], top : Index, tail : Index, size : Nat]
  BY DEF IsRing, Buffer
<1>2. buf_pop(b, len) = [b EXCEPT !.top = t, !.size = n]
  BY Zenon DEF buf_pop
<1> HIDE DEF t, n
<1>3. /\ buf_pop(b, len).data = b.data /\ buf_pop(b, len).top = t
      /\ buf_pop(b, len).tail = b.tail /\ buf_pop(b, len).size = n
  BY <1>1, <1>2
<1>4. t \in Index /\ n \in Nat => buf_pop(b, len) \in Buffer(Nat)
  BY <1>1, <1>2 DEF Buffer
<1> QED  BY <1>3, <1>4 DEF t, n

\* There is room for src.
Room(b, src) == b.size + Len(src) <= RING

\* Pushing what there is room for appends it to the contents.
LEMMA PushAppends ==
  ASSUME NEW b, IsRing(b), NEW src \in Seq(Nat), Room(b, src)
  PROVE  /\ IsRing(buf_push(b, src)) /\ buf_push(b, src).size = b.size + Len(src)
         /\ Contents(buf_push(b, src)) = Contents(b) \o src
<1> DEFINE c == buf_push(b, src)
           m == Len(src)
           n == b.size
           p == b.top
           d == b.data
           e == c.data
<1>1. /\ d \in [Index -> Nat] /\ p \in 0 .. RING - 1 /\ n \in Nat /\ m \in Nat /\ n + m <= RING
      /\ n \in 0..RING /\ n + m \in 0..RING
  BY RingType, RingNat DEF Room
<1>2. b.tail = Wrap(p + n)
  BY RingType
<1>3. /\ e = [i \in Index |-> IF Offset(Wrap(p + n), i) < m
                              THEN src[Offset(Wrap(p + n), i) + 1] ELSE d[i]]
      /\ c.top = p /\ c.tail = Wrap(Wrap(p + n) + m) /\ c.size = n + m
  BY <1>2, PushFields
<1>4. Contents(b) = Stretch(d, p, n)
  BY ContentsIs
<1>5. /\ e \in [Index -> Nat] /\ c.tail \in Index /\ c.size \in Nat => c \in Buffer(Nat)
  BY PushFields
<1> HIDE DEF c, n, p, d, e
<1>6. e \in [Index -> Nat] /\ Stretch(e, p, n + m) = Stretch(d, p, n) \o src
  <2>1. /\ d \in [Index -> Nat] /\ p \in 0 .. RING - 1 /\ n \in Nat /\ m \in Nat
        /\ n + m <= RING /\ Len(src) = m /\ src \in Seq(Nat)
    BY <1>1
  <2> HIDE DEF m
  <2>2. Wrap(p + n) \in 0..RING - 1
    BY <1>1, WrapIs
  <2>3. \A i \in Index : Offset(Wrap(p + n), i) \in Nat
    BY <2>2, RingNat DEF Offset
  <2>4. \A k \in 1..m : src[k] \in Nat
    BY <2>1
  <2>5. \A i \in Index : e[i] = IF Offset(Wrap(p + n), i) < m
                               THEN src[Offset(Wrap(p + n), i) + 1] ELSE d[i]
    BY <1>3
  <2>6. \A i \in Index : e[i] \in Nat
    <3> SUFFICES ASSUME NEW i \in Index PROVE e[i] \in Nat
        OBVIOUS
    <3>1. CASE Offset(Wrap(p + n), i) < m
      <4>1. Offset(Wrap(p + n), i) + 1 \in 1..m  BY <2>1, <2>3, <3>1
      <4> QED  BY <2>4, <2>5, <3>1, <4>1
    <3>2. CASE ~ (Offset(Wrap(p + n), i) < m)  BY <2>1, <2>5, <3>2
    <3> QED  BY <3>1, <3>2
  <2>7. e \in [Index -> Nat]
    BY <1>3, <2>6
  <2> DEFINE l == n + m
  <2>8. HasRoom(n, src, l)
    BY <2>1 DEF HasRoom
  <2>9. StoredFrom(Wrap(p + n), src, d, e)
    BY <2>1, <2>5 DEF StoredFrom
  <2> HIDE DEF l
  <2>10. Stretch(e, p, l) = Stretch(d, p, n) \o src
    <3>1. d \in [Index -> Nat] /\ p \in 0 .. RING - 1 /\ n \in Nat  BY <2>1
    <3> QED  BY <2>7, <2>8, <2>9, <3>1, StretchPushed
  <2> QED  BY <2>7, <2>10 DEF l
<1> HIDE DEF m
<1>7. c.tail = Wrap(p + (n + m)) /\ Wrap(p + (n + m)) \in Index
  <2>1. Wrap(Wrap(p + n) + m) = Wrap(p + (n + m))  BY <1>1, WrapTwice
  <2>2. Wrap(p + (n + m)) \in 0..RING - 1  BY <1>1, WrapIs
  <2> QED  BY <1>3, <2>1, <2>2, RingNat
<1>8. IsRing(c)
  <2>1. c \in Buffer(Nat)  BY <1>1, <1>3, <1>5, <1>6, <1>7
  <2> QED  BY <1>1, <1>3, <1>7, <2>1 DEF IsRing
<1>9. Contents(c) = Stretch(e, p, n + m)
  BY <1>3, <1>8, ContentsIs DEF e
<1> QED  BY <1>3, <1>4, <1>6, <1>8, <1>9 DEF c, n, m

\* Popping takes the bytes from the front.
LEMMA PopTakes ==
  ASSUME NEW b, IsRing(b), NEW len \in 0..b.size
  PROVE  /\ IsRing(buf_pop(b, len)) /\ buf_pop(b, len).size = b.size - len
         /\ Taken(b, len) \in Seq(Nat) /\ Len(Taken(b, len)) = len
         /\ Contents(b) = Taken(b, len) \o Contents(buf_pop(b, len))
<1> DEFINE c == buf_pop(b, len)
           n == b.size
           m == n - len
           p == b.top
           d == b.data
<1>0. n \in 0..RING  BY RingType
<1>1. /\ d \in [Index -> Nat] /\ p \in 0 .. RING - 1 /\ len \in Nat /\ m \in Nat
      /\ len + m = n /\ len + m <= RING
      /\ len \in 0..RING
  BY <1>0, RingType, RingNat
<1>2. b.tail = Wrap(p + n) /\ Contents(b) = Stretch(d, p, n)
  BY RingType, ContentsIs
<1>3. Capped(b, len) = len
  BY <1>0 DEF Capped
<1>4. /\ c.data = d /\ c.top = Wrap(p + len) /\ c.tail = b.tail /\ c.size = m
      /\ Wrap(p + len) \in Index /\ m \in Nat => c \in Buffer(Nat)
  BY <1>1, <1>3, PopFields
<1>5. Taken(b, len) = Stretch(d, p, len)
  BY <1>3 DEF Taken, Stretch
<1> HIDE DEF c, n, m, p, d
<1>6. Wrap(p + len) \in Index /\ Wrap(Wrap(p + len) + m) = Wrap(p + n)
  <2>1. Wrap(p + len) \in 0..RING - 1  BY <1>1, WrapIs
  <2>2. Wrap(Wrap(p + len) + m) = Wrap(p + (len + m))  BY <1>1, WrapTwice
  <2> QED  BY <1>1, <2>1, <2>2, RingNat
<1>7. IsRing(c)
  <2>1. c \in Buffer(Nat)  BY <1>1, <1>4, <1>6
  <2>2. c.size <= RING  BY <1>1, <1>4, RingNat
  <2> QED  BY <1>2, <1>4, <1>6, <2>1, <2>2 DEF IsRing
<1>8. Contents(c) = Stretch(d, Wrap(p + len), m)
  BY <1>4, <1>7, ContentsIs
<1>9. /\ Stretch(d, p, len) \in Seq(Nat) /\ Len(Stretch(d, p, len)) = len
      /\ Stretch(d, p, len + m) = Stretch(d, p, len) \o Stretch(d, Wrap(p + len), m)
  BY <1>1, StretchPopped
<1>10. Contents(b) = Taken(b, len) \o Contents(c)
  BY <1>1, <1>2, <1>5, <1>8, <1>9
<1> QED  BY <1>4, <1>5, <1>7, <1>9, <1>10 DEF c, n, m

-----------------------------------------------------------------------------
(* What is left of a list of routines.                                     *)

\* All lists of routines that may be left to run.
Left == {<<>>} \cup Polling \cup Servicing

\* The three complete lists.
LEMMA HeadsTails ==
  /\ Head(Poll) = "service_interrupts" /\ Tail(Poll) = <<"mt_udc_irq", "buf_to_ep", "ep_to_buf">>
  /\ Head(Query) = "service_interrupts" /\ Tail(Query) = <<"mt_udc_irq", "ep_to_buf">>
  /\ Head(Service) = "service_interrupts" /\ Tail(Service) = <<"mt_udc_irq">>
  /\ Poll # <<>> /\ Query # <<>> /\ Service # <<>>
BY DEF Poll, Query, Service

\* The others, as tuples.
P3 == <<"mt_udc_irq", "buf_to_ep", "ep_to_buf">>
P2 == <<"buf_to_ep", "ep_to_buf">>
P1 == <<"ep_to_buf">>
Q2 == <<"mt_udc_irq", "ep_to_buf">>
S1 == <<"mt_udc_irq">>

\* How the others run down.
LEMMA Rests ==
  /\ Head(P3) = "mt_udc_irq" /\ Tail(P3) = P2
  /\ Head(Q2) = "mt_udc_irq" /\ Tail(Q2) = P1
  /\ Head(S1) = "mt_udc_irq" /\ Tail(S1) = <<>>
  /\ Head(P2) = "buf_to_ep" /\ Tail(P2) = P1
  /\ Head(P1) = "ep_to_buf" /\ Tail(P1) = <<>>
  /\ P3 # <<>> /\ P2 # <<>> /\ P1 # <<>> /\ Q2 # <<>> /\ S1 # <<>>
BY DEF P3, P2, P1, Q2, S1

\* The sets of UsbTty, with these names.
LEMMA SetsAre ==
  /\ Moving = {P2, P1} /\ Polling = {Poll, P3, Query, Q2} \cup Moving
  /\ Servicing = {Service, S1}
BY HeadsTails, Zenon DEF Moving, Polling, Servicing, P3, P2, P1, Q2, S1

\* Which list the next routine belongs to, and what is left after it.
LEMMA Routines ==
  ASSUME NEW t \in Left, t # <<>>
  PROVE
  /\ Head(t) = "service_interrupts" =>
       /\ t \notin Moving /\ Tail(t) \notin Moving
       /\ t \in Polling => Tail(t) \in Polling
       /\ t \in Servicing => Tail(t) \in Servicing
  /\ Head(t) = "mt_udc_irq" =>
       /\ t \notin Moving
       /\ t \in Polling => Tail(t) \in Moving
       /\ t \in Servicing => Tail(t) = <<>>
  /\ Head(t) = "buf_to_ep" => t \in Moving /\ Tail(t) \in Moving
  /\ Head(t) = "ep_to_buf" => t \in Moving /\ Tail(t) = <<>>
BY HeadsTails, Rests, SetsAre, Zenon DEF Left, P3, Q2, S1

\* Polls and rounds of puts are told apart.
LEMMA Kinds ==
  /\ Moving \subseteq Polling /\ Polling \cap Servicing = {}
  /\ Poll \in Polling /\ Query \in Polling /\ Service \in Servicing
  /\ Poll \notin Moving /\ Query \notin Moving
  /\ <<>> \notin Polling /\ <<>> \notin Servicing
BY HeadsTails, Rests, SetsAre

\* The assumption on the constants, taken apart.
LEMMA Sizes ==
  /\ PACKET \in Nat \ {0} /\ URB \in Nat \ {0} /\ TOKEN \in Nat \ {0} /\ READY \in Nat \ {0}
  /\ ANSWERS \subseteq Nat \ {0} /\ REQUESTS \subseteq Nat \ {0}
  /\ AHEAD \in Nat /\ MAX_OUT \in Nat /\ MAX_IN \in Nat /\ TIMEOUTS \in Nat
BY SizeAssumption DEF SizeAssumption

\* A call of known shape; its piece has a type only with that of the buffers.
Placed(c) == c \in [op : {"none", "send", "recv", "listen"}, at : Places, left : Nat,
                    piece : {c.piece}]

\* Where a call may be, with what left to move, and when routines are left.
Control ==
  /\ Placed(call) /\ todo \in Left
  /\ call.op = "none" <=> call.at = "idle"
  /\ call.at = "idle" => todo = <<>>
  /\ call.op = "send" => call.at \in {"putcn", "flush", "timer"}
  /\ call.op = "recv" => call.at \in {"query", "queried", "getcn"}
  /\ call.op = "listen" => call.at # "putcn" /\ call.left <= TOKEN
  /\ call.at = "putcn" \/ call.op \in {"recv", "listen"} => call.left > 0
  /\ call.at = "puts" => todo \in {<<>>} \cup Servicing
  /\ todo \in Servicing => call.at = "puts"
  /\ call.at = "getcn" => call.piece \in 1..call.left

\* The smaller of two numbers.
LEMMA LeastIs ==
  ASSUME NEW a \in Nat, NEW b \in Nat
  PROVE  /\ Least(a, b) \in Nat /\ Least(a, b) <= a /\ Least(a, b) <= b
         /\ a > 0 /\ b > 0 => Least(a, b) > 0
BY DEF Least

\* It holds at first.
LEMMA InitControl == Init => Control
BY Kinds DEF Init, Idle, Control, Left, Placed, Places

\* Every step keeps it.
LEMMA StepControl == Control /\ input.size \in Nat /\ [Next]_vars => Control'
<1> SUFFICES ASSUME Control, input.size \in Nat, [Next]_vars PROVE Control'
    OBVIOUS
<1> USE Sizes, Kinds
<1>1. CASE service_interrupts
  BY <1>1, Routines DEF service_interrupts, Control, Left, buffers, ends
<1>2. CASE mt_udc_irq
  BY <1>2, Routines DEF mt_udc_irq, Control, Left, buffers, ends
<1>3. CASE buf_to_ep
  BY <1>3, Routines DEF buf_to_ep, Control, Left, buffers, ends
<1>4. CASE ep_to_buf
  <2>1. call' = call /\ todo' = Tail(todo) /\ todo # <<>> /\ Head(todo) = "ep_to_buf"
    BY <1>4 DEF ep_to_buf
  <2>2. todo \in Left
    BY DEF Control
  <2>3. todo' = <<>>
    BY <2>1, <2>2, Routines
  <2> QED
    BY <2>1, <2>3 DEF Control, Left
<1>5. CASE putcn
  <2> DEFINE n == Least(call.left, PACKET)
  <2>1. Placed(call) /\ call.at = "putcn" /\ call.op = "send" /\ call.left > 0
    BY <1>5 DEF putcn, At, Control, Placed
  <2>2. n \in Nat /\ n <= call.left
    BY <2>1, LeastIs DEF Placed
  <2>3. /\ call' = [call EXCEPT !.left = @ - n, !.at = IF call.left = n THEN "flush" ELSE @]
        /\ todo' \in {Poll, <<>>}
    BY <1>5 DEF putcn
  <2> HIDE DEF n
  <2>4. call.left - n \in Nat /\ (call.left # n => call.left - n > 0)
    BY <2>1, <2>2 DEF Placed
  <2>5. /\ Placed(call') /\ call'.op = "send" /\ call'.left = call.left - n
        /\ call'.at = IF call.left = n THEN "flush" ELSE "putcn"
    BY <2>1, <2>3, <2>4 DEF Placed, Places
  <2> QED
    BY <2>3, <2>4, <2>5 DEF Control, Left
<1>6. CASE usbdl_flush
  BY <1>6 DEF usbdl_flush, Control, Left, At, Placed, Places, Flushed, Idle
<1>7. CASE NotYet
  BY <1>7 DEF NotYet, Control, Left, At, Placed, Places
<1>8. CASE puts
  <2> DEFINE n == Least(RING - output.size, call.piece)
  <2>1. Placed(call) /\ call.at = "puts"
    BY <1>8 DEF puts, At, Control
  <2>2. call' = [call EXCEPT !.piece = @ - n] /\ todo' = Service
    BY <1>8 DEF puts
  <2> QED
    BY <2>1, <2>2 DEF Control, Left, Placed, Places
<1>9. CASE PutsDone
  BY <1>9 DEF PutsDone, Control, Left, At, Placed, Places
<1>10. CASE query
  BY <1>10 DEF query, Control, Left, At, Placed, Places
<1>11. CASE Again
  BY <1>11 DEF Again, Control, Left, At, Placed, Places, Puts
<1>12. CASE getcn
  <2> DEFINE n == Least(input.size, call.left)
  <2>1. Placed(call) /\ call.at = "queried" /\ call.left > 0
    BY <1>12 DEF getcn, At, Control, Placed
  <2>2. call' = [call EXCEPT !.at = "getcn", !.piece = n] /\ todo' \in {Poll, <<>>}
    BY <1>12 DEF getcn
  <2>3. call.left \in Nat /\ input.size \in Nat /\ input.size > 0
    BY <1>12, <2>1 DEF getcn, Placed
  <2>4. n \in 1..call.left
    BY <2>1, <2>3 DEF Least
  <2> HIDE DEF n
  <2>5. /\ Placed(call') /\ call'.op = call.op /\ call'.left = call.left
        /\ call'.at = "getcn" /\ call'.piece = n
    BY <2>1, <2>2 DEF Placed, Places
  <2> QED
    BY <2>1, <2>2, <2>4, <2>5 DEF Control, Left
<1>13. CASE pop
  <2> DEFINE l == call.left - call.piece
  <2>1. /\ Placed(call) /\ call.at = "getcn" /\ call.op \in {"recv", "listen"}
        /\ todo' = <<>> /\ call.left \in Nat /\ call.piece \in 1..call.left
        /\ call.op = "listen" => call.left <= TOKEN
    BY <1>13 DEF pop, At, Control, Placed
  <2>2. l \in Nat /\ (call.piece # call.left => l > 0) /\ l <= call.left
    BY <2>1
  <2>3. \/ call' = Idle
        \/ call.op = "listen" /\ l > 0 /\ call' = Puts([call EXCEPT !.left = l])
        \/ l > 0 /\ call' = [call EXCEPT !.at = "query", !.left = l, !.piece = 0]
    BY <1>13, <2>2 DEF pop
  <2> HIDE DEF l
  <2>4. CASE call' = Idle
    BY <2>1, <2>4 DEF Idle, Control, Left, Placed, Places
  <2>5. CASE call.op = "listen" /\ l > 0 /\ call' = Puts([call EXCEPT !.left = l])
    <3>1. /\ Placed(call') /\ call'.op = "listen" /\ call'.at = "puts" /\ call'.left = l
      BY <2>1, <2>2, <2>5 DEF Puts, Placed, Places
    <3> QED
      BY <2>1, <2>2, <2>5, <3>1 DEF Control, Left
  <2>6. CASE l > 0 /\ call' = [call EXCEPT !.at = "query", !.left = l, !.piece = 0]
    <3>1. /\ Placed(call') /\ call'.op = call.op /\ call'.at = "query" /\ call'.left = l
      BY <2>1, <2>2, <2>6 DEF Placed, Places
    <3> QED
      BY <2>1, <2>2, <2>6, <3>1 DEF Control, Left
  <2> QED
    BY <2>3, <2>4, <2>5, <2>6
<1>14. CASE Timeout
  BY <1>14 DEF Timeout, Control, Left, At, Placed, Places, Flushed, Idle
<1>15. CASE Program
  <2>1. ASSUME NEW n \in ANSWERS, usb_send(n) PROVE Control'
    <3>1. n \in Nat /\ n > 0
      OBVIOUS
    <3> QED
      BY <2>1, <3>1 DEF usb_send, Control, Left, At, Placed, Places
  <2>2. ASSUME NEW n \in REQUESTS, usb_recv(n) PROVE Control'
    <3>1. n \in Nat /\ n > 0
      OBVIOUS
    <3> QED
      BY <2>2, <3>1 DEF usb_recv, Control, Left, At, Placed, Places
  <2>3. ASSUME usb_listen PROVE Control'
    <3>1. call' = [op |-> "listen", at |-> "puts", left |-> TOKEN, piece |-> READY] /\ todo' = <<>>
      BY <2>3 DEF usb_listen, Puts, At
    <3> QED
      BY <3>1 DEF Control, Left, Placed, Places
  <2> QED
    BY <1>15, <2>1, <2>2, <2>3 DEF Program
<1>16. CASE HostSends \/ HostReads
  BY <1>16 DEF HostSends, HostReads, Control
<1>17. CASE UNCHANGED vars
  BY <1>17 DEF vars, Control
<1> QED
  BY <1>1, <1>2, <1>3, <1>4, <1>5, <1>6, <1>7, <1>8, <1>9, <1>10, <1>11, <1>12, <1>13,
     <1>14, <1>15, <1>16, <1>17 DEF Next, Routine, Calls

-----------------------------------------------------------------------------
(* Towards the program.                                                    *)

\* Two packets fit into a ring buffer and one into the transfer block; so do a token
\* and what the host sends ahead.  The code has 512, 1024 and 8 bytes.
SizesFit ==
  /\ 2 * PACKET <= RING /\ PACKET <= URB
  /\ AHEAD + TOKEN <= RING /\ AHEAD + TOKEN <= URB

\* No byte of the host is lost or doubled, by count.
Received ==
  /\ IsRing(input) /\ rcv \in Seq(Nat) /\ rxfifo \in Seq(Nat) /\ appGot \in Seq(Nat)
  /\ hostSent \in Nat /\ Len(rxfifo) <= PACKET
  /\ Len(appGot) + input.size + Len(rcv) + Len(rxfifo) = hostSent

\* The host keeps to what was asked for and AHEAD more.
InStock == hostSent <= Asked + AHEAD

\* Bytes stay in the receiving block only until the poll that took them is over, or
\* while usb_listen puts its string; and no piece is counted that is not there.
Held ==
  /\ rcv = <<>> \/ todo \in Moving
      \/ (call.op = "listen" /\ (call.at = "puts" \/ todo \in Polling))
  /\ call.op # "listen" => Len(rcv) <= PACKET
  /\ call.op = "recv" /\ todo # <<>> => input.size < PACKET
  /\ call.at = "getcn" => call.piece <= input.size

\* The invariant of the receiving side.
InInv == Control /\ Received /\ InStock /\ Held

\* The variables of the receiving side.
inVars == <<input, rcv, rxfifo, hostSent, appGot>>

\* It holds at first.
LEMMA InitIn == Init => InInv
<1> SUFFICES ASSUME Init PROVE InInv
    OBVIOUS
<1> DEFINE b == buf_init(0)
<1>1. /\ b.top = 0 /\ b.tail = 0 /\ b.size = 0 /\ b \in Buffer(Nat)
  BY RingNat DEF buf_init, Buffer
<1>2. IsRing(b)
  BY <1>1, RingNat DEF IsRing, Wrap
<1>3. Control
  BY InitControl
<1>4. input = b /\ rcv = <<>> /\ rxfifo = <<>> /\ appGot = <<>> /\ hostSent = 0
      /\ call.op = "none" /\ call.at = "idle"
  BY DEF Init, Idle
<1> HIDE DEF b
<1> QED
  BY <1>1, <1>2, <1>3, <1>4, Sizes DEF InInv, Received, InStock, Asked, Held

\* A step that only changes what the program is doing.
LEMMA CallSteps ==
  ASSUME InInv, Control',
         putcn \/ usbdl_flush \/ NotYet \/ puts \/ PutsDone \/ query \/ Again \/ getcn
           \/ Timeout \/ Program
  PROVE  /\ UNCHANGED inVars
         /\ Asked \in Nat /\ Asked' \in Nat /\ Asked <= Asked'
         /\ Held'
<1> USE Sizes, Kinds
<1>1. CASE putcn
  BY <1>1 DEF putcn, inVars, InInv, Received, Control, Held, Asked, Placed, At
<1>2. CASE usbdl_flush
  <2>1. /\ Placed(call) /\ call.at = "flush" /\ call.op \in {"send", "listen"} /\ todo = <<>>
        /\ UNCHANGED inVars /\ todo' \in {Poll, <<>>}
    BY <1>2 DEF usbdl_flush, At, InInv, Control, Placed, buffers, ends, inVars
  <2>2. \/ call' = [call EXCEPT !.at = "timer"]
        \/ call.op = "listen" /\ call' = [call EXCEPT !.at = "query"]
        \/ call.op = "send" /\ call' = Idle
    BY <1>2, <2>1 DEF usbdl_flush, Flushed
  <2>3. /\ call'.at # "getcn"
        /\ (call'.op = call.op /\ call'.left = call.left) \/ (call'.op = "none" /\ call.op = "send")
    BY <2>1, <2>2 DEF Placed, Idle
  <2>4. rcv = <<>> /\ Len(appGot) \in Nat /\ call.left \in Nat
    BY <2>1 DEF InInv, Held, Received, Placed
  <2> QED
    BY <2>1, <2>3, <2>4 DEF inVars, Held, Asked
<1>3. CASE NotYet
  BY <1>3 DEF NotYet, inVars, InInv, Received, Control, Held, Asked, Placed, At, buffers, ends
<1>4. CASE puts
  BY <1>4 DEF puts, inVars, InInv, Received, Control, Held, Asked, Placed, At
<1>5. CASE PutsDone
  BY <1>5 DEF PutsDone, inVars, InInv, Received, Control, Held, Asked, Placed, At, buffers, ends
<1>6. CASE query
  BY <1>6 DEF query, inVars, InInv, Received, Control, Held, Asked, Placed, At, buffers, ends
<1>7. CASE Again
  BY <1>7 DEF Again, inVars, InInv, Received, Control, Held, Asked, Placed, At, Puts, buffers, ends
<1>8. CASE getcn
  <2> DEFINE n == Least(input.size, call.left)
  <2>1. /\ Placed(call) /\ call.at = "queried" /\ todo = <<>> /\ UNCHANGED inVars
        /\ call' = [call EXCEPT !.at = "getcn", !.piece = n]
        /\ todo' = IF input.size < PACKET THEN Poll ELSE <<>>
    BY <1>8 DEF getcn, At, InInv, Control, buffers, ends, inVars
  <2>2. input.size \in Nat /\ call.left \in Nat /\ Len(appGot) \in Nat
    BY <2>1, RingType DEF InInv, Received, Placed
  <2>3. n <= input.size
    BY <2>2 DEF Least
  <2> HIDE DEF n
  <2>4. /\ call'.op = call.op /\ call'.left = call.left /\ call'.at = "getcn" /\ call'.piece = n
    BY <2>1 DEF Placed, Places
  <2>5. rcv = <<>>
    BY <2>1 DEF InInv, Held
  <2> QED
    BY <2>1, <2>2, <2>3, <2>4, <2>5 DEF inVars, Held, Asked, InInv
<1>9. CASE Timeout
  BY <1>9 DEF Timeout, inVars, InInv, Received, Control, Held, Asked, Placed, At, Flushed, Idle, buffers, ends
<1>10. CASE Program
  <2> DEFINE Begun == /\ call.op = "none" /\ todo = <<>> /\ UNCHANGED inVars /\ todo' = <<>>
                      /\ call'.op # "none" /\ call'.at # "getcn" /\ call'.left \in Nat
  <2>1. ASSUME NEW n \in ANSWERS, usb_send(n) PROVE Begun
    BY <2>1 DEF usb_send, At, inVars, InInv, Control, buffers, ends
  <2>2. ASSUME NEW n \in REQUESTS, usb_recv(n) PROVE Begun
    BY <2>2 DEF usb_recv, At, inVars, InInv, Control, buffers, ends
  <2>3. ASSUME usb_listen PROVE Begun
    <3>1. call' = [op |-> "listen", at |-> "puts", left |-> TOKEN, piece |-> READY]
      BY <2>3 DEF usb_listen, Puts
    <3> QED
      BY <2>3, <3>1 DEF usb_listen, At, inVars, InInv, Control, buffers, ends
  <2> HIDE DEF Begun
  <2>4. Begun
    BY <1>10, <2>1, <2>2, <2>3 DEF Program
  <2>5. Len(appGot) \in Nat /\ rcv = <<>>
    BY <2>4 DEF Begun, InInv, Received, Held
  <2> QED
    BY <2>4, <2>5 DEF Begun, inVars, Held, Asked
<1> QED
  BY <1>1, <1>2, <1>3, <1>4, <1>5, <1>6, <1>7, <1>8, <1>9, <1>10

\* The length of a concatenation.
LEMMA ConcatLen ==
  ASSUME NEW s \in Seq(Nat), NEW t \in Seq(Nat)
  PROVE  s \o t \in Seq(Nat) /\ Len(s \o t) = Len(s) + Len(t)
OBVIOUS

\* The counts of the invariant as numbers.
LEMMA InCounts ==
  ASSUME InInv
  PROVE  /\ Len(appGot) \in Nat /\ input.size \in Nat /\ Len(rcv) \in Nat /\ Len(rxfifo) \in Nat
         /\ hostSent \in Nat /\ call.left \in Nat
         /\ Len(appGot) + input.size + Len(rcv) + Len(rxfifo) = hostSent
         /\ Len(rxfifo) <= PACKET
         /\ call.op \notin {"recv", "listen"} => hostSent <= Len(appGot) + AHEAD
         /\ call.op \in {"recv", "listen"} => hostSent <= Len(appGot) + call.left + AHEAD
         /\ call.op = "listen" => call.left <= TOKEN
<1>1. input.size \in Nat
  BY RingType DEF InInv, Received
<1> QED
  BY <1>1, Sizes DEF InInv, Received, InStock, Asked, Control, Placed

\* Whenever routines are left to run there is room in the ring for what waits in the
\* block: in usb_recv since it polls below one packet only, else since the host waits.
LEMMA InputRoom ==
  ASSUME SizesFit, InInv, todo # <<>>
  PROVE  Room(input, rcv)
<1> DEFINE n == input.size
           m == Len(rcv)
<1>0. n \in Nat /\ m \in Nat /\ Len(rcv) = m /\ input.size = n
  BY InCounts
<1> HIDE DEF n, m
<1>1. CASE call.op = "recv"
  <2>1. n < PACKET /\ m <= PACKET
    BY <1>0, <1>1 DEF InInv, Held
  <2>2. 2 * PACKET <= RING
    BY DEF SizesFit
  <2>3. n + m <= RING
    BY <1>0, <2>1, <2>2, Sizes, RingNat
  <2> QED
    BY <1>0, <2>3 DEF Room
<1>2. CASE call.op = "listen"
  <2>1. n + m <= TOKEN + AHEAD
    BY <1>0, <1>2, InCounts, Sizes
  <2>2. n + m <= RING
    BY <1>0, <2>1, Sizes, RingNat DEF SizesFit
  <2> QED
    BY <1>0, <2>2 DEF Room
<1>3. CASE call.op \notin {"recv", "listen"}
  <2>1. n + m <= AHEAD
    BY <1>0, <1>3, InCounts, Sizes
  <2>2. n + m <= RING
    BY <1>0, <2>1, Sizes, RingNat DEF SizesFit
  <2> QED
    BY <1>0, <2>2 DEF Room
<1> QED
  BY <1>1, <1>2, <1>3

\* The interrupt moves the packet from the FIFO to the end of the block.
LEMMA MtUdcIrqIn ==
  ASSUME InInv, Control', mt_udc_irq
  PROVE  /\ InInv'
         /\ UNCHANGED <<input, appGot>> /\ rcv' \o rxfifo' = rcv \o rxfifo
<1> USE Sizes
<1>1. /\ UNCHANGED <<input, hostSent, appGot, call>> /\ todo # <<>> /\ Head(todo) = "mt_udc_irq"
      /\ todo' = Tail(todo)
      /\ (rcv' = rcv \o rxfifo /\ rxfifo' = <<>>) \/ UNCHANGED <<rcv, rxfifo>>
  BY DEF mt_udc_irq, mt_read_fifo, ends
<1>2. /\ todo \in Left /\ todo \notin Moving
      /\ todo \in Polling => todo' \in Moving
      /\ todo \in Servicing => call.at = "puts" /\ call.op = "listen"
  <2>1. todo \in Left
    BY DEF InInv, Control
  <2>2. todo \in Servicing => call.at = "puts" /\ call.op = "listen"
    BY DEF InInv, Control, Placed
  <2> QED
    BY <1>1, <2>1, <2>2, Routines
<1>3. /\ rcv \in Seq(Nat) /\ rxfifo \in Seq(Nat) /\ Len(rxfifo) <= PACKET
  BY DEF InInv, Received
<1>4. /\ rcv \o rxfifo \in Seq(Nat) /\ Len(rcv \o rxfifo) = Len(rcv) + Len(rxfifo)
  BY <1>3
<1>5. /\ rcv' \in Seq(Nat) /\ rxfifo' \in Seq(Nat) /\ Len(rcv') + Len(rxfifo') = Len(rcv) + Len(rxfifo)
      /\ Len(rcv') <= Len(rcv) + Len(rxfifo) /\ Len(rxfifo') <= PACKET
      /\ rcv' \o rxfifo' = rcv \o rxfifo
  <2> DEFINE z == rcv \o rxfifo
  <2>1. z \in Seq(Nat) /\ Len(z) = Len(rcv) + Len(rxfifo)
    BY <1>4
  <2>2. /\ Len(rcv) \in Nat /\ Len(rxfifo) \in Nat
        /\ (rcv' = z /\ rxfifo' = <<>>) \/ (rcv' = rcv /\ rxfifo' = rxfifo)
    BY <1>1, <1>3
  <2>3. CASE rcv' = rcv /\ rxfifo' = rxfifo
    BY <1>3, <2>2, <2>3
  <2>4. CASE rcv' = z /\ rxfifo' = <<>>
    <3> HIDE DEF z
    <3>1. z \o <<>> = z /\ Len(<<>>) = 0 /\ <<>> \in Seq(Nat)
      BY <2>1
    <3>2. rcv' \o rxfifo' = z /\ Len(rcv') + Len(rxfifo') = Len(z)
      BY <2>1, <2>4, <3>1
    <3> QED
      BY <2>1, <2>2, <2>4, <3>1, <3>2, Sizes DEF z
  <2> QED
    BY <2>2, <2>3, <2>4
<1>6. Received'
  <2>1. Len(rcv') \in Nat /\ Len(rxfifo') \in Nat /\ input' = input /\ appGot' = appGot
    BY <1>1, <1>5
  <2>2. IsRing(input) /\ appGot \in Seq(Nat) /\ hostSent \in Nat
    BY DEF InInv, Received
  <2>3. Len(appGot) + input.size + Len(rcv') + Len(rxfifo') = hostSent
    <3>1. Len(rcv') + Len(rxfifo') = Len(rcv) + Len(rxfifo)
      BY <1>5
    <3>2. /\ Len(appGot) + input.size + Len(rcv) + Len(rxfifo) = hostSent
          /\ Len(appGot) \in Nat /\ input.size \in Nat /\ Len(rcv) \in Nat /\ Len(rxfifo) \in Nat
      BY InCounts
    <3> DEFINE a == Len(appGot)
               b == input.size
               c == Len(rcv)
               d == Len(rxfifo)
               e == Len(rcv')
               f == Len(rxfifo')
    <3>3. /\ a + b + c + d = hostSent /\ e + f = c + d
          /\ a \in Nat /\ b \in Nat /\ c \in Nat /\ d \in Nat /\ e \in Nat /\ f \in Nat
      BY <2>1, <3>1, <3>2
    <3> HIDE DEF a, b, c, d, e, f
    <3>4. a + b + e + f = hostSent
      BY <3>3
    <3> QED
      BY <3>4 DEF a, b, c, d, e, f
  <2> QED
    BY <1>1, <1>5, <2>1, <2>2, <2>3 DEF Received
<1>7. InStock'
  BY <1>1 DEF InInv, InStock, Asked
<1>8. Held'
  <2>1. todo \in Polling \/ todo \in Servicing
    BY <1>1, <1>2 DEF Left
  <2>2. call.op # "listen" => rcv = <<>> /\ todo \in Polling
    BY <1>2, <2>1 DEF InInv, Held
  <2>3. call.op # "listen" => Len(rcv') <= PACKET
    BY <1>3, <1>5, <2>2
  <2> QED
    BY <1>1, <1>2, <2>1, <2>3 DEF InInv, Held
<1> QED
  BY <1>1, <1>5, <1>6, <1>7, <1>8 DEF InInv

\* ep_to_buf moves the block to the end of the ring.
LEMMA EpToBuf ==
  ASSUME SizesFit, InInv, Control', ep_to_buf
  PROVE  /\ InInv'
         /\ UNCHANGED <<rxfifo, appGot>> /\ Contents(input') \o rcv' = Contents(input) \o rcv
         /\ Contents(input') \in Seq(Nat)
<1>1. /\ UNCHANGED <<rxfifo, hostSent, appGot, call>> /\ todo # <<>> /\ Head(todo) = "ep_to_buf"
      /\ todo' = Tail(todo) /\ rcv' = <<>>
      /\ input' = IF rcv # <<>> THEN buf_push(input, rcv) ELSE input
  BY DEF ep_to_buf, ends
<1>2. todo' = <<>>
  <2>1. todo \in Left
    BY DEF InInv, Control
  <2> QED
    BY <1>1, <2>1, Routines
<1>3. /\ rcv \in Seq(Nat) /\ IsRing(input) /\ Room(input, rcv)
  BY <1>1, InputRoom DEF InInv, Received
<1>4. /\ IsRing(input') /\ input'.size = input.size + Len(rcv)
      /\ Contents(input') = Contents(input) \o rcv
  <2>1. CASE rcv # <<>>
    BY <1>1, <1>3, <2>1, PushAppends
  <2>2. CASE rcv = <<>>
    <3>1. Contents(input) \in Seq(Nat) /\ input.size \in Nat
      BY <1>3, ContentsIs, RingType
    <3>2. Contents(input) \o <<>> = Contents(input)
      BY <3>1
    <3> QED
      BY <1>1, <1>3, <2>2, <3>1, <3>2
  <2> QED
    BY <2>1, <2>2
<1>5. Contents(input') \in Seq(Nat)
  BY <1>4, ContentsIs
<1>6. Received'
  BY <1>1, <1>4, InCounts DEF InInv, Received
<1>7. InStock'
  BY <1>1 DEF InInv, InStock, Asked
<1>8. Held'
  <2>1. call'.at = "getcn" => call'.piece <= input'.size
    <3>1. call.at = "getcn" => call.piece \in Nat /\ call.piece <= input.size
      BY InCounts DEF InInv, Held, Control
    <3> QED
      BY <1>1, <1>4, <3>1, InCounts
  <2>2. Len(rcv') <= PACKET
    BY <1>1, Sizes
  <2> QED
    BY <1>1, <1>2, <2>1, <2>2 DEF Held
<1>9. Contents(input') \o rcv' = Contents(input) \o rcv
  BY <1>1, <1>4, <1>5
<1> QED
  BY <1>1, <1>5, <1>6, <1>7, <1>8, <1>9 DEF InInv

\* A piece is taken from the front of the ring.
LEMMA PopIn ==
  ASSUME InInv, Control', pop
  PROVE  /\ InInv'
         /\ UNCHANGED <<rcv, rxfifo>>
         /\ Taken(input, call.piece) \in Seq(Nat)
         /\ Len(Taken(input, call.piece)) = call.piece /\ call.piece > 0 /\ call.piece \in Nat
         /\ appGot' = appGot \o Taken(input, call.piece)
         /\ Contents(input) = Taken(input, call.piece) \o Contents(input')
<1> DEFINE n == call.piece
<1>1. /\ UNCHANGED <<rcv, rxfifo, hostSent, todo>> /\ todo = <<>> /\ call.at = "getcn"
      /\ appGot' = appGot \o Taken(input, n) /\ input' = buf_pop(input, n)
  BY DEF pop, At
<1>2. /\ Placed(call) /\ n \in 1..call.left /\ n <= input.size /\ n \in 0..input.size
      /\ call.op \in {"recv", "listen"} /\ rcv = <<>> /\ IsRing(input)
  <2>1. /\ Placed(call) /\ n \in 1..call.left /\ n <= input.size
        /\ call.op \in {"recv", "listen"} /\ rcv = <<>> /\ IsRing(input)
    BY <1>1, Kinds DEF InInv, Control, Held, Received, Placed
  <2> QED
    BY <2>1, InCounts
<1>3. /\ IsRing(buf_pop(input, n)) /\ buf_pop(input, n).size = input.size - n
      /\ Taken(input, n) \in Seq(Nat) /\ Len(Taken(input, n)) = n
      /\ Contents(input) = Taken(input, n) \o Contents(buf_pop(input, n))
  BY <1>2, PopTakes
<1>4. appGot \in Seq(Nat) /\ appGot' \in Seq(Nat) /\ Len(appGot') = Len(appGot) + n
  <2> DEFINE z == Taken(input, n)
  <2>1. appGot \in Seq(Nat) /\ z \in Seq(Nat) /\ Len(z) = n /\ appGot' = appGot \o z
    BY <1>1, <1>3 DEF InInv, Received
  <2> HIDE DEF z
  <2> QED
    BY <2>1, ConcatLen
<1>5. Asked' = Asked /\ call'.at # "getcn" /\ call'.op \in {"none", call.op}
  <2> DEFINE l == call.left - n
  <2>1. l \in Nat /\ (n = call.left => l = 0) /\ call.left \in Nat /\ n + l = call.left
    BY <1>2 DEF Placed
  <2>2. \/ n = call.left /\ call' = Idle
        \/ call' = Puts([call EXCEPT !.left = l]) /\ call.op = "listen"
        \/ call' = [call EXCEPT !.at = "query", !.left = l, !.piece = 0]
    BY DEF pop
  <2> HIDE DEF l
  <2>3. /\ call'.at # "getcn"
        /\ \/ call'.op = "none" /\ n = call.left
           \/ call'.op = call.op /\ call'.left = l
    <3> DEFINE c == [call EXCEPT !.left = l]
    <3>1. Placed(call)
      BY <1>2
    <3>2. CASE n = call.left /\ call' = Idle
      BY <3>2 DEF Idle
    <3>3. CASE call' = Puts(c)
      <4>1. c.op = call.op /\ c.left = l /\ DOMAIN c = {"op", "at", "left", "piece"}
        BY <3>1 DEF Placed
      <4>2. call' = [c EXCEPT !.at = "puts", !.piece = READY]
        BY <3>3 DEF Puts
      <4> HIDE DEF c
      <4> QED
        BY <4>1, <4>2
    <3>4. CASE call' = [call EXCEPT !.at = "query", !.left = l, !.piece = 0]
      BY <3>1, <3>4 DEF Placed
    <3> QED
      BY <2>2, <3>2, <3>3, <3>4
  <2>4. Asked = Len(appGot) + call.left /\ Len(appGot) \in Nat
    BY <1>2, <1>4 DEF Asked
  <2>5. Asked' = Len(appGot) + call.left
    BY <1>2, <1>4, <2>1, <2>3, <2>4 DEF Asked
  <2> QED
    BY <2>3, <2>4, <2>5
<1>6. Received'
  BY <1>1, <1>2, <1>3, <1>4, InCounts DEF InInv, Received
<1>7. InStock'
  BY <1>1, <1>5 DEF InInv, InStock
<1>8. Held'
  BY <1>1, <1>2, <1>5, Sizes DEF InInv, Held
<1> QED
  BY <1>1, <1>2, <1>3, <1>6, <1>7, <1>8 DEF InInv

\* A run of numbers.
LEMMA NumbersAre ==
  ASSUME NEW m \in Nat, NEW n \in Nat
  PROVE  Numbers(m, n) \in Seq(Nat) /\ Len(Numbers(m, n)) = n
BY DEF Numbers

\* A packet of the host is behind everything it sent before.
LEMMA HostSendsIn ==
  ASSUME InInv, Control', HostSends
  PROVE  /\ InInv'
         /\ \E n \in Nat : n > 0 /\ rxfifo' = Numbers(hostSent, n)
         /\ rxfifo = <<>> /\ UNCHANGED <<input, rcv, appGot>>
<1>1. PICK n \in 1..PACKET :
        /\ rxfifo = <<>> /\ hostSent + n <= Least(MAX_IN, Asked + AHEAD)
        /\ rxfifo' = Numbers(hostSent, n) /\ hostSent' = hostSent + n
        /\ UNCHANGED <<input, rcv, appGot, call, todo>>
  BY DEF HostSends
<1>2. n \in Nat /\ n > 0 /\ n <= PACKET
  BY Sizes
<1>3. Numbers(hostSent, n) \in Seq(Nat) /\ Len(Numbers(hostSent, n)) = n
  BY <1>2, InCounts, NumbersAre
<1>4. Asked' = Asked /\ hostSent + n <= Asked + AHEAD
  <2>1. Asked' = Asked
    BY <1>1 DEF Asked
  <2>2. Len(appGot) \in Nat /\ call.left \in Nat /\ hostSent \in Nat
    BY InCounts
  <2>3. Asked \in Nat
    BY <2>2 DEF Asked
  <2>4. hostSent + n <= Least(MAX_IN, Asked + AHEAD)
    BY <1>1
  <2>5. hostSent + n <= Asked + AHEAD
    <3> HIDE DEF Asked
    <3> QED  BY <1>2, <2>2, <2>3, <2>4, Sizes DEF Least
  <2> QED  BY <2>1, <2>5
<1>5. Received'
  <2>1. IsRing(input') /\ rcv' \in Seq(Nat) /\ appGot' \in Seq(Nat)
    BY <1>1 DEF InInv, Received
  <2>2. rxfifo' \in Seq(Nat) /\ Len(rxfifo') = n
    BY <1>1, <1>3
  <2>3. Len(rxfifo) = 0
    BY <1>1
  <2>4. hostSent' \in Nat /\ Len(appGot') + input'.size + Len(rcv') + Len(rxfifo') = hostSent'
    BY <1>1, <1>2, <2>2, <2>3, InCounts
  <2> QED
    BY <1>2, <2>1, <2>2, <2>4 DEF Received
<1>6. InStock'
  BY <1>1, <1>4 DEF InStock
<1>7. Held'
  BY <1>1 DEF InInv, Held
<1> QED
  BY <1>1, <1>2, <1>5, <1>6, <1>7 DEF InInv

\* Every step keeps the invariant of the receiving side.
LEMMA StepIn ==
  ASSUME SizesFit, InInv, [Next]_vars
  PROVE  InInv'
<1>1. Control'
  BY InCounts, StepControl DEF InInv
<1>2. CASE UNCHANGED <<todo, call, input, rcv, rxfifo, hostSent, appGot>>
  BY <1>2 DEF InInv, Control, Received, InStock, Held, Asked
<1>3. CASE service_interrupts \/ buf_to_ep
  <2>1. /\ UNCHANGED <<call, input, rcv, rxfifo, hostSent, appGot>> /\ todo # <<>>
        /\ Head(todo) \in {"service_interrupts", "buf_to_ep"} /\ todo' = Tail(todo)
    BY <1>3 DEF service_interrupts, buf_to_ep, buffers, ends
  <2>2. todo \in Left
    BY DEF InInv, Control
  <2>3. todo \in Moving => todo' \in Moving
    BY <2>1, <2>2, Routines
  <2>4. todo \in Polling => todo' \in Polling
    BY <2>1, <2>2, Routines, Kinds
  <2> QED
    BY <1>1, <2>1, <2>3, <2>4 DEF InInv, Received, InStock, Held, Asked
<1>4. CASE mt_udc_irq
  BY <1>1, <1>4, MtUdcIrqIn
<1>5. CASE ep_to_buf
  BY <1>1, <1>5, EpToBuf
<1>6. CASE pop
  BY <1>1, <1>6, PopIn
<1>7. CASE HostSends
  BY <1>1, <1>7, HostSendsIn
<1>8. CASE HostReads \/ UNCHANGED vars
  BY <1>2, <1>8 DEF HostReads, vars, buffers, ends
<1>9. CASE putcn \/ usbdl_flush \/ NotYet \/ puts \/ PutsDone \/ query \/ Again \/ getcn
            \/ Timeout \/ Program
  <2>1. UNCHANGED inVars /\ Asked \in Nat /\ Asked' \in Nat /\ Asked <= Asked' /\ Held'
    BY <1>1, <1>9, CallSteps
  <2>2. hostSent' = hostSent /\ hostSent \in Nat /\ hostSent <= Asked + AHEAD
    BY <2>1 DEF inVars, InInv, InStock, Received
  <2>3. InStock'
    <3> DEFINE a == Asked
               b == Asked'
    <3>1. /\ a \in Nat /\ b \in Nat /\ a <= b /\ hostSent' = hostSent /\ hostSent \in Nat
          /\ hostSent <= a + AHEAD /\ AHEAD \in Nat
      BY <2>1, <2>2, Sizes
    <3> HIDE DEF a, b
    <3>2. hostSent' <= b + AHEAD
      BY <3>1
    <3> QED
      BY <3>2 DEF InStock, b
  <2> QED
    BY <1>1, <2>1, <2>3 DEF inVars, InInv, Received
<1> QED
  BY <1>3, <1>4, <1>5, <1>6, <1>7, <1>8, <1>9 DEF Next, Routine, Calls

\* The invariant bounds the block.
LEMMA SmallBlock == SizesFit /\ InInv => ReceiveBlockFits
<1> SUFFICES ASSUME SizesFit, InInv PROVE ReceiveBlockFits
    OBVIOUS
<1>1. CASE call.op = "listen"
  <2> DEFINE m == Len(rcv)
  <2>1. m \in Nat /\ m <= TOKEN + AHEAD
    <3> DEFINE n == input.size
    <3>1. n \in Nat /\ m \in Nat /\ Len(rcv) = m /\ input.size = n
      BY InCounts
    <3> HIDE DEF n, m
    <3>2. n + m <= TOKEN + AHEAD
      BY <1>1, <3>1, InCounts, Sizes
    <3> QED
      BY <3>1, <3>2, Sizes
  <2> HIDE DEF m
  <2>2. m <= URB
    BY <2>1, Sizes DEF SizesFit
  <2> QED
    BY <2>2 DEF ReceiveBlockFits, m
<1>2. CASE call.op # "listen"
  BY <1>2, InCounts, Sizes DEF SizesFit, ReceiveBlockFits, InInv, Held
<1> QED
  BY <1>1, <1>2

\* ReceiveBlockFits: mt_read_fifo appends to the transfer block without asking for room,
\* and never runs over its end, whichever calls leave bytes there.
THEOREM BlockFits == ASSUME SizesFit PROVE Spec => []ReceiveBlockFits
<1>1. Init => InInv
  BY InitIn
<1>2. InInv /\ [Next]_vars => InInv'
  BY StepIn
<1>3. InInv => ReceiveBlockFits
  BY SmallBlock
<1> QED
  BY <1>1, <1>2, <1>3, PTL DEF Spec

\* Concatenation is associative.
LEMMA Assoc ==
  ASSUME NEW s \in Seq(Nat), NEW t \in Seq(Nat), NEW u \in Seq(Nat)
  PROVE  (s \o t) \o u = s \o (t \o u)
OBVIOUS

\* A concatenation cut where it was joined.
LEMMA SplitAt ==
  ASSUME NEW s \in Seq(Nat), NEW t \in Seq(Nat)
  PROVE  /\ Len(s) \in 0..Len(s \o t)
         /\ SubSeq(s \o t, 1, Len(s)) = s
         /\ SubSeq(s \o t, Len(s) + 1, Len(s \o t)) = t
OBVIOUS

\* What is on its way to the program.
InWay == (Contents(input) \o rcv) \o rxfifo

\* Its length is what the counts say.
LEMMA InWayIs ==
  ASSUME InInv
  PROVE  /\ Contents(input) \in Seq(Nat) /\ rcv \in Seq(Nat) /\ rxfifo \in Seq(Nat)
         /\ InWay \in Seq(Nat) /\ Len(appGot) + Len(InWay) = hostSent
<1>1. /\ Contents(input) \in Seq(Nat) /\ Len(Contents(input)) = input.size
      /\ rcv \in Seq(Nat) /\ rxfifo \in Seq(Nat)
  BY ContentsIs DEF InInv, Received
<1> DEFINE c == Contents(input)
           d == c \o rcv
<1>2. c \in Seq(Nat) /\ Len(c) = input.size
  BY <1>1
<1> HIDE DEF c
<1>3. d \in Seq(Nat) /\ Len(d) = input.size + Len(rcv)
  BY <1>1, <1>2, ConcatLen
<1> HIDE DEF d
<1>4. d \o rxfifo \in Seq(Nat) /\ Len(d \o rxfifo) = Len(d) + Len(rxfifo)
  BY <1>1, <1>3, ConcatLen
<1>5. InWay = d \o rxfifo
  BY DEF InWay, c, d
<1>6. Len(InWay) = input.size + Len(rcv) + Len(rxfifo)
  BY <1>3, <1>4, <1>5
<1>7. Len(appGot) + Len(InWay) = hostSent
  <2> HIDE DEF InWay
  <2> QED  BY <1>6, InCounts
<1> QED
  BY <1>1, <1>4, <1>5, <1>7

\* A piece read by the program is a delivery of the queue.
LEMMA InDelivers ==
  ASSUME InInv, InInv', pop
  PROVE  In!Deliver
<1> DEFINE n == call.piece
           x == Taken(input, n)
           c == Contents(input')
           w == (c \o rcv) \o rxfifo
<1>1. /\ UNCHANGED <<rcv, rxfifo>> /\ x \in Seq(Nat) /\ Len(x) = n /\ n > 0 /\ n \in Nat
      /\ appGot' = appGot \o x /\ Contents(input) = x \o c
  BY PopIn DEF InInv
<1>2. c \in Seq(Nat) /\ rcv \in Seq(Nat) /\ rxfifo \in Seq(Nat)
  BY InWayIs, <1>1
<1>3. InWay' = w
  BY <1>1 DEF InWay
<1>4. InWay = ((x \o c) \o rcv) \o rxfifo
  BY <1>1 DEF InWay
<1> HIDE DEF n, x, c
<1>5. (x \o c) \o rcv = x \o (c \o rcv) /\ c \o rcv \in Seq(Nat)
  BY <1>1, <1>2, Assoc, ConcatLen
<1>6. (x \o (c \o rcv)) \o rxfifo = x \o w /\ w \in Seq(Nat)
  <2> DEFINE y == c \o rcv
  <2>1. y \in Seq(Nat)
    BY <1>5
  <2>2. w = y \o rxfifo
    OBVIOUS
  <2> HIDE DEF y, w
  <2>3. (x \o y) \o rxfifo = x \o w /\ w \in Seq(Nat)
    <3>1. x \in Seq(Nat) /\ rxfifo \in Seq(Nat)
      BY <1>1, <1>2
    <3>2. (x \o y) \o rxfifo = x \o (y \o rxfifo) /\ y \o rxfifo \in Seq(Nat)
      BY <2>1, <3>1, Assoc, ConcatLen
    <3> QED
      BY <2>2, <3>2
  <2> QED
    BY <2>3 DEF y
<1>7. InWay = x \o w
  BY <1>4, <1>5, <1>6
<1> HIDE DEF w
<1>8. /\ n \in 0..Len(InWay) /\ SubSeq(InWay, 1, n) = x
      /\ SubSeq(InWay, n + 1, Len(InWay)) = w
  BY <1>1, <1>6, <1>7, SplitAt
<1>9. n \in 1..Len(InWay)
  BY <1>1, <1>8
<1>10. appGot' = appGot \o SubSeq(InWay, 1, n) /\ InWay' = SubSeq(InWay, n + 1, Len(InWay))
  BY <1>1, <1>3, <1>8
<1> QED
  BY <1>9, <1>10 DEF In!Deliver, InWay

\* A packet sent by the host is accepted by the queue.
LEMMA InAccepts ==
  ASSUME InInv, InInv', HostSends
  PROVE  In!Accept
<1> DEFINE c == Contents(input) \o rcv
<1>1. PICK n \in Nat : n > 0 /\ rxfifo' = Numbers(hostSent, n)
  BY HostSendsIn DEF InInv
<1>2. rxfifo = <<>> /\ UNCHANGED <<input, rcv, appGot>>
  BY HostSendsIn DEF InInv
<1>3. InWay = c \o <<>> /\ InWay' = c \o Numbers(hostSent, n) /\ c \in Seq(Nat)
      /\ InWay \in Seq(Nat) /\ Len(appGot) + Len(InWay) = hostSent /\ hostSent \in Nat
  <2>1. c \in Seq(Nat)
    BY InWayIs
  <2> QED
    BY <1>1, <1>2, <2>1, InWayIs, InCounts DEF InWay
<1> HIDE DEF c
<1>4. InWay = c
  BY <1>3
<1>5. Numbers(hostSent, n) \in Seq(Nat) /\ Len(Numbers(hostSent, n)) = n
  BY <1>3, NumbersAre
<1>6. Len(InWay') = Len(InWay) + n /\ Len(InWay) \in Nat
  <2>1. InWay' = c \o Numbers(hostSent, n) /\ c \in Seq(Nat) /\ InWay = c
    BY <1>3, <1>4
  <2> DEFINE z == Numbers(hostSent, n)
  <2>2. z \in Seq(Nat) /\ Len(z) = n /\ InWay' = c \o z
    BY <1>5, <2>1
  <2> HIDE DEF z
  <2>3. Len(c \o z) = Len(c) + Len(z) /\ Len(c) \in Nat
    <3>1. c \in Seq(Nat) /\ z \in Seq(Nat)
      BY <2>1, <2>2
    <3> QED
      BY <3>1, ConcatLen
  <2>4. Len(InWay') = Len(c \o z) /\ Len(InWay) = Len(c) /\ Len(z) = n
    BY <2>1, <2>2
  <2> HIDE DEF InWay
  <2> QED
    BY <2>3, <2>4
<1>7. n = Len(InWay') - Len(InWay) /\ Len(InWay') > Len(InWay)
  BY <1>1, <1>6
<1>8. Numbers(hostSent, n) = In!Fresh(n)
  BY <1>3 DEF Numbers, In!Fresh, InWay
<1>9. InWay' = InWay \o In!Fresh(Len(InWay') - Len(InWay)) /\ UNCHANGED appGot
  BY <1>2, <1>3, <1>4, <1>7, <1>8
<1> QED
  BY <1>7, <1>9 DEF In!Accept, InWay

\* Every step is a step of the queue, or none.
LEMMA InStep ==
  ASSUME SizesFit, InInv, InInv', [Next]_vars
  PROVE  [In!Next]_(In!vars)
<1>1. CASE UNCHANGED <<input, rcv, rxfifo, appGot>>
  BY <1>1 DEF In!vars
<1>2. CASE mt_udc_irq
  <2>1. UNCHANGED <<input, appGot>> /\ rcv' \o rxfifo' = rcv \o rxfifo
    BY <1>2, MtUdcIrqIn DEF InInv
  <2>2. /\ Contents(input) \in Seq(Nat) /\ rcv \in Seq(Nat) /\ rxfifo \in Seq(Nat)
        /\ rcv' \in Seq(Nat) /\ rxfifo' \in Seq(Nat)
    BY InWayIs DEF InInv, Received
  <2>3. InWay = Contents(input) \o (rcv \o rxfifo)
    BY <2>2, Assoc DEF InWay
  <2>4. InWay' = Contents(input) \o (rcv' \o rxfifo')
    BY <2>1, <2>2, Assoc DEF InWay
  <2>5. InWay' = InWay
    BY <2>1, <2>3, <2>4
  <2> QED
    BY <2>1, <2>5 DEF In!vars, InWay
<1>3. CASE ep_to_buf
  BY <1>3, EpToBuf DEF InInv, In!vars
<1>4. CASE pop
  BY <1>4, InDelivers DEF In!Next
<1>5. CASE HostSends
  BY <1>5, InAccepts DEF In!Next
<1>6. CASE putcn \/ usbdl_flush \/ NotYet \/ puts \/ PutsDone \/ query \/ Again \/ getcn
            \/ Timeout \/ Program
  BY <1>1, <1>6, CallSteps DEF InInv, inVars
<1>7. CASE service_interrupts \/ buf_to_ep \/ HostReads \/ UNCHANGED vars
  BY <1>1, <1>7 DEF service_interrupts, buf_to_ep, HostReads, vars, buffers, ends
<1> QED
  BY <1>2, <1>3, <1>4, <1>5, <1>6, <1>7 DEF Next, Routine, Calls

\* The queue starts empty.
LEMMA InStart == Init => In!Init
<1> SUFFICES ASSUME Init PROVE In!Init
    OBVIOUS
<1>1. IsRing(input) /\ input.size = 0 /\ rcv = <<>> /\ rxfifo = <<>> /\ appGot = <<>>
  BY InitIn DEF InInv, Received, Init, buf_init
<1>2. Contents(input) \in Seq(Nat) /\ Len(Contents(input)) = 0
  BY <1>1, ContentsIs
<1>3. Contents(input) = <<>>
  BY <1>2
<1> QED
  BY <1>1, <1>3 DEF In!Init

\* InIsQueue: what the host sends reaches the program complete and in order, through the
\* FIFO, the transfer block and the ring, though ep_to_buf never looks for room.
THEOREM InQueue == ASSUME SizesFit PROVE Spec => InIsQueue
<1>1. Init => InInv
  BY InitIn
<1>2. InInv /\ [Next]_vars => InInv'
  BY StepIn
<1>3. InInv /\ InInv' /\ [Next]_vars => [In!Next]_(In!vars)
  BY InStep
<1>4. Init => In!Init
  BY InStart
<1> QED
  BY <1>1, <1>2, <1>3, <1>4, PTL DEF Spec, InIsQueue, In!Spec

-----------------------------------------------------------------------------
(* The transfer block and the FIFO.                                        *)

\* No more was sent than the block holds.
Sane(t) == t \in Endpoint /\ t.sent <= Len(t.buf)

\* What the endpoint still has to hand to the host.
Line(t) == t.fifo \o Unsent(t)

\* A part of a sequence, element by element.
LEMMA SubSeqIs ==
  ASSUME NEW s \in Seq(Nat), NEW a \in 1 .. Len(s) + 1, NEW b \in 0..Len(s), a <= b + 1
  PROVE  /\ SubSeq(s, a, b) \in Seq(Nat) /\ Len(SubSeq(s, a, b)) = b - a + 1
         /\ \A k \in 1 .. b - a + 1 : SubSeq(s, a, b)[k] = s[a + (k - 1)]
OBVIOUS

\* The first n bytes of what is unsent, and the rest.
LEMMA RestSplit ==
  ASSUME NEW s \in Seq(Nat), NEW a \in 0..Len(s), NEW n \in 0 .. Len(s) - a
  PROVE  LET u == SubSeq(s, a + 1, Len(s))
         IN  /\ SubSeq(u, 1, n) \in Seq(Nat) /\ Len(SubSeq(u, 1, n)) = n
             /\ SubSeq(s, (a + n) + 1, Len(s)) \in Seq(Nat)
             /\ SubSeq(u, 1, n) \o SubSeq(s, (a + n) + 1, Len(s)) = u
<1> DEFINE l == Len(s)
           u == SubSeq(s, a + 1, l)
           p == SubSeq(u, 1, n)
           r == SubSeq(s, (a + n) + 1, l)
           z == p \o r
<1>1. l \in Nat /\ a \in 0..l /\ n \in 0 .. l - a /\ Len(s) = l
  OBVIOUS
<1> HIDE DEF l
<1>2. u \in Seq(Nat) /\ Len(u) = l - a /\ \A k \in 1 .. l - a : u[k] = s[a + k]
  <2>1. a + 1 \in 1 .. l + 1 /\ l \in 0..l /\ a + 1 <= l + 1 /\ l - (a + 1) + 1 = l - a
    BY <1>1
  <2>2. u \in Seq(Nat) /\ Len(u) = l - a /\ \A k \in 1 .. l - a : u[k] = s[(a + 1) + (k - 1)]
    BY <1>1, <2>1, SubSeqIs
  <2> QED
    BY <1>1, <2>2
<1>3. r \in Seq(Nat) /\ Len(r) = l - (a + n) /\ \A k \in 1 .. l - (a + n) : r[k] = s[a + n + k]
  <2>1. /\ (a + n) + 1 \in 1 .. l + 1 /\ l \in 0..l /\ (a + n) + 1 <= l + 1
        /\ l - ((a + n) + 1) + 1 = l - (a + n)
    BY <1>1
  <2>2. /\ r \in Seq(Nat) /\ Len(r) = l - (a + n)
        /\ \A k \in 1 .. l - (a + n) : r[k] = s[((a + n) + 1) + (k - 1)]
    BY <1>1, <2>1, SubSeqIs
  <2> QED
    BY <1>1, <2>2
<1> HIDE DEF u, r
<1>4. p \in Seq(Nat) /\ Len(p) = n /\ \A k \in 1..n : p[k] = u[k]
  <2>1. 1 \in 1 .. Len(u) + 1 /\ n \in 0..Len(u) /\ 1 <= n + 1 /\ n - 1 + 1 = n
    BY <1>1, <1>2
  <2>2. p \in Seq(Nat) /\ Len(p) = n /\ \A k \in 1..n : p[k] = u[1 + (k - 1)]
    BY <1>2, <2>1, SubSeqIs
  <2> QED
    BY <1>1, <2>2
<1> HIDE DEF p
<1>5. /\ z \in Seq(Nat) /\ Len(z) = n + (l - (a + n))
      /\ \A k \in 1..n : z[k] = p[k]
      /\ \A k \in 1 .. l - (a + n) : z[n + k] = r[k]
  <2> DEFINE m == l - (a + n)
  <2>1. /\ p \in Seq(Nat) /\ r \in Seq(Nat) /\ n \in Nat /\ m \in Nat
        /\ Len(p) = n /\ Len(r) = m
    BY <1>1, <1>3, <1>4
  <2> HIDE DEF m
  <2>2. /\ z \in Seq(Nat) /\ Len(z) = n + m
        /\ \A k \in 1..n : z[k] = p[k]
        /\ \A k \in 1..m : z[n + k] = r[k]
    <3>1. p \in Seq(Nat) /\ r \in Seq(Nat)
      BY <2>1
    <3>2. /\ z \in Seq(Nat) /\ Len(z) = Len(p) + Len(r)
          /\ \A k \in 1..Len(p) : z[k] = p[k]
          /\ \A k \in 1..Len(r) : z[Len(p) + k] = r[k]
      BY <3>1, ConcatIs
    <3> HIDE DEF z
    <3>3. Len(p) = n /\ Len(r) = m
      BY <2>1
    <3> QED
      BY <3>2, <3>3
  <2> QED
    BY <2>2 DEF m
<1> HIDE DEF z
<1>6. ASSUME NEW k \in 1 .. l - a PROVE z[k] = u[k]
  <2>1. CASE k <= n
    BY <1>1, <1>4, <1>5, <2>1
  <2>2. CASE k > n
    <3> DEFINE j == k - n
    <3>1. j \in 1 .. l - (a + n) /\ n + j = k /\ a + n + j = a + k
      BY <1>1, <2>2
    <3> HIDE DEF j
    <3>2. z[n + j] = r[j] /\ r[j] = s[a + n + j]
      BY <1>3, <1>5, <3>1
    <3> QED
      BY <1>2, <3>1, <3>2
  <2> QED
    BY <1>1, <2>1, <2>2
<1>7. Len(z) = l - a
  BY <1>1, <1>5
<1>8. z = u
  BY <1>2, <1>5, <1>6, <1>7, SeqEqual
<1> QED
  BY <1>3, <1>4, <1>8 DEF l, u, p, r, z

\* What is appended to the block is appended to what is unsent.
LEMMA RestAppend ==
  ASSUME NEW s \in Seq(Nat), NEW t \in Seq(Nat), NEW a \in 0..Len(s)
  PROVE  /\ a <= Len(s \o t)
         /\ SubSeq(s \o t, a + 1, Len(s \o t)) = SubSeq(s, a + 1, Len(s)) \o t
<1> DEFINE l == Len(s)
           m == Len(t)
           st == s \o t
           u == SubSeq(s, a + 1, l)
           v == SubSeq(st, a + 1, l + m)
           z == u \o t
<1>1. l \in Nat /\ m \in Nat /\ a \in 0..l /\ Len(s) = l /\ Len(t) = m
  OBVIOUS
<1> HIDE DEF l, m
<1>2. /\ st \in Seq(Nat) /\ Len(st) = l + m /\ \A k \in 1..l : st[k] = s[k]
      /\ \A k \in 1..m : st[l + k] = t[k]
  BY <1>1, ConcatIs
<1> HIDE DEF st
<1>3. u \in Seq(Nat) /\ Len(u) = l - a /\ \A k \in 1 .. l - a : u[k] = s[a + k]
  <2>1. a + 1 \in 1 .. l + 1 /\ l \in 0..l /\ a + 1 <= l + 1 /\ l - (a + 1) + 1 = l - a
    BY <1>1
  <2>2. u \in Seq(Nat) /\ Len(u) = l - a /\ \A k \in 1 .. l - a : u[k] = s[(a + 1) + (k - 1)]
    BY <1>1, <2>1, SubSeqIs
  <2> QED
    BY <1>1, <2>2
<1>4. v \in Seq(Nat) /\ Len(v) = l + m - a /\ \A k \in 1 .. l + m - a : v[k] = st[a + k]
  <2>1. /\ a + 1 \in 1 .. l + m + 1 /\ l + m \in 0 .. l + m /\ a + 1 <= l + m + 1
        /\ l + m - (a + 1) + 1 = l + m - a
    BY <1>1
  <2>2. v \in Seq(Nat) /\ Len(v) = l + m - a /\ \A k \in 1 .. l + m - a : v[k] = st[(a + 1) + (k - 1)]
    <3> DEFINE b == a + 1
               e == l + m
    <3>1. st \in Seq(Nat) /\ b \in 1 .. Len(st) + 1 /\ e \in 0..Len(st) /\ b <= e + 1
      BY <1>2, <2>1
    <3>3. v = SubSeq(st, b, e) /\ b = a + 1
      OBVIOUS
    <3>4. e - b + 1 = l + m - a
      BY <1>1
    <3> HIDE DEF b, e, v
    <3>2. /\ SubSeq(st, b, e) \in Seq(Nat) /\ Len(SubSeq(st, b, e)) = e - b + 1
          /\ \A k \in 1 .. e - b + 1 : SubSeq(st, b, e)[k] = st[b + (k - 1)]
      <4>1. /\ SubSeq(st, b, e) \in Seq(Nat) /\ Len(SubSeq(st, b, e)) = e - b + 1
        BY <3>1, SubSeqIs
      <4>2. \A k \in 1 .. e - b + 1 : SubSeq(st, b, e)[k] = st[b + (k - 1)]
        BY <3>1, SubSeqIs
      <4> QED
        BY <4>1, <4>2
    <3> QED
      BY <3>2, <3>3, <3>4
  <2> QED
    BY <1>1, <2>2
<1> HIDE DEF u, v
<1>5. /\ z \in Seq(Nat) /\ Len(z) = (l - a) + m
      /\ \A k \in 1 .. l - a : z[k] = u[k]
      /\ \A k \in 1..m : z[(l - a) + k] = t[k]
  <2> DEFINE n == l - a
  <2>1. /\ u \in Seq(Nat) /\ t \in Seq(Nat) /\ n \in Nat /\ m \in Nat
        /\ Len(u) = n /\ Len(t) = m
    BY <1>1, <1>3
  <2> HIDE DEF n
  <2>2. /\ z \in Seq(Nat) /\ Len(z) = n + m
        /\ \A k \in 1..n : z[k] = u[k]
        /\ \A k \in 1..m : z[n + k] = t[k]
    <3>1. u \in Seq(Nat) /\ t \in Seq(Nat)
      BY <2>1
    <3>2. /\ z \in Seq(Nat) /\ Len(z) = Len(u) + Len(t)
          /\ \A k \in 1..Len(u) : z[k] = u[k]
          /\ \A k \in 1..Len(t) : z[Len(u) + k] = t[k]
      BY <3>1, ConcatIs
    <3> HIDE DEF z
    <3>3. Len(u) = n /\ Len(t) = m
      BY <2>1
    <3> QED
      BY <3>2, <3>3
  <2> QED
    BY <2>2 DEF n
<1> HIDE DEF z
<1>6. ASSUME NEW k \in 1 .. l + m - a PROVE v[k] = z[k]
  <2>1. CASE k <= l - a
    <3>1. k \in 1 .. l - a /\ a + k \in 1..l
      BY <1>1, <2>1
    <3> QED
      BY <1>2, <1>3, <1>4, <1>5, <3>1
  <2>2. CASE k > l - a
    <3> DEFINE j == k - (l - a)
    <3>1. j \in 1..m /\ (l - a) + j = k /\ a + k = l + j
      BY <1>1, <2>2
    <3> HIDE DEF j
    <3>2. z[k] = t[j] /\ v[k] = st[l + j] /\ st[l + j] = t[j]
      BY <1>2, <1>4, <1>5, <3>1
    <3> QED
      BY <3>2
  <2> QED
    BY <1>1, <2>1, <2>2
<1>7. Len(v) = l + m - a /\ Len(z) = l + m - a
  BY <1>1, <1>4, <1>5
<1>8. v = z
  BY <1>4, <1>5, <1>6, <1>7, SeqEqual
<1>9. a <= l + m
  BY <1>1
<1>10. v = SubSeq(st, a + 1, Len(st)) /\ u = SubSeq(s, a + 1, Len(s))
  BY <1>1, <1>2 DEF v, u
<1> QED
  BY <1>2, <1>8, <1>9, <1>10 DEF st, z

\* What an endpoint consists of.
LEMMA EndpointFields ==
  ASSUME NEW t, Sane(t)
  PROVE  /\ t.buf \in Seq(Nat) /\ t.sent \in 0..Len(t.buf) /\ t.last \in 0..PACKET /\ t.fifo \in Seq(Nat)
         /\ Unsent(t) \in Seq(Nat) /\ Len(Unsent(t)) = Len(t.buf) - t.sent
         /\ Line(t) \in Seq(Nat) /\ Len(Line(t)) = Len(t.fifo) + Len(Unsent(t))
<1>1. t.buf \in Seq(Nat) /\ t.sent \in 0..Len(t.buf) /\ t.last \in 0..PACKET /\ t.fifo \in Seq(Nat)
  BY DEF Sane, Endpoint
<1> DEFINE s == t.buf
           a == t.sent
<1>2. s \in Seq(Nat) /\ a \in 0..Len(s)
  BY <1>1
<1> HIDE DEF s, a
<1>3. SubSeq(s, a + 1, Len(s)) \in Seq(Nat) /\ Len(SubSeq(s, a + 1, Len(s))) = Len(s) - a
  <2>1. /\ a + 1 \in 1 .. Len(s) + 1 /\ Len(s) \in 0..Len(s) /\ a + 1 <= Len(s) + 1
        /\ Len(s) - (a + 1) + 1 = Len(s) - a
    BY <1>2
  <2> QED
    BY <1>2, <2>1, SubSeqIs
<1>4. Unsent(t) \in Seq(Nat) /\ Len(Unsent(t)) = Len(t.buf) - t.sent
  BY <1>3 DEF Unsent, s, a
<1>5. Line(t) \in Seq(Nat) /\ Len(Line(t)) = Len(t.fifo) + Len(Unsent(t))
  BY <1>1, <1>4, ConcatLen DEF Line
<1> QED
  BY <1>1, <1>4, <1>5

\* A packet written to an empty FIFO changes nothing of what is to be sent.
LEMMA WriteFifoIs ==
  ASSUME NEW t, Sane(t), ~ mt_ep_busy(t)
  PROVE  Sane(mt_write_fifo(t)) /\ Line(mt_write_fifo(t)) = Line(t)
<1> DEFINE w == mt_write_fifo(t)
           u == Unsent(t)
           n == Least(Len(u), PACKET)
           p == SubSeq(u, 1, n)
<1>1. /\ t \in Endpoint /\ t.buf \in Seq(Nat) /\ t.sent \in 0..Len(t.buf) /\ t.fifo = <<>>
      /\ u \in Seq(Nat) /\ Len(u) = Len(t.buf) - t.sent
  BY EndpointFields DEF Sane, mt_ep_busy
<1>2. n \in 0..Len(u) /\ n <= PACKET
  <2> DEFINE l == Len(u)
  <2>1. l \in Nat /\ PACKET \in Nat
    BY <1>1, Sizes
  <2> HIDE DEF l
  <2>2. Least(l, PACKET) \in 0..l /\ Least(l, PACKET) <= PACKET
    BY <2>1 DEF Least
  <2> QED
    BY <2>2 DEF l
<1>3. w = [t EXCEPT !.fifo = p, !.last = Len(p), !.sent = @ + Len(p)]
  BY Zenon DEF mt_write_fifo
<1> DEFINE s == t.buf
           a == t.sent
           r == SubSeq(s, (a + n) + 1, Len(s))
<1>4. p \in Seq(Nat) /\ Len(p) = n /\ r \in Seq(Nat) /\ p \o r = u
  <2>1. s \in Seq(Nat) /\ a \in 0..Len(s) /\ n \in 0 .. Len(s) - a /\ u = SubSeq(s, a + 1, Len(s))
    BY <1>1, <1>2 DEF Unsent
  <2> HIDE DEF s, a, n, u
  <2> QED
    BY <2>1, RestSplit
<1> HIDE DEF w, n, p, u
<1>5. /\ w.buf = s /\ w.fifo = p /\ w.sent = a + n /\ w.last = n /\ w \in Endpoint
      /\ a + n <= Len(s)
  <2>1. /\ t \in [buf : Seq(Nat), sent : Nat, last : 0..PACKET, fifo : Seq(Nat)]
        /\ s \in Seq(Nat) /\ a \in Nat /\ t.buf = s /\ t.sent = a
    BY <1>1 DEF Endpoint
  <2>2. a + n <= Len(s) /\ n \in 0..PACKET /\ a + n \in Nat
    BY <1>1, <1>2, Sizes
  <2> HIDE DEF s, a
  <2>3. w = [t EXCEPT !.fifo = p, !.last = n, !.sent = a + n]
    BY <1>3, <1>4, <2>1
  <2>4. w.buf = s /\ w.fifo = p /\ w.sent = a + n /\ w.last = n
    BY <2>1, <2>3
  <2>5. w \in [buf : Seq(Nat), sent : Nat, last : 0..PACKET, fifo : Seq(Nat)]
    BY <1>4, <2>1, <2>2, <2>3
  <2> QED
    BY <2>2, <2>4, <2>5 DEF Endpoint
<1>6. Unsent(w) = r
  BY <1>5 DEF Unsent
<1>7. Line(w) = u
  BY <1>4, <1>5, <1>6 DEF Line
<1>8. Line(t) = u
  <2>1. u \in Seq(Nat) /\ Line(t) = <<>> \o u
    BY <1>1 DEF Line, u
  <2> QED
    BY <2>1
<1> QED
  BY <1>5, <1>7, <1>8 DEF Sane, w

\* Nor does emptying a block of which all was sent.
LEMMA FinishedIs ==
  ASSUME NEW t, Sane(t)
  PROVE  Sane(Finished(t)) /\ Line(Finished(t)) = Line(t)
<1>1. CASE Unsent(t) # <<>>
  BY <1>1 DEF Finished
<1>2. CASE Unsent(t) = <<>>
  <2> DEFINE f == [t EXCEPT !.buf = <<>>, !.sent = 0, !.last = 0]
  <2>1. t \in Endpoint /\ f \in Endpoint /\ f.buf = <<>> /\ f.sent = 0 /\ f.fifo = t.fifo
    <3>1. /\ t \in [buf : Seq(Nat), sent : Nat, last : 0..PACKET, fifo : Seq(Nat)]
          /\ <<>> \in Seq(Nat) /\ 0 \in 0..PACKET
      BY Sizes DEF Sane, Endpoint
    <3> QED
      BY <3>1 DEF Endpoint
  <2>2. Finished(t) = f
    BY <1>2 DEF Finished
  <2> HIDE DEF f
  <2>3. Unsent(f) = <<>>
    BY <2>1 DEF Unsent
  <2> QED
    BY <1>2, <2>1, <2>2, <2>3 DEF Sane, Line
<1> QED
  BY <1>1, <1>2

\* Nor does the handler of the interrupt.
LEMMA TransmitIs ==
  ASSUME NEW t, Sane(t)
  PROVE  Sane(TransmitHandler(t)) /\ Line(TransmitHandler(t)) = Line(t)
BY WriteFifoIs, FinishedIs DEF TransmitHandler

\* Nor does a first packet.
LEMMA TriggeredIs ==
  ASSUME NEW t, Sane(t)
  PROVE  Sane(Triggered(t)) /\ Line(Triggered(t)) = Line(t)
BY WriteFifoIs DEF Triggered, mt_ep_write

\* Bytes appended to the block are sent last.
LEMMA AppendIs ==
  ASSUME NEW t, Sane(t), NEW x \in Seq(Nat)
  PROVE  LET b == [t EXCEPT !.buf = @ \o x]
         IN  Sane(b) /\ Line(b) = Line(t) \o x
<1> DEFINE b == [t EXCEPT !.buf = @ \o x]
           s == t.buf
           a == t.sent
<1>1. /\ t \in Endpoint /\ s \in Seq(Nat) /\ a \in 0..Len(s) /\ t.fifo \in Seq(Nat)
      /\ Unsent(t) \in Seq(Nat)
  BY EndpointFields DEF Sane
<1>2. s \o x \in Seq(Nat)
  BY <1>1, ConcatLen
<1>3. b \in Endpoint /\ b.buf = s \o x /\ b.sent = a /\ b.fifo = t.fifo
  BY <1>1, <1>2 DEF Endpoint
<1> HIDE DEF b
<1>4. a <= Len(s \o x) /\ SubSeq(s \o x, a + 1, Len(s \o x)) = SubSeq(s, a + 1, Len(s)) \o x
  <2>1. s \in Seq(Nat) /\ a \in 0..Len(s)
    BY <1>1
  <2> HIDE DEF s, a
  <2> QED
    BY <2>1, RestAppend
<1>5. Unsent(b) = Unsent(t) \o x
  BY <1>3, <1>4 DEF Unsent
<1>6. (t.fifo \o Unsent(t)) \o x = t.fifo \o (Unsent(t) \o x)
  <2> DEFINE f == t.fifo
             u == Unsent(t)
  <2>1. f \in Seq(Nat) /\ u \in Seq(Nat)
    BY <1>1
  <2> HIDE DEF f, u
  <2>2. (f \o u) \o x = f \o (u \o x)
    BY <2>1, Assoc
  <2> QED
    BY <2>2 DEF f, u
<1> QED
  BY <1>3, <1>4, <1>5, <1>6 DEF Sane, Line, b

-----------------------------------------------------------------------------
(* Towards the host.                                                       *)

\* The ring for the host was not pushed beyond its size.
OutputFits == output.size <= RING

\* The invariant of the sending side: no byte is lost or doubled, by count.
OutInv ==
  /\ IsRing(output) /\ Sane(tx) /\ hostGot \in Seq(Nat) /\ accepted \in Nat
  /\ Len(hostGot) + Len(Line(tx)) + output.size = accepted
  /\ call.piece \in Nat

\* The variables of the sending side.
outVars == <<output, tx, hostGot, accepted>>

\* What is on its way to the host.
OutWay == Line(tx) \o Contents(output)

\* Its length is what the counts say.
LEMMA OutWayIs ==
  ASSUME OutInv
  PROVE  /\ Contents(output) \in Seq(Nat) /\ Line(tx) \in Seq(Nat) /\ hostGot \in Seq(Nat)
         /\ Len(Contents(output)) = output.size /\ output.size \in Nat
         /\ OutWay \in Seq(Nat) /\ Len(hostGot) + Len(OutWay) = accepted /\ accepted \in Nat
<1>1. /\ Contents(output) \in Seq(Nat) /\ Len(Contents(output)) = output.size
      /\ output.size \in Nat
  BY ContentsIs, RingType DEF OutInv
<1>2. Line(tx) \in Seq(Nat) /\ hostGot \in Seq(Nat) /\ accepted \in Nat
  BY EndpointFields DEF OutInv
<1> DEFINE c == Contents(output)
           l == Line(tx)
           g == hostGot
<1>3. c \in Seq(Nat) /\ l \in Seq(Nat) /\ g \in Seq(Nat)
  BY <1>1, <1>2
<1>4. Len(g) + Len(l) + Len(c) = accepted
  BY <1>1 DEF OutInv
<1>5. OutWay = l \o c
  BY DEF OutWay
<1> HIDE DEF c, l, g
<1>6. OutWay \in Seq(Nat) /\ Len(OutWay) = Len(l) + Len(c)
  BY <1>3, <1>5, ConcatLen
<1>7. Len(g) \in Nat /\ Len(l) \in Nat /\ Len(c) \in Nat
  BY <1>3
<1>8. Len(g) + Len(OutWay) = accepted
  BY <1>4, <1>6, <1>7
<1> QED
  BY <1>1, <1>2, <1>6, <1>8 DEF g

\* The converse: the sum is the length of what is on the way.
LEMMA OutSum ==
  ASSUME NEW b, IsRing(b), NEW t, Sane(t), NEW g \in Seq(Nat), NEW n \in Nat,
         Len(g) + Len(Line(t) \o Contents(b)) = n
  PROVE  Len(g) + Len(Line(t)) + b.size = n
<1> DEFINE c == Contents(b)
           l == Line(t)
           m == b.size
<1>1. c \in Seq(Nat) /\ Len(c) = m /\ l \in Seq(Nat) /\ m \in Nat
  BY ContentsIs, RingType, EndpointFields
<1> HIDE DEF c, l, m
<1>2. Len(l \o c) = Len(l) + Len(c) /\ Len(l) \in Nat /\ Len(g) \in Nat
  <2>1. l \in Seq(Nat) /\ c \in Seq(Nat) /\ g \in Seq(Nat)
    BY <1>1
  <2>2. Len(l) \in Nat /\ Len(g) \in Nat
    BY <2>1
  <2> QED
    BY <2>1, <2>2, ConcatLen
<1>3. Len(g) + Len(l \o c) = n
  BY Zenon DEF c, l
<1>4. Len(g) + Len(l) + m = n
  BY <1>1, <1>2, <1>3
<1> QED
  BY <1>4 DEF l, m

\* The interrupt changes nothing of what is to be sent.
LEMMA MtUdcIrqOut ==
  ASSUME OutInv, mt_udc_irq
  PROVE  /\ UNCHANGED <<output, hostGot, accepted, call>> /\ Sane(tx') /\ Line(tx') = Line(tx)
<1>1. UNCHANGED <<output, hostGot, accepted, call>> /\ tx' \in {tx, TransmitHandler(tx)}
  BY DEF mt_udc_irq, ends
<1> QED
  BY <1>1, TransmitIs DEF OutInv

\* buf_to_ep moves bytes from the ring to the block, and changes nothing of it either.
LEMMA BufToEpOut ==
  ASSUME OutInv, buf_to_ep
  PROVE  /\ UNCHANGED <<hostGot, accepted, call>> /\ Sane(tx') /\ IsRing(output')
         /\ OutWay' = OutWay /\ output'.size <= output.size
<1> DEFINE n == Least(URB - Len(tx.buf), output.size)
<1>1. UNCHANGED <<hostGot, accepted, call>>
  BY DEF buf_to_ep, ends
<1>2. CASE n > 0
  <2> DEFINE x == Taken(output, n)
             b == [tx EXCEPT !.buf = @ \o x]
             c == Contents(buf_pop(output, n))
             l == Line(tx)
  <2>1. tx' = Triggered(b) /\ output' = buf_pop(output, n)
    BY <1>2 DEF buf_to_ep
  <2>2. n \in 0..output.size
    <3> DEFINE r == URB - Len(tx.buf)
               s == output.size
    <3>1. r \in Int /\ s \in Nat
      BY OutWayIs, EndpointFields, Sizes DEF OutInv
    <3> HIDE DEF r, s
    <3>2. Least(r, s) > 0 => Least(r, s) \in 0..s
      BY <3>1 DEF Least
    <3> QED
      BY <1>2, <3>2 DEF r, s
  <2> HIDE DEF n
  <2>3. /\ IsRing(buf_pop(output, n)) /\ buf_pop(output, n).size = output.size - n
        /\ x \in Seq(Nat) /\ Contents(output) = x \o c
    BY <2>2, PopTakes DEF OutInv
  <2>4. Sane(b) /\ Line(b) = l \o x
    BY <2>3, AppendIs DEF OutInv
  <2>5. Sane(tx') /\ Line(tx') = l \o x
    BY <2>1, <2>4, TriggeredIs
  <2>6. c \in Seq(Nat) /\ l \in Seq(Nat)
    BY <2>3, ContentsIs, OutWayIs
  <2>7. OutWay = l \o (x \o c)
    BY <2>3 DEF OutWay
  <2>8. OutWay' = (l \o x) \o c
    BY <2>1, <2>5 DEF OutWay
  <2> HIDE DEF x, b, c, l
  <2>9. OutWay' = OutWay
    BY <2>3, <2>6, <2>7, <2>8, Assoc
  <2>10. output'.size <= output.size
    BY <2>1, <2>2, <2>3, OutWayIs
  <2> QED
    BY <1>1, <2>1, <2>3, <2>5, <2>9, <2>10
<1>3. CASE ~ (n > 0)
  <2>1. UNCHANGED <<tx, output>>
    BY <1>3 DEF buf_to_ep
  <2> QED
    BY <1>1, <2>1, OutWayIs DEF OutInv, OutWay
<1> QED
  BY <1>2, <1>3

\* What is pushed is sent last.
LEMMA PushOut ==
  ASSUME OutInv, NEW n \in Nat, Push(n), OutputFits', UNCHANGED <<tx, hostGot>>
  PROVE  /\ IsRing(output') /\ output'.size = output.size + n
         /\ OutWay' = OutWay \o Numbers(accepted, n)
         /\ Len(hostGot) + Len(OutWay') = accepted + n
<1> DEFINE x == Numbers(accepted, n)
           l == Line(tx)
           c == Contents(output)
<1>1. output' = buf_push(output, x) /\ accepted' = accepted + n
  BY DEF Push
<1>2. x \in Seq(Nat) /\ Len(x) = n
  BY NumbersAre DEF OutInv
<1>3. l \in Seq(Nat) /\ c \in Seq(Nat) /\ IsRing(output)
  BY OutWayIs DEF OutInv
<1>4. output'.size = output.size + Len(x)
  BY <1>1, <1>2, <1>3, PushFields
<1>5. Room(output, x)
  BY <1>4 DEF Room, OutputFits
<1>6. IsRing(output') /\ Contents(output') = c \o x
  BY <1>1, <1>2, <1>3, <1>5, PushAppends
<1>7. OutWay = l \o c /\ OutWay' = l \o (c \o x)
  BY <1>6 DEF OutWay
<1> HIDE DEF x, l, c
<1>8. OutWay' = OutWay \o x /\ OutWay \in Seq(Nat)
  <2>1. (l \o c) \o x = l \o (c \o x) /\ l \o c \in Seq(Nat)
    <3>1. l \in Seq(Nat) /\ c \in Seq(Nat) /\ x \in Seq(Nat)
      BY <1>2, <1>3
    <3> QED
      BY <3>1, Assoc, ConcatLen
  <2> QED
    BY <1>7, <2>1
<1>9. Len(OutWay') = Len(OutWay) + n
  <2>1. OutWay \in Seq(Nat) /\ x \in Seq(Nat) /\ Len(x) = n /\ OutWay' = OutWay \o x
    BY <1>2, <1>8
  <2> HIDE DEF OutWay
  <2>2. Len(OutWay \o x) = Len(OutWay) + Len(x)
    BY <2>1, ConcatLen
  <2> QED
    BY <2>1, <2>2
<1>10. Len(hostGot) + Len(OutWay) = accepted /\ Len(hostGot) \in Nat /\ Len(OutWay) \in Nat
       /\ accepted \in Nat
  BY OutWayIs
<1>11. Len(hostGot) + Len(OutWay') = accepted + n
  <2> HIDE DEF OutWay
  <2> QED  BY <1>9, <1>10
<1> QED
  BY <1>2, <1>4, <1>6, <1>8, <1>11 DEF x

\* The host takes the packet that comes first.
LEMMA HostReadsOut ==
  ASSUME OutInv, HostReads
  PROVE  /\ UNCHANGED <<output, accepted, call>> /\ Sane(tx') /\ hostGot' \in Seq(Nat)
         /\ tx.fifo \in Seq(Nat) /\ Len(tx.fifo) > 0
         /\ hostGot' = hostGot \o tx.fifo /\ Line(tx) = tx.fifo \o Line(tx')
         /\ Line(tx') \in Seq(Nat)
<1>1. /\ UNCHANGED <<output, accepted, call>> /\ tx.fifo # <<>>
      /\ hostGot' = hostGot \o tx.fifo /\ tx' = [tx EXCEPT !.fifo = <<>>]
  BY DEF HostReads, mt_ep_busy
<1>2. tx \in Endpoint /\ tx.fifo \in Seq(Nat) /\ Unsent(tx) \in Seq(Nat) /\ tx.sent <= Len(tx.buf)
      /\ hostGot \in Seq(Nat)
  BY EndpointFields DEF OutInv, Sane
<1>3. tx' \in Endpoint /\ tx'.buf = tx.buf /\ tx'.sent = tx.sent /\ tx'.fifo = <<>>
  <2>1. tx \in [buf : Seq(Nat), sent : Nat, last : 0..PACKET, fifo : Seq(Nat)] /\ <<>> \in Seq(Nat)
    BY <1>2 DEF Endpoint
  <2>2. tx' \in [buf : Seq(Nat), sent : Nat, last : 0..PACKET, fifo : Seq(Nat)]
    BY <1>1, <2>1
  <2> QED
    BY <1>1, <2>1, <2>2 DEF Endpoint
<1>4. Unsent(tx') = Unsent(tx)
  BY <1>3 DEF Unsent
<1>5. Line(tx') = Unsent(tx)
  <2> DEFINE u == Unsent(tx)
  <2>1. u \in Seq(Nat) /\ Line(tx') = <<>> \o u
    BY <1>2, <1>3, <1>4 DEF Line
  <2> HIDE DEF u
  <2>2. <<>> \o u = u
    BY <2>1
  <2> QED
    BY <2>1, <2>2 DEF u
<1>6. hostGot' \in Seq(Nat) /\ Len(tx.fifo) > 0
  BY <1>1, <1>2, ConcatLen
<1> QED
  BY <1>1, <1>2, <1>3, <1>5, <1>6 DEF Sane, Line

\* The invariant of the sending side holds at first.
LEMMA InitOut == Init => OutInv
<1> SUFFICES ASSUME Init PROVE OutInv
    OBVIOUS
<1> DEFINE b == buf_init(0)
           t == [buf |-> <<>>, sent |-> 0, last |-> 0, fifo |-> <<>>]
<1>1. b.top = 0 /\ b.tail = 0 /\ b.size = 0 /\ b \in Buffer(Nat)
  BY RingNat DEF buf_init, Buffer
<1>2. IsRing(b)
  BY <1>1, RingNat DEF IsRing, Wrap
<1>3. Sane(t) /\ t.fifo = <<>> /\ t.buf = <<>> /\ t.sent = 0
  BY Sizes DEF Sane, Endpoint
<1>4. output = b /\ tx = t /\ hostGot = <<>> /\ accepted = 0 /\ call.piece = 0
  BY DEF Init, Idle
<1> HIDE DEF b, t
<1>5. Len(Line(t)) = 0
  BY <1>3, EndpointFields
<1> QED
  BY <1>1, <1>2, <1>3, <1>4, <1>5 DEF OutInv

\* mt_usbtty_putcn pushes a packet or the rest of the answer, room or not.
LEMMA PutcnPushes ==
  ASSUME Control, putcn
  PROVE  \E n \in Nat : /\ n > 0 /\ n <= call.left /\ Push(n) /\ UNCHANGED <<tx, hostGot, timeouts>>
                        /\ call' = [call EXCEPT !.left = @ - n, !.at = IF call.left = n THEN "flush" ELSE @]
<1> DEFINE n == Least(call.left, PACKET)
<1>1. call.left \in Nat /\ call.left > 0
  BY DEF putcn, At, Control, Placed
<1>2. n \in Nat /\ n > 0 /\ n <= call.left
  BY <1>1, Sizes DEF Least
<1>3. /\ Push(n) /\ UNCHANGED <<tx, hostGot, timeouts>>
      /\ call' = [call EXCEPT !.left = @ - n, !.at = IF call.left = n THEN "flush" ELSE @]
  BY DEF putcn
<1> QED
  BY <1>2, <1>3

\* mt_usbtty_puts pushes what there is room for.
LEMMA PutsPushes ==
  ASSUME Control, OutInv, puts
  PROVE  \E n \in Nat : /\ n <= call.piece /\ output.size + n <= RING
                        /\ Push(n) /\ UNCHANGED <<tx, hostGot, timeouts>>
                        /\ call' = [call EXCEPT !.piece = @ - n]
<1> DEFINE s == output.size
           p == call.piece
           n == Least(RING - s, p)
<1>1. s \in Nat /\ s <= RING /\ p \in Nat
  BY OutWayIs DEF puts, OutInv
<1>2. /\ Push(n) /\ UNCHANGED <<tx, hostGot, timeouts>> /\ call' = [call EXCEPT !.piece = @ - n]
  BY DEF puts
<1>3. n \in Nat /\ n <= p /\ s + n <= RING
  <2> HIDE DEF s, p
  <2> QED
    BY <1>1, RingNat DEF Least
<1> QED
  BY <1>2, <1>3

\* A piece is a number of bytes.
LEMMA PieceNat ==
  ASSUME InInv, OutInv, [Next]_vars
  PROVE  call'.piece \in Nat
<1> USE Sizes
<1>0. Placed(call) /\ Control /\ call.piece \in Nat /\ call.left \in Nat /\ input.size \in Nat
  BY InCounts DEF InInv, OutInv, Control
<1>1. CASE putcn
  <2>1. PICK n \in Nat : call' = [call EXCEPT !.left = @ - n, !.at = IF call.left = n THEN "flush" ELSE @]
    BY <1>0, <1>1, PutcnPushes
  <2> QED
    BY <1>0, <2>1 DEF Placed
<1>2. CASE puts
  <2>1. PICK n \in Nat : n <= call.piece /\ call' = [call EXCEPT !.piece = @ - n]
    BY <1>0, <1>2, PutsPushes
  <2>2. call'.piece = call.piece - n
    BY <1>0, <2>1 DEF Placed
  <2> QED
    BY <1>0, <2>1, <2>2
<1>3. CASE usbdl_flush \/ Timeout \/ NotYet \/ PutsDone \/ query
  <2>1. \/ call' = Idle
        \/ \E a \in Places : call' = [call EXCEPT !.at = a]
    BY <1>3 DEF usbdl_flush, Timeout, NotYet, PutsDone, query, Flushed, Places
  <2> QED
    BY <1>0, <2>1 DEF Placed, Idle
<1>4. CASE Again
  <2>1. \/ call' = [call EXCEPT !.at = "puts", !.piece = READY]
        \/ call' = [call EXCEPT !.at = "query"]
    BY <1>4 DEF Again, Puts
  <2> QED
    BY <1>0, <2>1 DEF Placed
<1>5. CASE getcn
  <2> DEFINE n == Least(input.size, call.left)
  <2>1. n \in Nat /\ call' = [call EXCEPT !.at = "getcn", !.piece = n]
    BY <1>0, <1>5, LeastIs DEF getcn
  <2> HIDE DEF n
  <2> QED
    BY <1>0, <2>1 DEF Placed
<1>6. CASE pop
  <2> DEFINE l == call.left - call.piece
             c == [call EXCEPT !.left = l]
  <2>1. \/ call' = Idle
        \/ call' = Puts(c)
        \/ call' = [call EXCEPT !.at = "query", !.left = l, !.piece = 0]
    BY <1>6 DEF pop
  <2>2. DOMAIN c = {"op", "at", "left", "piece"}
    BY <1>0 DEF Placed
  <2> HIDE DEF c, l
  <2>3. CASE call' = Puts(c)
    <3>1. call' = [c EXCEPT !.at = "puts", !.piece = READY]
      BY <2>3 DEF Puts
    <3> QED
      BY <2>2, <3>1
  <2>4. CASE call' = Idle
    BY <2>4 DEF Idle
  <2>5. CASE call' = [call EXCEPT !.at = "query", !.left = l, !.piece = 0]
    BY <1>0, <2>5 DEF Placed
  <2> QED
    BY <2>1, <2>3, <2>4, <2>5
<1>7. CASE Program
  <2>1. ASSUME NEW n \in ANSWERS, usb_send(n) PROVE call'.piece \in Nat
    BY <2>1 DEF usb_send
  <2>2. ASSUME NEW n \in REQUESTS, usb_recv(n) PROVE call'.piece \in Nat
    BY <2>2 DEF usb_recv
  <2>3. ASSUME usb_listen PROVE call'.piece \in Nat
    <3>1. call' = [op |-> "listen", at |-> "puts", left |-> TOKEN, piece |-> READY]
      BY <2>3 DEF usb_listen, Puts
    <3> QED
      BY <3>1
  <2> QED
    BY <1>7, <2>1, <2>2, <2>3 DEF Program
<1>8. CASE Routine \/ HostSends \/ HostReads \/ UNCHANGED vars
  <2>1. call' = call
    BY <1>8 DEF Routine, service_interrupts, mt_udc_irq, buf_to_ep, ep_to_buf, HostSends, HostReads, vars
  <2> QED
    BY <1>0, <2>1
<1> QED
  BY <1>1, <1>2, <1>3, <1>4, <1>5, <1>6, <1>7, <1>8 DEF Next, Calls

\* Steps that leave the sending side alone keep its invariant.
LEMMA OutSame ==
  ASSUME OutInv, UNCHANGED outVars, call'.piece \in Nat
  PROVE  OutInv' /\ OutWay' = OutWay
BY DEF OutInv, outVars, OutWay

\* The steps that leave the sending side alone.
LEMMA OtherSteps ==
  ASSUME service_interrupts \/ ep_to_buf \/ usbdl_flush \/ NotYet \/ PutsDone \/ query
           \/ Again \/ getcn \/ pop \/ Timeout \/ Program \/ HostSends \/ UNCHANGED vars
  PROVE  UNCHANGED outVars
<1>1. ASSUME NEW n, usb_send(n) \/ usb_recv(n) PROVE UNCHANGED outVars
  BY <1>1 DEF usb_send, usb_recv, buffers, ends, outVars
<1>2. ASSUME usb_listen PROVE UNCHANGED outVars
  BY <1>2 DEF usb_listen, buffers, ends, outVars
<1>3. Program => UNCHANGED outVars
  BY <1>1, <1>2 DEF Program
<1> QED
  BY <1>3 DEF service_interrupts, ep_to_buf, usbdl_flush, NotYet, PutsDone, query, Again, getcn,
     pop, Timeout, HostSends, vars, buffers, ends, outVars

\* So do pushes that fit.
LEMMA Pushed ==
  ASSUME OutInv, NEW n \in Nat, Push(n), OutputFits', UNCHANGED <<tx, hostGot>>, call'.piece \in Nat
  PROVE  OutInv'
<1>1. IsRing(output') /\ output'.size = output.size + n /\ accepted' = accepted + n
  BY PushOut DEF Push
<1>2. tx' = tx /\ hostGot' = hostGot /\ Sane(tx) /\ hostGot \in Seq(Nat) /\ accepted \in Nat
      /\ Len(Line(tx)) \in Nat /\ Len(hostGot) \in Nat
  BY EndpointFields DEF OutInv
<1>3. Len(hostGot) + Len(Line(tx)) + output.size = accepted /\ output.size \in Nat
  BY OutWayIs DEF OutInv
<1> DEFINE a == Len(hostGot)
           b == Len(Line(tx))
           c == output.size
<1>4. a \in Nat /\ b \in Nat /\ c \in Nat /\ a + b + c = accepted /\ output'.size = c + n
  BY <1>1, <1>2, <1>3
<1> HIDE DEF a, b, c
<1>5. a + b + output'.size = accepted + n
  BY <1>1, <1>2, <1>4
<1> QED
  BY <1>1, <1>2, <1>5 DEF OutInv, a, b

\* Every step that does not overrun the ring keeps the invariant of the sending side.
LEMMA StepOut ==
  ASSUME InInv, OutInv, OutputFits', [Next]_vars
  PROVE  OutInv'
<1>1. call'.piece \in Nat
  BY PieceNat
<1>2. CASE putcn
  BY <1>1, <1>2, PutcnPushes, Pushed DEF InInv
<1>3. CASE puts
  BY <1>1, <1>3, PutsPushes, Pushed DEF InInv
<1>4. CASE mt_udc_irq
  BY <1>1, <1>4, MtUdcIrqOut DEF OutInv
<1>5. CASE buf_to_ep
  <2>1. /\ UNCHANGED <<hostGot, accepted>> /\ Sane(tx') /\ IsRing(output') /\ OutWay' = OutWay
    BY <1>5, BufToEpOut
  <2>2. hostGot \in Seq(Nat) /\ accepted \in Nat /\ Len(hostGot) + Len(OutWay) = accepted
    BY OutWayIs
  <2>3. Len(hostGot) + Len(Line(tx') \o Contents(output')) = accepted
    BY <2>1, <2>2 DEF OutWay
  <2>4. Len(hostGot) + Len(Line(tx')) + output'.size = accepted
    BY <2>1, <2>2, <2>3, OutSum
  <2> QED
    BY <1>1, <2>1, <2>2, <2>4 DEF OutInv
<1>6. CASE HostReads
  <2>1. /\ UNCHANGED <<output, accepted>> /\ Sane(tx') /\ hostGot' \in Seq(Nat)
        /\ tx.fifo \in Seq(Nat) /\ hostGot' = hostGot \o tx.fifo
        /\ Line(tx) = tx.fifo \o Line(tx') /\ Line(tx') \in Seq(Nat) /\ hostGot \in Seq(Nat)
    BY <1>6, HostReadsOut DEF OutInv
  <2>2. Len(hostGot') = Len(hostGot) + Len(tx.fifo)
    BY <2>1, ConcatLen
  <2>3. Len(Line(tx)) = Len(tx.fifo) + Len(Line(tx'))
    BY <2>1, ConcatLen
  <2>4. /\ Len(hostGot) + Len(Line(tx)) + output.size = accepted /\ output.size \in Nat
        /\ Len(hostGot) \in Nat /\ Len(tx.fifo) \in Nat /\ Len(Line(tx')) \in Nat
        /\ IsRing(output) /\ accepted \in Nat
    BY <2>1, OutWayIs DEF OutInv
  <2> DEFINE a == Len(hostGot)
             b == Len(tx.fifo)
             c == Len(Line(tx'))
             d == output.size
  <2>5. a + (b + c) + d = accepted /\ a \in Nat /\ b \in Nat /\ c \in Nat /\ d \in Nat
    BY <2>3, <2>4
  <2> HIDE DEF a, b, c, d
  <2>6. (a + b) + c + d = accepted
    BY <2>5
  <2>7. Len(hostGot') + Len(Line(tx')) + output'.size = accepted
    BY <2>1, <2>2, <2>6 DEF a, b, c, d
  <2> QED
    BY <1>1, <2>1, <2>4, <2>7 DEF OutInv
<1>7. CASE service_interrupts \/ ep_to_buf \/ usbdl_flush \/ NotYet \/ PutsDone \/ query
           \/ Again \/ getcn \/ pop \/ Timeout \/ Program \/ HostSends \/ UNCHANGED vars
  BY <1>1, <1>7, OtherSteps, OutSame
<1> QED
  BY <1>2, <1>3, <1>4, <1>5, <1>6, <1>7 DEF Next, Routine, Calls

\* The queue starts empty.
LEMMA OutStart == Init => Out!Init
<1> SUFFICES ASSUME Init PROVE Out!Init
    OBVIOUS
<1>1. OutInv /\ accepted = 0 /\ hostGot = <<>>
  BY InitOut DEF Init
<1>2. OutWay \in Seq(Nat) /\ Len(OutWay) = 0
  BY <1>1, OutWayIs
<1>3. OutWay = <<>>
  BY <1>2
<1> QED
  BY <1>1, <1>3 DEF Out!Init, OutWay, Line

\* Bytes pushed are accepted by the queue.
LEMMA OutAccepts ==
  ASSUME OutInv, NEW n \in Nat, Push(n), OutputFits', UNCHANGED <<tx, hostGot>>
  PROVE  Out!Accept \/ UNCHANGED <<OutWay, hostGot>>
<1> DEFINE x == Numbers(accepted, n)
<1>1. /\ OutWay' = OutWay \o x /\ Len(hostGot) + Len(OutWay') = accepted + n
      /\ Len(hostGot) + Len(OutWay) = accepted /\ accepted \in Nat /\ OutWay \in Seq(Nat)
      /\ hostGot \in Seq(Nat) /\ hostGot' = hostGot
  BY PushOut, OutWayIs
<1>2. x \in Seq(Nat) /\ Len(x) = n
  BY <1>1, NumbersAre
<1>3. CASE n = 0
  <2>1. x = <<>>
    BY <1>2, <1>3
  <2> HIDE DEF x, OutWay
  <2>2. OutWay' = OutWay
    BY <1>1, <2>1
  <2> QED
    BY <1>1, <2>2
<1>4. CASE n > 0
  <2>1. Len(OutWay') = Len(OutWay) + n /\ Len(OutWay) \in Nat
    <3>1. OutWay \in Seq(Nat) /\ x \in Seq(Nat)
      BY <1>1, <1>2
    <3>2. Len(OutWay \o x) = Len(OutWay) + Len(x) /\ Len(OutWay) \in Nat
      BY <3>1, ConcatLen
    <3> HIDE DEF OutWay, x
    <3> QED
      BY <1>1, <1>2, <3>2
  <2>2. n = Len(OutWay') - Len(OutWay) /\ Len(OutWay') > Len(OutWay)
    BY <1>4, <2>1
  <2>3. x = Out!Fresh(n)
    BY <1>1 DEF Numbers, Out!Fresh, OutWay, Line
  <2> HIDE DEF x
  <2>4. OutWay' = OutWay \o Out!Fresh(Len(OutWay') - Len(OutWay)) /\ hostGot' = hostGot
    BY <1>1, <2>2, <2>3
  <2> QED
    BY <2>2, <2>4 DEF Out!Accept, OutWay, Line
<1> QED
  BY <1>3, <1>4

\* A packet read by the host is a delivery of the queue.
LEMMA OutDelivers ==
  ASSUME OutInv, HostReads
  PROVE  Out!Deliver
<1> DEFINE n == Len(tx.fifo)
           w == Line(tx') \o Contents(output)
<1>1. /\ UNCHANGED output /\ tx.fifo \in Seq(Nat) /\ n > 0
      /\ hostGot' = hostGot \o tx.fifo /\ Line(tx) = tx.fifo \o Line(tx')
      /\ Line(tx') \in Seq(Nat)
  BY HostReadsOut
<1>2. Contents(output) \in Seq(Nat) /\ OutWay' = w
  BY <1>1, OutWayIs DEF OutWay
<1> DEFINE f == tx.fifo
           l == Line(tx')
           c == Contents(output)
<1>3. f \in Seq(Nat) /\ l \in Seq(Nat) /\ c \in Seq(Nat) /\ OutWay = (f \o l) \o c /\ w = l \o c
      /\ n = Len(f)
  BY <1>1, <1>2 DEF OutWay
<1> HIDE DEF f, l, c, w, n
<1>4. (f \o l) \o c = f \o (l \o c) /\ l \o c \in Seq(Nat)
  <2>1. f \in Seq(Nat) /\ l \in Seq(Nat) /\ c \in Seq(Nat)
    BY <1>3
  <2> QED
    BY <2>1, Assoc, ConcatLen
<1>5. OutWay = f \o w /\ w \in Seq(Nat)
  BY <1>3, <1>4
<1>6. /\ n \in 0..Len(OutWay) /\ SubSeq(OutWay, 1, n) = f
      /\ SubSeq(OutWay, n + 1, Len(OutWay)) = w
  <2>1. f \in Seq(Nat) /\ w \in Seq(Nat)
    BY <1>3, <1>5
  <2>2. /\ Len(f) \in 0..Len(f \o w) /\ SubSeq(f \o w, 1, Len(f)) = f
        /\ SubSeq(f \o w, Len(f) + 1, Len(f \o w)) = w
    BY <2>1, SplitAt
  <2>3. OutWay = f \o w /\ n = Len(f)
    BY <1>3, <1>5
  <2> HIDE DEF OutWay
  <2> QED
    BY <2>2, <2>3
<1>7. n \in 1..Len(OutWay)
  BY <1>1, <1>6
<1>8. hostGot' = hostGot \o SubSeq(OutWay, 1, n) /\ OutWay' = SubSeq(OutWay, n + 1, Len(OutWay))
  BY <1>1, <1>2, <1>6 DEF f
<1> QED
  BY <1>7, <1>8 DEF Out!Deliver, OutWay, Line

\* Every step is a step of the queue, or none.
LEMMA OutStep ==
  ASSUME InInv, OutInv, OutInv', [Next]_vars
  PROVE  [Out!Next]_(Out!vars)
<1>0. OutputFits'
  BY DEF OutInv, IsRing, OutputFits
<1>1. ASSUME UNCHANGED <<OutWay, hostGot>> PROVE UNCHANGED Out!vars
  BY <1>1 DEF Out!vars, OutWay, Line
<1>2. CASE putcn
  BY <1>0, <1>1, <1>2, PutcnPushes, OutAccepts DEF InInv, Out!Next
<1>3. CASE puts
  BY <1>0, <1>1, <1>3, PutsPushes, OutAccepts DEF InInv, Out!Next
<1>4. CASE mt_udc_irq
  BY <1>1, <1>4, MtUdcIrqOut DEF OutWay
<1>5. CASE buf_to_ep
  BY <1>1, <1>5, BufToEpOut
<1>6. CASE HostReads
  BY <1>6, OutDelivers DEF Out!Next
<1>7. CASE service_interrupts \/ ep_to_buf \/ usbdl_flush \/ NotYet \/ PutsDone \/ query
           \/ Again \/ getcn \/ pop \/ Timeout \/ Program \/ HostSends \/ UNCHANGED vars
  BY <1>1, <1>7, OtherSteps DEF outVars, OutWay
<1> QED
  BY <1>2, <1>3, <1>4, <1>5, <1>6, <1>7 DEF Next, Routine, Calls

\* OutIsQueue, given that the ring is not overrun: what the program sends reaches the host
\* complete and in order, however packets, polls and flushes that give up interleave.
THEOREM OutQueue == ASSUME SizesFit PROVE Spec /\ []OutputFits => OutIsQueue
<1>1. Init => InInv /\ OutInv
  BY InitIn, InitOut
<1>2. InInv /\ OutInv /\ OutputFits' /\ [Next]_vars => InInv' /\ OutInv'
  BY StepIn, StepOut
<1>3. InInv /\ OutInv /\ OutInv' /\ [Next]_vars => [Out!Next]_(Out!vars)
  BY OutStep
<1>4. Init => Out!Init
  BY OutStart
<1> QED
  BY <1>1, <1>2, <1>3, <1>4, PTL DEF Spec, OutIsQueue, Out!Spec

-----------------------------------------------------------------------------
(* The backlog of answers.                                                 *)

\* No answer, READY among them, is longer than K, and the ring holds one for each flush
\* that gives up and one more.
AnswersFit(K) ==
  /\ K \in Nat /\ READY <= K /\ \A n \in ANSWERS : n <= K
  /\ (TIMEOUTS + 1) * K <= RING

\* Each flush that gave up left at most K bytes behind; the answer in hand adds to them.
Backlog(K) ==
  /\ timeouts \in 0..TIMEOUTS
  /\ call.at \in {"idle", "query", "queried", "getcn"} => output.size <= timeouts * K
  /\ call.at = "putcn" => output.size + call.left <= timeouts * K + K
  /\ call.at = "puts" => output.size + call.piece <= timeouts * K + K
  /\ call.at \in {"flush", "timer"} => output.size <= timeouts * K + K

\* The one product, as the sums it is made of.
LEMMA ProductIs ==
  ASSUME NEW K \in Nat, (TIMEOUTS + 1) * K <= RING, NEW t \in 0..TIMEOUTS
  PROVE  t * K \in Nat /\ (t + 1) * K = t * K + K /\ t * K + K <= RING
<1>1. t \in Nat /\ TIMEOUTS \in Nat /\ t <= TIMEOUTS
  BY Sizes
<1>2. t * K \in Nat /\ (t + 1) * K = t * K + K
  BY <1>1
<1>3. (t + 1) * K <= (TIMEOUTS + 1) * K
  <2>1. \E d \in Nat : TIMEOUTS = t + d
    <3>1. TIMEOUTS - t \in Nat /\ TIMEOUTS = t + (TIMEOUTS - t)
      BY <1>1
    <3> QED
      BY <3>1
  <2>2. PICK d \in Nat : TIMEOUTS = t + d
    BY <2>1
  <2>3. (TIMEOUTS + 1) * K = (t + 1) * K + d * K
    BY <1>1, <2>2
  <2>4. d * K \in Nat /\ (t + 1) * K \in Nat
    BY <1>1
  <2> QED
    BY <2>3, <2>4
<1>4. (TIMEOUTS + 1) * K \in Nat
  BY <1>1
<1> QED
  BY <1>2, <1>3, <1>4, RingNat

\* Nothing is left behind at first.
LEMMA InitBacklog == ASSUME NEW K, AnswersFit(K) PROVE Init => Backlog(K)
<1> SUFFICES ASSUME Init PROVE Backlog(K)
    OBVIOUS
<1>1. timeouts = 0 /\ call.at = "idle" /\ output.size = 0
  BY DEF Init, Idle, buf_init
<1>2. 0 * K = 0
  BY DEF AnswersFit
<1> QED
  BY <1>1, <1>2, Sizes DEF Backlog

\* What the bound is at each place, with d for timeouts * K.
Within(K, d, at, size, left, piece) ==
  /\ at \in {"idle", "query", "queried", "getcn"} => size <= d
  /\ at = "putcn" => size + left <= d + K
  /\ at = "puts" => size + piece <= d + K
  /\ at \in {"flush", "timer"} => size <= d + K

\* Backlog with that form.
LEMMA BacklogIs ==
  ASSUME NEW K
  PROVE  Backlog(K) <=> /\ timeouts \in 0..TIMEOUTS
                        /\ Within(K, timeouts * K, call.at, output.size, call.left, call.piece)
BY Zenon DEF Backlog, Within

\* The steps of a call that move no byte keep within the bound.
LEMMA CallWithin ==
  ASSUME NEW K, AnswersFit(K), InInv, OutInv, NEW d \in Nat,
         Within(K, d, call.at, output.size, call.left, call.piece),
         usbdl_flush \/ NotYet \/ PutsDone \/ query \/ Again \/ getcn \/ pop \/ Program
  PROVE  /\ Within(K, d, call'.at, output.size, call'.left, call'.piece)
         /\ UNCHANGED <<output, timeouts>>
<1> DEFINE s == output.size
<1>0. /\ Placed(call) /\ Control /\ call.left \in Nat /\ call.piece \in Nat /\ s \in Nat
      /\ K \in Nat /\ READY <= K /\ READY \in Nat
  BY OutWayIs, Sizes DEF InInv, OutInv, Control, Placed, AnswersFit
<1>f. UNCHANGED <<output, timeouts>>
  <2>1. ASSUME NEW n, usb_send(n) \/ usb_recv(n) PROVE UNCHANGED <<output, timeouts>>
    BY <2>1 DEF usb_send, usb_recv, buffers
  <2>2. usb_listen => UNCHANGED <<output, timeouts>>
    BY DEF usb_listen, buffers
  <2>3. Program => UNCHANGED <<output, timeouts>>
    BY <2>1, <2>2 DEF Program
  <2> QED
    BY <2>3 DEF usbdl_flush, NotYet, PutsDone, query, Again, getcn, pop, buffers
<1>1. CASE usbdl_flush
  <2>1. call.at = "flush" /\ s <= d + K
    BY <1>1 DEF usbdl_flush, At, Within
  <2>2. \/ call' = [call EXCEPT !.at = "timer"]
        \/ s = 0 /\ (call' = Idle \/ call' = [call EXCEPT !.at = "query"])
    BY <1>0, <1>1 DEF usbdl_flush, Unflushed, Flushed
  <2>3. call'.at = "timer" \/ (s = 0 /\ call'.at \in {"idle", "query"})
    BY <1>0, <2>2 DEF Idle, Placed
  <2> HIDE DEF s
  <2>4. Within(K, d, call'.at, s, call'.left, call'.piece)
    BY <1>0, <2>1, <2>3 DEF Within
  <2> QED
    BY <1>f, <2>4 DEF s
<1>2. CASE NotYet \/ PutsDone
  <2>1. call.at = "timer" \/ (call.at = "puts" /\ call.piece = 0)
    BY <1>2 DEF NotYet, PutsDone, At
  <2>2. call'.at = "flush"
    BY <1>0, <1>2 DEF NotYet, PutsDone, Placed
  <2>3. s <= d + K
    BY <1>0, <2>1 DEF Within
  <2> HIDE DEF s
  <2>4. Within(K, d, call'.at, s, call'.left, call'.piece)
    BY <1>0, <2>2, <2>3 DEF Within
  <2> QED
    BY <1>f, <2>4 DEF s
<1>3. CASE query \/ getcn \/ Again \/ pop
  <2>1. call.at \in {"query", "queried", "getcn"}
    BY <1>3 DEF query, getcn, Again, pop, At
  <2>2. s <= d
    BY <2>1 DEF Within
  <2>3. call'.at \in {"idle", "query", "queried", "getcn"} \/ (call'.at = "puts" /\ call'.piece = READY)
    <3>1. CASE query
      BY <1>0, <3>1 DEF query, Placed
    <3>2. CASE getcn
      BY <1>0, <3>2 DEF getcn, Placed
    <3>3. CASE Again
      <4>1. \/ call' = [call EXCEPT !.at = "puts", !.piece = READY]
            \/ call' = [call EXCEPT !.at = "query"]
        BY <3>3 DEF Again, Puts
      <4> QED
        BY <1>0, <4>1 DEF Placed
    <3>4. CASE pop
      <4> DEFINE l == call.left - call.piece
                 c == [call EXCEPT !.left = l]
      <4>1. \/ call' = Idle
            \/ call' = Puts(c)
            \/ call' = [call EXCEPT !.at = "query", !.left = l, !.piece = 0]
        BY <3>4 DEF pop
      <4>2. DOMAIN c = {"op", "at", "left", "piece"}
        BY <1>0 DEF Placed
      <4> HIDE DEF c, l
      <4>3. CASE call' = Puts(c)
        <5>1. call' = [c EXCEPT !.at = "puts", !.piece = READY]
          BY <4>3 DEF Puts
        <5> QED
          BY <4>2, <5>1
      <4>4. CASE call' = Idle
        BY <4>4 DEF Idle
      <4>5. CASE call' = [call EXCEPT !.at = "query", !.left = l, !.piece = 0]
        BY <1>0, <4>5 DEF Placed
      <4> QED
        BY <4>1, <4>3, <4>4, <4>5
    <3> QED
      BY <1>3, <3>1, <3>2, <3>3, <3>4
  <2> HIDE DEF s
  <2>4. Within(K, d, call'.at, s, call'.left, call'.piece)
    BY <1>0, <2>2, <2>3 DEF Within
  <2> QED
    BY <1>f, <2>4 DEF s
<1>4. CASE Program
  <2> DEFINE Begun == /\ call.at = "idle"
                      /\ \/ call'.at = "query"
                         \/ call'.at = "puts" /\ call'.piece = READY
                         \/ call'.at = "putcn" /\ call'.left \in Nat /\ call'.left <= K
  <2>1. Begun
    <3>1. ASSUME NEW n \in ANSWERS, usb_send(n) PROVE Begun
      <4>1. n \in Nat /\ n <= K
        BY Sizes DEF AnswersFit
      <4> QED
        BY <3>1, <4>1 DEF usb_send, At
    <3>2. ASSUME NEW n \in REQUESTS, usb_recv(n) PROVE Begun
      BY <3>2 DEF usb_recv, At
    <3>3. ASSUME usb_listen PROVE Begun
      <4>1. call' = [op |-> "listen", at |-> "puts", left |-> TOKEN, piece |-> READY]
        BY <3>3 DEF usb_listen, Puts
      <4> QED
        BY <3>3, <4>1 DEF usb_listen, At
    <3> HIDE DEF Begun
    <3> QED
      BY <1>4, <3>1, <3>2, <3>3 DEF Program
  <2>2. s <= d
    BY <2>1 DEF Within
  <2> HIDE DEF s
  <2>4. Within(K, d, call'.at, s, call'.left, call'.piece)
    BY <1>0, <2>1, <2>2 DEF Within
  <2> QED
    BY <1>f, <2>4 DEF s
<1> QED
  BY <1>1, <1>2, <1>3, <1>4

\* The count after a push, whether it fits or not.
LEMMA PushSize ==
  ASSUME OutInv, NEW n \in Nat, Push(n)
  PROVE  output'.size = output.size + n
<1>1. Numbers(accepted, n) \in Seq(Nat) /\ Len(Numbers(accepted, n)) = n
  BY NumbersAre DEF OutInv
<1> QED
  <2> DEFINE x == Numbers(accepted, n)
  <2>1. x \in Seq(Nat) /\ Len(x) = n /\ IsRing(output) /\ output' = buf_push(output, x)
    BY <1>1 DEF Push, OutInv
  <2> HIDE DEF x
  <2>2. buf_push(output, x).size = output.size + Len(x)
    BY <2>1, PushFields
  <2> QED
    BY <2>1, <2>2

\* Every step keeps the bound.
LEMMA StepBacklog ==
  ASSUME NEW K, AnswersFit(K), InInv, OutInv, Backlog(K), [Next]_vars
  PROVE  Backlog(K)' /\ output'.size \in Nat
<1> DEFINE d == timeouts * K
           s == output.size
<1>1. /\ timeouts \in 0..TIMEOUTS /\ d \in Nat /\ (timeouts + 1) * K = d + K /\ s \in Nat
      /\ K \in Nat /\ Within(K, d, call.at, s, call.left, call.piece)
      /\ call.left \in Nat /\ call.piece \in Nat /\ Placed(call) /\ Control
  <2>1. K \in Nat /\ (TIMEOUTS + 1) * K <= RING
    BY DEF AnswersFit
  <2>2. timeouts \in 0..TIMEOUTS /\ Within(K, d, call.at, s, call.left, call.piece)
    BY BacklogIs
  <2>3. d \in Nat /\ (timeouts + 1) * K = d + K
    BY <2>1, <2>2, ProductIs
  <2>4. s \in Nat
    BY OutWayIs
  <2>5. Control /\ call.piece \in Nat
    BY DEF InInv, OutInv
  <2>6. Placed(call) /\ call.left \in Nat
    BY <2>5 DEF Control, Placed
  <2> QED
    BY <2>1, <2>2, <2>3, <2>4, <2>5, <2>6
<1>2. ASSUME timeouts' = timeouts, output'.size \in Nat,
             Within(K, d, call'.at, output'.size, call'.left, call'.piece)
      PROVE  Backlog(K)' /\ output'.size \in Nat
  BY <1>1, <1>2 DEF Backlog, Within
<1>3. CASE usbdl_flush \/ NotYet \/ PutsDone \/ query \/ Again \/ getcn \/ pop \/ Program
  <2>1. /\ Within(K, d, call'.at, output.size, call'.left, call'.piece)
        /\ UNCHANGED <<output, timeouts>>
    BY <1>1, <1>3, CallWithin
  <2> HIDE DEF d
  <2> QED
    BY <1>1, <1>2, <2>1
<1>4. CASE putcn
  <2>1. PICK n \in Nat : /\ n > 0 /\ n <= call.left /\ Push(n) /\ UNCHANGED <<tx, hostGot, timeouts>>
                         /\ call' = [call EXCEPT !.left = @ - n, !.at = IF call.left = n THEN "flush" ELSE @]
    BY <1>1, <1>4, PutcnPushes
  <2>2. output'.size = s + n /\ output'.size \in Nat
    BY <1>1, <2>1, PushSize
  <2>3. /\ call.at = "putcn" /\ s + call.left <= d + K
        /\ call'.left = call.left - n /\ call'.at = IF call.left = n THEN "flush" ELSE "putcn"
    BY <1>1, <1>4, <2>1 DEF putcn, At, Within, Placed
  <2> HIDE DEF s, d
  <2>4. Within(K, d, call'.at, output'.size, call'.left, call'.piece)
    BY <1>1, <2>1, <2>2, <2>3 DEF Within
  <2> QED
    BY <1>2, <2>1, <2>2, <2>4
<1>5. CASE puts
  <2>1. PICK n \in Nat : /\ n <= call.piece /\ Push(n) /\ timeouts' = timeouts
                         /\ call' = [call EXCEPT !.piece = @ - n]
    BY <1>1, <1>5, PutsPushes
  <2>2. output'.size = s + n /\ output'.size \in Nat
    BY <1>1, <2>1, PushSize
  <2>3. /\ call.at = "puts" /\ s + call.piece <= d + K
        /\ call'.piece = call.piece - n /\ call'.at = "puts"
    BY <1>1, <1>5, <2>1 DEF puts, At, Within, Placed
  <2> HIDE DEF s, d
  <2>4. Within(K, d, call'.at, output'.size, call'.left, call'.piece)
    BY <1>1, <2>1, <2>2, <2>3 DEF Within
  <2> QED
    BY <1>2, <2>1, <2>2, <2>4
<1>6. CASE buf_to_ep
  <2>1. timeouts' = timeouts /\ call' = call /\ output'.size <= s /\ output'.size \in Nat
    BY <1>6, BufToEpOut, RingType DEF buf_to_ep
  <2> HIDE DEF s, d
  <2>2. Within(K, d, call'.at, output'.size, call'.left, call'.piece)
    BY <1>1, <2>1 DEF Within
  <2> QED
    BY <1>2, <2>1, <2>2
<1>7. CASE service_interrupts \/ mt_udc_irq \/ ep_to_buf \/ HostSends \/ HostReads \/ UNCHANGED vars
  <2>1. UNCHANGED <<timeouts, call, output>>
    BY <1>7 DEF service_interrupts, mt_udc_irq, ep_to_buf, HostSends, HostReads, vars, buffers, ends
  <2> QED
    BY <1>1, <1>2, <2>1
<1>8. CASE Timeout
  <2>1. /\ call.at = "timer" /\ timeouts' = timeouts + 1 /\ timeouts < TIMEOUTS /\ output' = output
        /\ call' = Idle \/ call' = [call EXCEPT !.at = "query"]
    BY <1>8 DEF Timeout, At, buffers, Flushed
  <2>2. call'.at \in {"idle", "query"}
    BY <1>1, <2>1 DEF Idle, Placed
  <2>3. s <= d + K
    BY <2>1, <1>1 DEF Within
  <2>4. output'.size <= timeouts' * K
    BY <1>1, <2>1, <2>3
  <2>5. timeouts' \in 0..TIMEOUTS
    BY <1>1, <2>1, Sizes
  <2> QED
    BY <1>1, <2>1, <2>2, <2>4, <2>5 DEF Backlog
<1> QED
  BY <1>3, <1>4, <1>5, <1>6, <1>7, <1>8 DEF Next, Routine, Calls

\* Within the bound nothing is overrun.
LEMMA WithinFits ==
  ASSUME NEW K, AnswersFit(K), NEW t \in 0..TIMEOUTS, NEW at \in Places, NEW size \in Nat,
         NEW left \in Nat, NEW piece \in Nat, Within(K, t * K, at, size, left, piece)
  PROVE  size <= RING
<1> DEFINE d == t * K
<1>1. K \in Nat /\ (TIMEOUTS + 1) * K <= RING
  BY DEF AnswersFit
<1>2. d \in Nat /\ d + K <= RING /\ Within(K, d, at, size, left, piece)
  BY <1>1, ProductIs
<1> HIDE DEF d
<1> QED
  BY <1>1, <1>2, RingNat DEF Within, Places

\* The types that are left.
Latches == irq \subseteq {"tx", "rx"} /\ seen \subseteq {"tx", "rx"} /\ timeouts \in 0..TIMEOUTS

\* Every step keeps them.
LEMMA StepLatches == Latches /\ [Next]_vars => Latches'
<1> SUFFICES ASSUME Latches, [Next]_vars PROVE Latches'
    OBVIOUS
<1>1. ASSUME NEW n, usb_send(n) \/ usb_recv(n) PROVE UNCHANGED <<irq, seen, timeouts>>
  BY <1>1 DEF usb_send, usb_recv
<1>2. Program => UNCHANGED <<irq, seen, timeouts>>
  BY <1>1 DEF Program, usb_listen
<1>3. CASE Routine
  BY <1>3 DEF Routine, service_interrupts, mt_udc_irq, buf_to_ep, ep_to_buf, Latches, buffers
<1>4. CASE Calls \/ Program
  BY <1>2, <1>4 DEF Calls, putcn, usbdl_flush, NotYet, puts, PutsDone, query, Again, getcn, pop, Latches
<1>5. CASE Timeout
  BY <1>5, Sizes DEF Timeout, Latches
<1>6. CASE HostSends
  BY <1>6 DEF HostSends, Latches
<1>7. CASE HostReads
  BY <1>7 DEF HostReads, Latches
<1>8. CASE UNCHANGED vars
  BY <1>8 DEF vars, Latches
<1> QED
  BY <1>3, <1>4, <1>5, <1>6, <1>7, <1>8 DEF Next

\* All the types together.
LEMMA TypesHold == InInv /\ OutInv /\ Latches => TypeOK
<1> SUFFICES ASSUME InInv, OutInv, Latches PROVE TypeOK
    OBVIOUS
<1>1. output \in Buffer(Nat) /\ input \in Buffer(Nat) /\ tx \in Endpoint
  BY DEF InInv, Received, OutInv, IsRing, Sane
<1>2. call \in Call
  BY DEF InInv, Control, Placed, OutInv, Call
<1>3. todo \in {<<>>} \cup Polling \cup Servicing
  BY DEF InInv, Control, Left
<1> QED
  BY <1>1, <1>2, <1>3 DEF InInv, Received, OutInv, Latches, TypeOK

\* TypeOK, given that the ring is not overrun.
THEOREM TypeCorrect == ASSUME SizesFit PROVE Spec /\ []OutputFits => []TypeOK
<1>1. Init => InInv /\ OutInv /\ Latches
  BY InitIn, InitOut, Sizes DEF Init, Latches
<1>2. InInv /\ OutInv /\ Latches /\ OutputFits' /\ [Next]_vars => InInv' /\ OutInv' /\ Latches'
  BY StepIn, StepOut, StepLatches
<1>3. InInv /\ OutInv /\ Latches => TypeOK
  BY TypesHold
<1> QED
  BY <1>1, <1>2, <1>3, PTL DEF Spec

\* mt_usbtty_putcn never looks for room, and never needs to: answers of at most K bytes
\* fit for as many flushes as the ring has room for answers.
THEOREM AnswersNeverOverrun ==
  ASSUME SizesFit, NEW K, AnswersFit(K)
  PROVE  Spec => []OutputFits
<1> DEFINE Inv == InInv /\ OutInv /\ Backlog(K)
<1>1. Init => Inv
  BY InitIn, InitOut, InitBacklog
<1>2. Inv /\ [Next]_vars => Inv'
  <2> SUFFICES ASSUME Inv, [Next]_vars PROVE Inv'
      OBVIOUS
  <2>1. InInv' /\ Backlog(K)' /\ output'.size \in Nat
    BY StepIn, StepBacklog
  <2>2. call'.piece \in Nat
    BY PieceNat
  <2>3. Control'
    BY <2>1 DEF InInv
  <2>4. OutputFits'
    <3>1. /\ timeouts' \in 0..TIMEOUTS
          /\ Within(K, timeouts' * K, call'.at, output'.size, call'.left, call'.piece)
      BY <2>1 DEF Backlog, Within
    <3>2. call'.at \in Places /\ call'.left \in Nat
      BY <2>3 DEF Control, Placed
    <3>3. output'.size <= RING
      BY <2>1, <2>2, <3>1, <3>2, WithinFits
    <3> QED
      BY <3>3 DEF OutputFits
  <2> QED
    BY <2>1, <2>4, StepOut
<1>3. Inv => OutputFits
  BY DEF OutInv, IsRing, OutputFits
<1> QED
  BY <1>1, <1>2, <1>3, PTL DEF Spec

\* OutIsQueue without that condition, for answers as small as that.
THEOREM AnswersQueue ==
  ASSUME SizesFit, NEW K, AnswersFit(K)
  PROVE  Spec => OutIsQueue
<1>1. Spec => []OutputFits
  BY AnswersNeverOverrun
<1>2. Spec /\ []OutputFits => OutIsQueue
  BY OutQueue
<1> QED
  BY <1>1, <1>2, PTL
=============================================================================
