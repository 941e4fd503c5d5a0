---------------------------- MODULE HandoverProofs ---------------------------
(***************************************************************************)
(* Theorems about what the preloader hands over to the next stage: the map *)
(* of the memory (Mblock) and the slot that is booted (AbBoot).            *)
(*                                                                         *)
(* Theorems about Mblock, for any ranks, requests and configured maximum.  *)
(*                                                                         *)
(* The argument: the region granted lies inside the block chosen           *)
(* (GrantedInside), so a grant takes exactly that region out of the free   *)
(* memory (SplitTakes), and what was said of free and reserved memory      *)
(* before still holds after.  A grant leaves a gap between the parts of a  *)
(* block (Separated), so that memory which would do lies in one block      *)
(* (OneBlock), and the search looks at each.                               *)
(*                                                                         *)
(* Theorems about AbBoot, for every retry budget, every bound on storage   *)
(* failures and power cuts, and both variants of the loop.                 *)
(*                                                                         *)
(* The induction rests on Decision: what the copies ab_suffix and ab_retry *)
(* read at the start still say of the durable metadata at each later call, *)
(* as long as no storage access failed, and what remains true of them when *)
(* one did.                                                                *)
(***************************************************************************)
EXTENDS AbBoot, Mblock, TLAPS

-----------------------------------------------------------------------------
(* The memory map.                                                         *)

Blocks == Seq([start : Nat, size : Nat, rank : 0..3])

\* No block reaches below the base of the DRAM, nor out of the ranks there are.
InsideDram == \A i \in 1..mblock_num :
  /\ ranks[1].start <= mblock[i].start
  /\ mblock[i].rank + 1 \in Rank

MblockIInv == MblockTypeOK /\ Sorted /\ InsideDram /\ RankIsRight /\ Conserved /\ Exclusive

-----------------------------------------------------------------------------
(* Arithmetic.                                                             *)

LEMMA UpToFour ==
  ASSUME NEW n \in 1..4
  PROVE  \A i \in 1..n : i = 1 \/ i = 2 \/ i = 3 \/ i = 4
OBVIOUS

LEMMA RankIndex ==
  \A i \in Rank : i \in Nat /\ i >= 1 /\ (i = 1 \/ i = 2 \/ i = 3 \/ i = 4)
<1>1. Len(ranks) \in 1..4
  BY MblockAssumption DEF MblockAssumption, RanksAssumption
<1>2. \A i \in Rank : i = 1 \/ i = 2 \/ i = 3 \/ i = 4
  BY <1>1, UpToFour, Zenon DEF Rank
<1> QED  BY <1>2

LEMMA RankClosed ==
  1 \in Rank /\ \A i \in Rank : \A j \in 1..i : j \in Rank
<1>1. Len(ranks) \in 1..4
  BY MblockAssumption DEF MblockAssumption, RanksAssumption
<1> QED  BY <1>1 DEF Rank

LEMMA RanksType ==
  \A i \in Rank : ranks[i].start \in Nat /\ ranks[i].size \in Nat \ {0}
<1> SUFFICES ASSUME NEW i \in Rank PROVE ranks[i].start \in Nat /\ ranks[i].size \in Nat \ {0}
    OBVIOUS
<1>1. ranks \in Seq(rank_info) /\ i \in 1..Len(ranks)
  BY MblockAssumption DEF MblockAssumption, RanksAssumption, Rank
<1>2. ranks[i] \in rank_info
  BY <1>1
<1> QED  BY <1>2 DEF rank_info

LEMMA BlockType ==
  ASSUME mblock \in Seq(mblock_t), NEW i \in 1..mblock_num
  PROVE  /\ mblock[i] \in mblock_t
         /\ mblock[i].start \in Nat /\ mblock[i].size \in Nat /\ mblock[i].rank \in 0..3
<1>1. mblock[i] \in mblock_t  BY DEF mblock_num
<1> QED  BY <1>1 DEF mblock_t

LEMMA RanksAdjacent ==
  \A i \in Rank : i > 1 => ranks[i].start = ranks[i - 1].start + ranks[i - 1].size
BY MblockAssumption DEF MblockAssumption, RanksAssumption, End

LEMMA RankOrder ==
  /\ \A i \in Rank : ranks[1].start <= ranks[i].start
  /\ \A i, j \in Rank : i < j => End(ranks[i]) <= ranks[j].start
<1>2. 2 \in Rank => ranks[2].start = ranks[1].start + ranks[1].size
  BY RanksAdjacent
<1>3. 3 \in Rank => 2 \in Rank /\ ranks[3].start = ranks[2].start + ranks[2].size
  BY RanksAdjacent, RankClosed
<1>4. 4 \in Rank => 3 \in Rank /\ ranks[4].start = ranks[3].start + ranks[3].size
  BY RanksAdjacent, RankClosed
<1> QED  BY <1>2, <1>3, <1>4, RanksType, RankIndex, RankClosed DEF End

LEMMA RequestType ==
  ASSUME NEW r \in Requests
  PROVE  /\ r.size \in Nat \ {0} /\ r.limit \in Nat /\ r.align \in Nat /\ r.mapping \in Nat
         /\ r.size <= ranks[1].start /\ r.size <= r.limit
BY MblockAssumption DEF MblockAssumption, RequestsAssumption

LEMMA AlignedDownIsBelow ==
  ASSUME NEW a \in Nat, NEW align \in Nat
  PROVE  AlignedDown(a, align) \in 0..a
<1>1. CASE align = 0  BY <1>1 DEF AlignedDown
<1>2. CASE align # 0
  <2>1. a % align \in Nat /\ a % align <= a  BY <1>2
  <2> QED  BY <1>2, <2>1 DEF AlignedDown
<1> QED  BY <1>1, <1>2

LEMMA AlignIsNat ==
  ASSUME NEW r \in Requests
  PROVE  Align(r) \in Nat
<1>1. r.align \in Nat /\ PAGE \in Nat \ {0}
  BY RequestType, MblockAssumption DEF MblockAssumption
<1>2. r.align % PAGE \in Nat /\ r.align % PAGE <= r.align  BY <1>1
<1> QED  BY <1>1, <1>2 DEF Align

-----------------------------------------------------------------------------
(* A grant.                                                                *)

\* The region granted lies in the chosen block.
LEMMA GrantedInside ==
  ASSUME MblockTypeOK, InsideDram,
         NEW r \in Requests, NEW i \in 1..mblock_num, Fits(mblock[i], r)
  PROVE  /\ AddressIn(mblock[i], r) \in Nat
         /\ mblock[i].start <= AddressIn(mblock[i], r)
         /\ AddressIn(mblock[i], r) + r.size <= End(mblock[i])
<1>1. mblock[i].start \in Nat /\ mblock[i].size \in Nat
  BY BlockType DEF MblockTypeOK
<1>2. r.size <= End(mblock[i]) /\ End(mblock[i]) \in Nat
  BY <1>1, RequestType, RanksType, RankClosed DEF InsideDram, End
<1>3. Top(mblock[i], r) - r.size \in Nat
  BY <1>2, RequestType DEF Top, Smaller
<1>4. AddressIn(mblock[i], r) \in Nat
  BY <1>3, AlignIsNat, AlignedDownIsBelow DEF AddressIn
<1> QED  BY <1>4 DEF Fits


\* What a split leaves of block t, and where the other blocks go.
Shape(t, addr, r) ==
  /\ mblock' \in Seq(mblock_t)
  /\ \/ /\ Len(mblock') = Len(mblock)
        /\ \A i \in 1..Len(mblock) \ {t} : mblock'[i] = mblock[i]
        /\ \/ addr = mblock[t].start /\ mblock'[t] = Upper(mblock[t], addr, r)
           \/ addr + r.size = End(mblock[t]) /\ mblock'[t] = Lower(mblock[t], addr)
     \/ /\ Len(mblock') = Len(mblock) + 1
        /\ \A i \in 1..t - 1 : mblock'[i] = mblock[i]
        /\ mblock'[t] = Lower(mblock[t], addr)
        /\ mblock'[t + 1] = Upper(mblock[t], addr, r)
        /\ \A i \in t + 2 .. Len(mblock) + 1 : mblock'[i] = mblock[i - 1]

LEMMA PartsType ==
  ASSUME MblockTypeOK, NEW r \in Requests, NEW t \in 1..mblock_num, NEW addr \in Nat,
         mblock[t].start <= addr, addr + r.size <= End(mblock[t])
  PROVE  /\ Lower(mblock[t], addr) \in mblock_t
         /\ Lower(mblock[t], addr).start = mblock[t].start
         /\ Lower(mblock[t], addr).rank = mblock[t].rank
         /\ End(Lower(mblock[t], addr)) = addr
         /\ Upper(mblock[t], addr, r) \in mblock_t
         /\ Upper(mblock[t], addr, r).start = addr + r.size
         /\ Upper(mblock[t], addr, r).rank = mblock[t].rank
         /\ End(Upper(mblock[t], addr, r)) = End(mblock[t])
<1>1. mblock[t] \in mblock_t /\ mblock[t].start \in Nat /\ mblock[t].size \in Nat
  BY BlockType DEF MblockTypeOK
<1>2. addr - mblock[t].start \in Nat /\ End(mblock[t]) - (addr + r.size) \in Nat
  BY <1>1, RequestType DEF End
<1>3. addr + r.size \in Nat
  BY RequestType
<1> DEFINE n == addr - mblock[t].start
           m == End(mblock[t]) - (addr + r.size)
<1>4. /\ Lower(mblock[t], addr) = [mblock[t] EXCEPT !.size = n]
      /\ Upper(mblock[t], addr, r) = [mblock[t] EXCEPT !.start = addr + r.size, !.size = m]
      /\ n \in Nat /\ m \in Nat
  BY <1>2 DEF Lower, Upper
<1>5. mblock[t].start + n = addr /\ addr + r.size + m = End(mblock[t])
  BY <1>1, <1>2, RequestType DEF End
<1> HIDE DEF n, m
<1>6. Lower(mblock[t], addr) \in mblock_t /\ Upper(mblock[t], addr, r) \in mblock_t
  BY <1>1, <1>3, <1>4 DEF mblock_t
<1>7. /\ Lower(mblock[t], addr).start = mblock[t].start
      /\ Lower(mblock[t], addr).rank = mblock[t].rank
      /\ Lower(mblock[t], addr).size = n
      /\ Upper(mblock[t], addr, r).start = addr + r.size
      /\ Upper(mblock[t], addr, r).rank = mblock[t].rank
      /\ Upper(mblock[t], addr, r).size = m
  BY <1>1, <1>4 DEF mblock_t
<1> QED  BY <1>5, <1>6, <1>7 DEF End

LEMMA SplitShape ==
  ASSUME MblockTypeOK, NEW r \in Requests, NEW t \in 1..mblock_num, NEW addr \in Nat,
         mblock[t].start <= addr, addr + r.size <= End(mblock[t]), Split(t, addr, r)
  PROVE  Shape(t, addr, r)
<1> DEFINE lower == Lower(mblock[t], addr)
           upper == Upper(mblock[t], addr, r)
<1>1. lower \in mblock_t /\ upper \in mblock_t
  BY PartsType
<1>2. mblock \in Seq(mblock_t) /\ t \in 1..Len(mblock)
  BY DEF MblockTypeOK, mblock_num
<1> HIDE DEF lower, upper
<1>3. CASE mblock' = [mblock EXCEPT ![t] = upper] /\ addr = mblock[t].start
  BY <1>1, <1>2, <1>3 DEF Shape, upper
<1>4. CASE mblock' = [mblock EXCEPT ![t] = lower] /\ addr + r.size = End(mblock[t])
  BY <1>1, <1>2, <1>4 DEF Shape, lower
<1>5. CASE mblock' = [InsertedAfter(t, upper) EXCEPT ![t] = lower]
  <2> DEFINE s == InsertedAfter(t, upper)
  <2>1. s = [i \in 1..Len(mblock) + 1 |->
               IF i <= t THEN mblock[i] ELSE IF i = t + 1 THEN upper ELSE mblock[i - 1]]
    BY DEF InsertedAfter, mblock_num
  <2> HIDE DEF s
  <2>2. s \in Seq(mblock_t) /\ Len(s) = Len(mblock) + 1
    BY <1>1, <1>2, <2>1
  <2>3. /\ \A i \in 1..t - 1 : s[i] = mblock[i]
        /\ s[t + 1] = upper
        /\ \A i \in t + 2 .. Len(mblock) + 1 : s[i] = mblock[i - 1]
    BY <1>2, <2>1
  <2>4. mblock' = [s EXCEPT ![t] = lower]  BY <1>5 DEF s
  <2>5. mblock' \in Seq(mblock_t) /\ Len(mblock') = Len(mblock) + 1 /\ mblock'[t] = lower
    BY <1>1, <1>2, <2>2, <2>4
  <2>6. /\ \A i \in 1..t - 1 : mblock'[i] = mblock[i]
        /\ mblock'[t + 1] = upper
        /\ \A i \in t + 2 .. Len(mblock) + 1 : mblock'[i] = mblock[i - 1]
    BY <1>2, <2>2, <2>3, <2>4
  <2> QED  BY <2>5, <2>6 DEF Shape, lower, upper
<1> QED  BY <1>3, <1>4, <1>5 DEF Split, lower, upper

\* Any part of a block lies in the block's rank.
LEMMA PartInRank ==
  ASSUME MblockTypeOK, InsideDram, RankIsRight, NEW i \in 1..mblock_num, NEW part,
         part.rank = mblock[i].rank, part.start \in Nat, End(part) \in Nat,
         mblock[i].start <= part.start, End(part) <= End(mblock[i])
  PROVE  /\ ranks[part.rank + 1].start <= part.start
         /\ End(part) <= End(ranks[part.rank + 1])
<1> DEFINE k == mblock[i].rank + 1
<1>1. k \in Rank  BY DEF InsideDram
<1>2. ranks[k].start \in Nat /\ End(ranks[k]) \in Nat  BY <1>1, RanksType DEF End
<1>3. ranks[k].start <= mblock[i].start /\ End(mblock[i]) <= End(ranks[k])  BY DEF RankIsRight
<1>4. mblock[i].start \in Nat /\ End(mblock[i]) \in Nat  BY BlockType DEF MblockTypeOK, End
<1> HIDE DEF k
<1>5. ranks[k].start <= part.start /\ End(part) <= End(ranks[k])
  BY <1>2, <1>3, <1>4
<1> QED  BY <1>5 DEF k

\* After a split the list is sorted, within its ranks, and covers what it
\* covered but for the region granted.
LEMMA SplitTakes ==
  ASSUME MblockTypeOK, Sorted, InsideDram, RankIsRight,
         NEW r \in Requests, NEW t \in 1..mblock_num, NEW addr \in Nat,
         mblock[t].start <= addr, addr + r.size <= End(mblock[t]), Shape(t, addr, r)
  PROVE  /\ Sorted' /\ InsideDram' /\ RankIsRight'
         /\ \A a \in Nat : IsFree(a)' <=> IsFree(a) /\ ~ (addr <= a /\ a < addr + r.size)
<1> DEFINE lower == Lower(mblock[t], addr)
           upper == Upper(mblock[t], addr, r)
           n == Len(mblock)
<1>1. /\ lower.start = mblock[t].start /\ End(lower) = addr /\ lower.rank = mblock[t].rank
      /\ upper.start = addr + r.size /\ End(upper) = End(mblock[t]) /\ upper.rank = mblock[t].rank
  BY PartsType
<1>2. ASSUME NEW i \in 1..n
      PROVE  mblock[i].start \in Nat /\ End(mblock[i]) \in Nat /\ mblock[i].start <= End(mblock[i])
  <2>1. mblock \in Seq(mblock_t) /\ i \in 1..mblock_num
    BY <1>2 DEF MblockTypeOK, mblock_num
  <2>2. mblock[i].start \in Nat /\ mblock[i].size \in Nat
    BY <2>1, BlockType
  <2> QED  BY <2>2 DEF End
<1>3. n \in Nat /\ t \in 1..n /\ r.size \in Nat \ {0} /\ mblock_num = n /\ mblock_num' = Len(mblock')
  BY RequestType DEF MblockTypeOK, mblock_num
<1>4. \A i, j \in 1..n : i < j => End(mblock[i]) <= mblock[j].start
  BY DEF Sorted, mblock_num
<1>7. mblock[t].start \in Nat /\ End(mblock[t]) \in Nat /\ addr + r.size \in Nat
  BY <1>2, <1>3
<1> HIDE DEF lower, upper, n
<1>8. ASSUME NEW a \in Nat, NEW i \in 1..n \ {t}, Covers(mblock[i], a)
      PROVE  ~ (addr <= a /\ a < addr + r.size)
  <2>1. mblock[i].start \in Nat /\ End(mblock[i]) \in Nat /\ mblock[i].start <= a /\ a < End(mblock[i])
    BY <1>2, <1>8 DEF Covers
  <2>2. CASE i < t
    <3>1. End(mblock[i]) <= mblock[t].start  BY <1>3, <1>4, <2>2
    <3> QED  BY <1>7, <2>1, <3>1
  <2>3. CASE i > t
    <3>1. End(mblock[t]) <= mblock[i].start  BY <1>3, <1>4, <2>3
    <3> QED  BY <1>7, <2>1, <3>1
  <2> QED  BY <1>3, <2>2, <2>3
<1>5. CASE Len(mblock') = n
  <2>1. /\ \A i \in 1..n \ {t} : mblock'[i] = mblock[i]
        /\ \/ addr = mblock[t].start /\ mblock'[t] = upper
           \/ addr + r.size = End(mblock[t]) /\ mblock'[t] = lower
    BY <1>3, <1>5 DEF Shape, lower, upper, n
  <2>2. /\ mblock[t].start <= mblock'[t].start
        /\ End(mblock'[t]) <= End(mblock[t])
        /\ mblock'[t].rank = mblock[t].rank
        /\ mblock'[t].start \in Nat /\ End(mblock'[t]) \in Nat
    <3>1. CASE addr = mblock[t].start /\ mblock'[t] = upper
      BY <1>1, <1>3, <1>7, <3>1
    <3>2. CASE addr + r.size = End(mblock[t]) /\ mblock'[t] = lower
      BY <1>1, <1>3, <1>7, <3>2
    <3> QED  BY <2>1, <3>1, <3>2
  <2>3. ASSUME NEW i \in 1..n
        PROVE  /\ mblock[i].start <= mblock'[i].start /\ mblock'[i].start \in Nat
               /\ End(mblock'[i]) <= End(mblock[i]) /\ End(mblock'[i]) \in Nat
               /\ mblock'[i].rank = mblock[i].rank
    <3>1. mblock[i].start \in Nat /\ End(mblock[i]) \in Nat  BY <1>2
    <3>2. CASE i = t  BY <2>2, <3>2
    <3>3. CASE i # t  BY <2>1, <3>1, <3>3
    <3> QED  BY <3>2, <3>3
  <2>4. Sorted' /\ InsideDram' /\ RankIsRight'
    <3>1. Sorted'
      <4> SUFFICES ASSUME NEW i \in 1..n, NEW j \in 1..n, i < j
                   PROVE  End(mblock'[i]) <= mblock'[j].start
          BY <1>3, <1>5 DEF Sorted
      <4>1. End(mblock[i]) <= mblock[j].start /\ mblock[j].start \in Nat /\ End(mblock[i]) \in Nat
        BY <1>2, <1>4
      <4> QED  BY <2>3, <4>1
    <3>2. InsideDram'
      <4> SUFFICES ASSUME NEW i \in 1..n
                   PROVE  ranks[1].start <= mblock'[i].start /\ mblock'[i].rank + 1 \in Rank
          BY <1>3, <1>5 DEF InsideDram
      <4>1. ranks[1].start <= mblock[i].start /\ mblock[i].rank + 1 \in Rank /\ mblock[i].start \in Nat
        BY <1>2, <1>3 DEF InsideDram
      <4> QED  BY <2>3, <4>1, RanksType, RankClosed
    <3>3. RankIsRight'
      <4> SUFFICES ASSUME NEW i \in 1..n
                   PROVE  /\ ranks[mblock'[i].rank + 1].start <= mblock'[i].start
                          /\ End(mblock'[i]) <= End(ranks[mblock'[i].rank + 1])
          BY <1>3, <1>5 DEF RankIsRight
      <4> QED  BY <1>3, <2>3, PartInRank
    <3> QED  BY <3>1, <3>2, <3>3
  <2>5. ASSUME NEW a \in Nat
        PROVE  IsFree(a)' <=> IsFree(a) /\ ~ (addr <= a /\ a < addr + r.size)
    <3>1. Covers(mblock'[t], a) <=> Covers(mblock[t], a) /\ ~ (addr <= a /\ a < addr + r.size)
      BY <1>1, <1>2, <1>3, <2>1 DEF Covers
    <3>2. \A i \in 1..n \ {t} : Covers(mblock[i], a) => ~ (addr <= a /\ a < addr + r.size)
      BY <1>8
    <3> QED  BY <1>3, <1>5, <2>1, <3>1, <3>2 DEF IsFree
  <2> QED  BY <2>4, <2>5
<1>6. CASE Len(mblock') = n + 1
  <2>1. /\ \A i \in 1..t - 1 : mblock'[i] = mblock[i]
        /\ mblock'[t] = lower
        /\ mblock'[t + 1] = upper
        /\ \A i \in t + 2 .. n + 1 : mblock'[i] = mblock[i - 1]
    BY <1>3, <1>6 DEF Shape, lower, upper, n
  <2>2. \A i \in 1..n + 1 : i \in 1..t - 1 \/ i = t \/ i = t + 1 \/ (i \in t + 2..n + 1 /\ i - 1 \in 1..n)
    BY <1>3
  <2>3. Sorted'
    <3> SUFFICES ASSUME NEW i \in 1..n + 1, NEW j \in 1..n + 1, i < j
                 PROVE  End(mblock'[i]) <= mblock'[j].start
        BY <1>3, <1>6 DEF Sorted
    <3>1. mblock[t].start <= addr /\ addr <= addr + r.size /\ addr + r.size <= End(mblock[t])
      BY <1>3
    <3>2. CASE i = t /\ j = t + 1
      BY <1>1, <1>7, <2>1, <3>1, <3>2
    <3>3. CASE i \in 1..t - 1 /\ (j = t \/ j = t + 1)
      <4>1. i \in 1..n /\ End(mblock[i]) <= mblock[t].start /\ End(mblock[i]) \in Nat
        BY <1>2, <1>3, <1>4, <3>3
      <4> QED  BY <1>1, <1>7, <2>1, <3>1, <3>3, <4>1
    <3>4. CASE (i = t \/ i = t + 1) /\ j \in t + 2..n + 1
      <4>6. j - 1 \in 1..n /\ t < j - 1
        BY <1>3, <3>4
      <4>1. End(mblock[t]) <= mblock[j - 1].start /\ mblock[j - 1].start \in Nat
        BY <1>2, <1>3, <1>4, <4>6
      <4>2. mblock'[j] = mblock[j - 1]
        BY <2>1, <3>4
      <4>3. End(mblock'[i]) = addr \/ End(mblock'[i]) = End(mblock[t])
        BY <1>1, <2>1, <3>4
      <4>4. addr <= End(mblock[t])
        BY <1>3, <1>7, <3>1
      <4>5. addr <= mblock[j - 1].start
        BY <1>7, <4>1, <4>4
      <4> QED  BY <4>1, <4>2, <4>3, <4>5
    <3>5. CASE i \in 1..t - 1 /\ j \in 1..t - 1
      <4>1. i \in 1..n /\ j \in 1..n  BY <1>3, <3>5
      <4> QED  BY <1>4, <2>1, <3>5, <4>1
    <3>6. CASE i \in 1..t - 1 /\ j \in t + 2..n + 1
      <4>1. i \in 1..n /\ j - 1 \in 1..n /\ i < j - 1  BY <1>3, <3>6
      <4> QED  BY <1>4, <2>1, <3>6, <4>1
    <3>7. CASE i \in t + 2..n + 1 /\ j \in t + 2..n + 1
      <4>1. i - 1 \in 1..n /\ j - 1 \in 1..n /\ i - 1 < j - 1  BY <1>3, <3>7
      <4> QED  BY <1>4, <2>1, <3>7, <4>1
    <3> QED  BY <1>3, <2>2, <3>2, <3>3, <3>4, <3>5, <3>6, <3>7
  <2>4. InsideDram'
    <3> SUFFICES ASSUME NEW i \in 1..n + 1
                 PROVE  ranks[1].start <= mblock'[i].start /\ mblock'[i].rank + 1 \in Rank
        BY <1>3, <1>6 DEF InsideDram
    <3>1. \A k \in 1..n : ranks[1].start <= mblock[k].start /\ mblock[k].rank + 1 \in Rank
      BY <1>3 DEF InsideDram
    <3>2. CASE i \in 1..t - 1
      <4>1. i \in 1..n /\ mblock'[i] = mblock[i]  BY <1>3, <2>1, <3>2
      <4> QED  BY <3>1, <4>1
    <3>3. CASE i = t \/ i = t + 1
      <4>1. mblock'[i].rank = mblock[t].rank /\ (mblock'[i].start = mblock[t].start \/ mblock'[i].start = addr + r.size)
        BY <1>1, <2>1, <3>3
      <4>2. ranks[1].start <= mblock[t].start /\ mblock[t].rank + 1 \in Rank /\ ranks[1].start \in Nat
        BY <1>3, <3>1, RanksType, RankClosed
      <4>3. mblock[t].start <= addr + r.size
        BY <1>3, <1>7
      <4> QED  BY <1>3, <1>7, <4>1, <4>2, <4>3
    <3>4. CASE i \in t + 2..n + 1
      <4>1. i - 1 \in 1..n /\ mblock'[i] = mblock[i - 1]  BY <1>3, <2>1, <3>4
      <4> QED  BY <3>1, <4>1
    <3> QED  BY <2>2, <3>2, <3>3, <3>4
  <2>5. RankIsRight'
    <3> SUFFICES ASSUME NEW i \in 1..n + 1
                 PROVE  /\ ranks[mblock'[i].rank + 1].start <= mblock'[i].start
                        /\ End(mblock'[i]) <= End(ranks[mblock'[i].rank + 1])
        BY <1>3, <1>6 DEF RankIsRight
    <3>1. ASSUME NEW j \in 1..n, mblock'[i] = mblock[j] PROVE
            /\ ranks[mblock'[i].rank + 1].start <= mblock'[i].start
            /\ End(mblock'[i]) <= End(ranks[mblock'[i].rank + 1])
      BY <1>3, <3>1 DEF RankIsRight
    <3>2. CASE i \in 1..t - 1
      BY <1>3, <2>1, <3>1, <3>2
    <3>3. CASE i = t
      BY <1>1, <1>3, <1>7, <2>1, <3>3, PartInRank
    <3>4. CASE i = t + 1
      BY <1>1, <1>3, <1>7, <2>1, <3>4, PartInRank
    <3>5. CASE i \in t + 2..n + 1
      <4>1. i - 1 \in 1..n /\ mblock'[i] = mblock[i - 1]  BY <1>3, <2>1, <3>5
      <4> QED  BY <3>1, <4>1
    <3> QED  BY <2>2, <3>2, <3>3, <3>4, <3>5
  <2>6. ASSUME NEW a \in Nat
        PROVE  IsFree(a)' <=> IsFree(a) /\ ~ (addr <= a /\ a < addr + r.size)
    <3>1. Covers(lower, a) \/ Covers(upper, a)
            <=> Covers(mblock[t], a) /\ ~ (addr <= a /\ a < addr + r.size)
      BY <1>1, <1>2, <1>3 DEF Covers
    <3>2. \A i \in 1..n \ {t} : Covers(mblock[i], a) => ~ (addr <= a /\ a < addr + r.size)
      BY <1>8
    <3>3. IsFree(a)' <=> \/ \E i \in 1..n \ {t} : Covers(mblock[i], a)
                         \/ Covers(lower, a) \/ Covers(upper, a)
      <4>1. ASSUME NEW i \in 1..n + 1, Covers(mblock'[i], a)
            PROVE  (\E k \in 1..n \ {t} : Covers(mblock[k], a)) \/ Covers(lower, a) \/ Covers(upper, a)
        <5>1. CASE i \in 1..t - 1  BY <1>3, <2>1, <4>1, <5>1
        <5>2. CASE i = t \/ i = t + 1  BY <1>3, <2>1, <4>1, <5>2
        <5>3. CASE i \in t + 2..n + 1
          <6>1. i - 1 \in 1..n \ {t} /\ mblock'[i] = mblock[i - 1]  BY <1>3, <2>1, <5>3
          <6> QED  BY <4>1, <6>1
        <5> QED  BY <2>2, <5>1, <5>2, <5>3
      <4>2. ASSUME NEW k \in 1..n \ {t}, Covers(mblock[k], a)
            PROVE  \E i \in 1..n + 1 : Covers(mblock'[i], a)
        <5>1. CASE k < t
          <6>1. k \in 1..t - 1 /\ k \in 1..n + 1  BY <1>3, <5>1
          <6> QED  BY <2>1, <4>2, <6>1
        <5>2. CASE k > t
          <6>1. k + 1 \in t + 2..n + 1 /\ k + 1 \in 1..n + 1 /\ (k + 1) - 1 = k  BY <1>3, <5>2
          <6>2. mblock'[k + 1] = mblock[k]  BY <2>1, <6>1
          <6> QED  BY <4>2, <6>1, <6>2
        <5> QED  BY <1>3, <5>1, <5>2
      <4>3. t \in 1..n + 1 /\ t + 1 \in 1..n + 1  BY <1>3
      <4>4. IsFree(a)' <=> \E i \in 1..n + 1 : Covers(mblock'[i], a)
        BY <1>3, <1>6 DEF IsFree, Covers, End
      <4> QED  BY <2>1, <4>1, <4>2, <4>3, <4>4
    <3>4. IsFree(a) <=> (\E i \in 1..n \ {t} : Covers(mblock[i], a)) \/ Covers(mblock[t], a)
      BY <1>3 DEF IsFree
    <3> QED  BY <3>1, <3>2, <3>3, <3>4
  <2> QED  BY <2>3, <2>4, <2>5, <2>6
<1> QED  BY <1>3, <1>5, <1>6 DEF Shape, n

-----------------------------------------------------------------------------
(* The initial memory map.                                                 *)

Base == ranks[1].start
Ceiling == Base + CUSTOM_CONFIG_MAX_DRAM_SIZE
Last == Len(ranks)

LEMMA Constants ==
  /\ CUSTOM_CONFIG_MAX_DRAM_SIZE \in Nat \ {0} /\ MaxRequests \in Nat
  /\ Base \in Nat /\ Last \in Rank /\ Rank = 1..Last /\ Last \in 1..4
  /\ Last = 1 \/ Last = 2 \/ Last = 3 \/ Last = 4
<1>1. Last \in 1..4
  BY MblockAssumption DEF MblockAssumption, RanksAssumption, Last
<1>2. Rank = 1..Last  BY DEF Rank, Last
<1>3. Last \in Rank /\ 1 \in Rank  BY <1>1, <1>2
<1> QED
  BY <1>1, <1>2, <1>3, RanksType, MblockAssumption DEF MblockAssumption, Base

LEMMA RanksCover ==
  ASSUME NEW a \in Nat, Base <= a, a < End(ranks[Last])
  PROVE  \E i \in Rank : Covers(ranks[i], a)
<1>1. ASSUME NEW i \in Rank, Base <= a, a < End(ranks[i])
      PROVE  Covers(ranks[i], a) \/ (i > 1 /\ a < End(ranks[i - 1]))
  <2>1. i > 1 => ranks[i].start = End(ranks[i - 1])  BY RanksAdjacent DEF End
  <2>2. ranks[i].start \in Nat  BY RanksType
  <2>3. CASE i = 1  BY <1>1, <2>3 DEF Covers, Base
  <2>4. CASE i > 1  BY <1>1, <2>1, <2>2, <2>4 DEF Covers
  <2> QED  BY <2>3, <2>4, RankIndex
<1>2. \A i \in Rank : a < End(ranks[i]) =>
        \/ \E j \in Rank : Covers(ranks[j], a)
        \/ i > 1 /\ i - 1 \in Rank /\ a < End(ranks[i - 1])
  BY <1>1, RankClosed, RankIndex
<1>3. 1 \in Rank /\ a < End(ranks[1]) => \E j \in Rank : Covers(ranks[j], a)  BY <1>2
<1>4. 2 \in Rank /\ a < End(ranks[2]) => \E j \in Rank : Covers(ranks[j], a)  BY <1>2, <1>3
<1>5. 3 \in Rank /\ a < End(ranks[3]) => \E j \in Rank : Covers(ranks[j], a)  BY <1>2, <1>4
<1>6. 4 \in Rank /\ a < End(ranks[4]) => \E j \in Rank : Covers(ranks[j], a)  BY <1>2, <1>5
<1> QED  BY <1>3, <1>4, <1>5, <1>6, Constants

LEMMA BelowType ==
  /\ Below(1) = 0
  /\ \A i \in Rank : Below(i) \in Nat /\ ranks[i].start = Base + Below(i)
  /\ \A i, j \in Rank : i < j => Below(i) + ranks[i].size <= Below(j)
<1>1. \A i \in Rank : ranks[i].start \in Nat /\ ranks[i].size \in Nat \ {0} /\ Base <= ranks[i].start
  BY RanksType, RankOrder DEF Base
<1>2. \A i, j \in Rank : i < j => ranks[i].start + ranks[i].size <= ranks[j].start
  BY RankOrder DEF End
<1>3. 1 \in Rank  BY RankClosed
<1> QED  BY <1>1, <1>2, <1>3 DEF Below, Base

LEMMA UsableRanksIs ==
  /\ UsableRanks \in Rank
  /\ \A i \in Rank : i <= UsableRanks <=> Below(i) < CUSTOM_CONFIG_MAX_DRAM_SIZE
<1> DEFINE P(i) == Below(i) < CUSTOM_CONFIG_MAX_DRAM_SIZE
<1>1. 1 \in Rank /\ P(1)  BY BelowType, RankClosed, Constants
<1>2. ASSUME NEW i \in Rank, NEW j \in Rank, i < j, P(j) PROVE P(i)
  <2>1. Below(i) \in Nat /\ Below(j) \in Nat /\ ranks[i].size \in Nat
    BY BelowType, RanksType
  <2>2. Below(i) + ranks[i].size <= Below(j)
    BY <1>2, BelowType
  <2> QED  BY <1>2, <2>1, <2>2, Constants
<1> HIDE DEF P
<1>3. \E n \in Rank : \A i \in Rank : i <= n <=> P(i)
  <2>1. CASE 4 \in Rank /\ P(4)
    <3>1. \A i \in Rank : i <= 4 /\ P(i)  BY <1>2, <2>1, RankIndex
    <3> QED  BY <2>1, <3>1
  <2>2. CASE 3 \in Rank /\ P(3) /\ ~(4 \in Rank /\ P(4))
    <3>1. \A i \in Rank : i <= 3 <=> P(i)  BY <1>2, <2>2, RankIndex
    <3> QED  BY <2>2, <3>1
  <2>3. CASE 2 \in Rank /\ P(2) /\ ~(3 \in Rank /\ P(3))
    <3>1. ~(4 \in Rank /\ P(4))  BY <1>2, <2>3, RankClosed
    <3>2. \A i \in Rank : i <= 2 <=> P(i)  BY <1>2, <2>3, <3>1, RankIndex
    <3> QED  BY <2>3, <3>2
  <2>4. CASE ~(2 \in Rank /\ P(2))
    <3>1. ~(3 \in Rank /\ P(3)) /\ ~(4 \in Rank /\ P(4))  BY <1>2, <2>4, RankClosed
    <3>2. \A i \in Rank : i <= 1 <=> P(i)  BY <1>1, <2>4, <3>1, RankIndex
    <3> QED  BY <1>1, <3>2
  <2>5. ~(3 \in Rank /\ P(3)) \/ (2 \in Rank /\ P(2))  BY <1>2, RankClosed
  <2> QED  BY <2>1, <2>2, <2>3, <2>4, <2>5
<1> QED  BY <1>3 DEF UsableRanks, P

LEMMA UsableType ==
  ASSUME NEW i \in 1..UsableRanks
  PROVE  /\ i \in Rank /\ Usable(i) \in Nat
         /\ Usable(i) <= ranks[i].size
         /\ ranks[i].start + Usable(i) <= Ceiling
         /\ Usable(i) = ranks[i].size \/ ranks[i].start + Usable(i) = Ceiling
<1>1. UsableRanks \in Rank  BY UsableRanksIs
<1>2. i \in Rank  BY <1>1, RankClosed, RankIndex
<1>3. Below(i) < CUSTOM_CONFIG_MAX_DRAM_SIZE  BY <1>1, <1>2, UsableRanksIs
<1>4. Below(i) \in Nat /\ ranks[i].start = Base + Below(i) /\ ranks[i].size \in Nat
  BY <1>2, BelowType, RanksType
<1> QED  BY <1>2, <1>3, <1>4, Constants DEF Usable, Smaller, Ceiling

LEMMA MblockInitIInv == MblockInit => MblockIInv
<1> SUFFICES ASSUME MblockInit PROVE MblockIInv
    OBVIOUS
<1> DEFINE u == UsableRanks
           block == [i \in 1..u |-> [start |-> ranks[i].start, size |-> Usable(i), rank |-> i - 1]]
<1>1. u \in Nat /\ u \in Rank
  BY UsableRanksIs, RankIndex
<1>2. mblock = block /\ reserved = <<>> /\ requests = 0
  BY DEF MblockInit, setup_mblock_info
<1>3. \A i \in 1..u : block[i] = [start |-> ranks[i].start, size |-> Usable(i), rank |-> i - 1]
  OBVIOUS
<1>4. \A i \in 1..u : i - 1 \in 0..3 /\ ranks[i].start \in Nat
  <2> SUFFICES ASSUME NEW i \in 1..u PROVE i - 1 \in 0..3 /\ ranks[i].start \in Nat
      OBVIOUS
  <2>1. i \in Rank  BY UsableType
  <2> QED  BY <2>1, RankIndex, RanksType
<1>5. \A i \in 1..u : block[i] \in mblock_t
  BY <1>3, <1>4, UsableType DEF mblock_t
<1>6. Len(mblock) = u /\ mblock \in Seq(mblock_t)
  <2> HIDE DEF u
  <2>1. block \in [1..u -> mblock_t]  BY <1>5
  <2> QED  BY <1>1, <1>2, <2>1
<1>7. \A i \in 1..u : /\ mblock[i].start = ranks[i].start /\ mblock[i].rank = i - 1
                     /\ End(mblock[i]) = ranks[i].start + Usable(i)
  BY <1>2, <1>3 DEF End
<1> HIDE DEF block, u
<1>8. TotalDram = End(ranks[Last]) - Base /\ End(ranks[Last]) \in Nat
  BY RanksType, Constants DEF TotalDram, Last, Base, End
<1>9. lca_reserved_mem = IF TotalDram > CUSTOM_CONFIG_MAX_DRAM_SIZE
                         THEN [start |-> Ceiling, size |-> TotalDram - CUSTOM_CONFIG_MAX_DRAM_SIZE]
                         ELSE [start |-> 0, size |-> 0]
  BY DEF MblockInit, setup_mblock_info, Ceiling, Base
<1>10. MblockTypeOK
  <2>1. lca_reserved_mem \in [start : Nat, size : Nat]
    BY <1>8, <1>9, Constants DEF Ceiling
  <2>2. rank_num \in 1..4
    <3>1. rank_num = Last \/ (Last > 1 /\ rank_num = Last - 1)
      BY DEF MblockInit, setup_mblock_info, Last
    <3> QED  BY <3>1, Constants
  <2>3. reserved \in Seq(reserved_t)
    BY <1>2
  <2> QED  BY <1>2, <1>6, <2>1, <2>2, <2>3, Constants DEF MblockTypeOK
<1>11. Sorted
  <2> SUFFICES ASSUME NEW i \in 1..u, NEW j \in 1..u, i < j
               PROVE  End(mblock[i]) <= mblock[j].start
      BY <1>6 DEF Sorted, mblock_num
  <2>1. i \in Rank /\ j \in Rank /\ Usable(i) \in Nat /\ Usable(i) <= ranks[i].size
    BY UsableType DEF u
  <2>2. ranks[i].start + ranks[i].size <= ranks[j].start
    BY <2>1, RankOrder DEF End
  <2> QED  BY <1>7, <2>1, <2>2, RanksType
<1>12. InsideDram /\ RankIsRight
  <2> SUFFICES ASSUME NEW i \in 1..u
               PROVE  /\ ranks[1].start <= mblock[i].start /\ mblock[i].rank + 1 \in Rank
                      /\ ranks[mblock[i].rank + 1].start <= mblock[i].start
                      /\ End(mblock[i]) <= End(ranks[mblock[i].rank + 1])
      BY <1>6 DEF InsideDram, RankIsRight, mblock_num
  <2>1. i \in Rank /\ Usable(i) \in Nat /\ Usable(i) <= ranks[i].size
    BY UsableType DEF u
  <2>2. mblock[i].rank + 1 = i /\ mblock[i].start = ranks[i].start
    BY <1>7, <2>1, RankIndex
  <2> QED  BY <1>7, <2>1, <2>2, RanksType, RankOrder DEF End
<1>13. \A a \in Nat : IsFree(a) => InDram(a) /\ a < Ceiling /\ Base <= a
  <2> SUFFICES ASSUME NEW a \in Nat, NEW i \in 1..u, Covers(mblock[i], a)
               PROVE  InDram(a) /\ a < Ceiling /\ Base <= a
      BY <1>6 DEF IsFree, mblock_num
  <2>1. /\ i \in Rank /\ Usable(i) \in Nat /\ Usable(i) <= ranks[i].size
        /\ ranks[i].start + Usable(i) <= Ceiling
    BY UsableType DEF u
  <2>2. ranks[i].start <= a /\ a < ranks[i].start + Usable(i)
    BY <1>7 DEF Covers
  <2>3. Covers(ranks[i], a)
    BY <2>1, <2>2, RanksType DEF Covers, End
  <2> QED  BY <2>1, <2>2, <2>3, RanksType, RankOrder, Constants DEF InDram, Base, Ceiling
<1>14. \A a \in Nat : ~IsReserved(a)
  BY <1>2 DEF IsReserved, reserved_num
<1>15. \A a \in Nat : Covers(lca_reserved_mem, a) <=> Ceiling <= a /\ a < End(ranks[Last])
  BY <1>8, <1>9, Constants DEF Covers, End, Ceiling
<1>16. \A a \in Nat : InDram(a) /\ a < Ceiling => IsFree(a)
  <2> SUFFICES ASSUME NEW a \in Nat, NEW i \in Rank, Covers(ranks[i], a), a < Ceiling
               PROVE  IsFree(a)
      BY DEF InDram
  <2>1. ranks[i].start \in Nat /\ ranks[i].size \in Nat /\ ranks[i].start = Base + Below(i) /\ Below(i) \in Nat
    BY RanksType, BelowType
  <2>2. ranks[i].start <= a /\ a < ranks[i].start + ranks[i].size
    BY DEF Covers, End
  <2>3. Below(i) < CUSTOM_CONFIG_MAX_DRAM_SIZE
    BY <2>1, <2>2, Constants DEF Ceiling
  <2>4. i \in 1..u
    BY <2>3, UsableRanksIs, RankIndex DEF u
  <2>5. Usable(i) \in Nat /\ (Usable(i) = ranks[i].size \/ ranks[i].start + Usable(i) = Ceiling)
    BY <2>4, UsableType DEF u
  <2>6. Covers(mblock[i], a)
    BY <1>7, <2>1, <2>2, <2>4, <2>5 DEF Covers
  <2> QED  BY <1>6, <2>4, <2>6 DEF IsFree, mblock_num
<1>17. \A a \in Nat : InDram(a) => Base <= a /\ a < End(ranks[Last])
  <2> SUFFICES ASSUME NEW a \in Nat, NEW i \in Rank, Covers(ranks[i], a)
               PROVE  Base <= a /\ a < End(ranks[Last])
      BY DEF InDram
  <2>1. ranks[i].start \in Nat /\ ranks[i].size \in Nat /\ Base \in Nat /\ Base <= ranks[i].start
    BY RanksType, RankOrder, Constants DEF Base
  <2>2. ranks[i].start <= a /\ a < End(ranks[i]) /\ End(ranks[i]) \in Nat
    BY <2>1 DEF Covers, End
  <2>3. CASE i = Last
    BY <2>1, <2>2, <2>3
  <2>4. CASE i < Last
    <3>1. End(ranks[i]) <= ranks[Last].start  BY <2>4, RankOrder, Constants
    <3>2. ranks[Last].start \in Nat /\ ranks[Last].start <= End(ranks[Last])  BY RanksType, Constants DEF End
    <3> QED  BY <1>8, <2>1, <2>2, <3>1, <3>2
  <2> QED  BY <2>3, <2>4, Constants
<1>18. \A a \in Nat : Ceiling <= a /\ a < End(ranks[Last]) => InDram(a)
  <2> SUFFICES ASSUME NEW a \in Nat, Ceiling <= a, a < End(ranks[Last]) PROVE InDram(a)
      OBVIOUS
  <2>1. Base <= a  BY Constants DEF Ceiling
  <2> QED  BY <2>1, RanksCover DEF InDram
<1>19. \A a \in Address : a \in Nat
  BY <1>8, Constants DEF Address, Base, Last
<1>20. Ceiling \in Nat  BY Constants DEF Ceiling
<1>21. Conserved
  <2> SUFFICES ASSUME NEW a \in Nat
               PROVE  InDram(a) <=> (IsFree(a) \/ IsReserved(a) \/ Covers(lca_reserved_mem, a))
      BY <1>19 DEF Conserved
  <2> QED  BY <1>13, <1>14, <1>15, <1>16, <1>17, <1>18, <1>20
<1>22. Exclusive
  <2>1. \A a \in Nat : Covers(lca_reserved_mem, a) => ~IsFree(a)
    BY <1>13, <1>15, <1>20
  <2> QED  BY <1>2, <1>14, <1>19, <2>1 DEF Exclusive, reserved_num
<1> QED  BY <1>10, <1>11, <1>12, <1>21, <1>22 DEF MblockIInv

-----------------------------------------------------------------------------
(* The step.                                                               *)

LEMMA AddressIsNat == \A a \in Address : a \in Nat
BY RanksType, Constants DEF Address, Last, End, Base

LEMMA MblockStepIInv == MblockIInv /\ [MblockNext]_mblock_vars => MblockIInv'
<1> SUFFICES ASSUME MblockIInv, [MblockNext]_mblock_vars PROVE MblockIInv'
    OBVIOUS
<1>1. ASSUME NEW r \in Requests, NEW t \in Candidates(r),
             reserved' = Append(reserved, Given(AddressIn(mblock[t], r), r)),
             Split(t, AddressIn(mblock[t], r), r),
             UNCHANGED <<lca_reserved_mem, rank_num>>, requests' \in 0..MaxRequests
      PROVE  MblockIInv'
  <2> DEFINE addr == AddressIn(mblock[t], r)
             given == Given(addr, r)
             n == Len(reserved)
  <2>1. t \in 1..mblock_num /\ Fits(mblock[t], r)
    BY DEF Candidates
  <2>2. addr \in Nat /\ mblock[t].start <= addr /\ addr + r.size <= End(mblock[t])
    BY <2>1, GrantedInside DEF MblockIInv
  <2>3. given \in reserved_t /\ given.start = addr /\ End(given) = addr + r.size
    BY <2>2, RequestType DEF Given, End, reserved_t
  <2>14. Split(t, addr, r)
    BY <1>1
  <2>15. reserved' = Append(reserved, given)
    BY <1>1
  <2> HIDE DEF addr, given
  <2>4. Shape(t, addr, r)
    BY <2>1, <2>2, <2>14, SplitShape DEF MblockIInv
  <2>5. /\ Sorted' /\ InsideDram' /\ RankIsRight'
        /\ \A a \in Nat : IsFree(a)' <=> IsFree(a) /\ ~ (addr <= a /\ a < addr + r.size)
    BY <2>1, <2>2, <2>4, SplitTakes DEF MblockIInv
  <2>6. /\ n \in Nat /\ reserved' \in Seq(reserved_t) /\ Len(reserved') = n + 1
        /\ reserved'[n + 1] = given
        /\ \A j \in 1..n : reserved'[j] = reserved[j]
    BY <2>3, <2>15 DEF MblockIInv, MblockTypeOK
  <2> HIDE DEF n
  <2>7. MblockTypeOK'
    BY <1>1, <2>4, <2>6 DEF MblockIInv, MblockTypeOK, Shape
  <2>8. \A a \in Nat : Covers(given, a) <=> addr <= a /\ a < addr + r.size
    BY <2>3 DEF Covers
  <2>9. \A a \in Nat : Covers(given, a) => IsFree(a)
    <3> SUFFICES ASSUME NEW a \in Nat, Covers(given, a) PROVE Covers(mblock[t], a)
        BY <2>1 DEF IsFree
    <3>1. addr <= a /\ a < addr + r.size  BY <2>8
    <3>2. mblock[t].start \in Nat /\ End(mblock[t]) \in Nat /\ r.size \in Nat
      BY <2>1, BlockType, RequestType DEF MblockIInv, MblockTypeOK, End
    <3> QED  BY <2>2, <3>1, <3>2 DEF Covers
  <2>10. \A a \in Nat : IsReserved(a)' <=> IsReserved(a) \/ Covers(given, a)
    <3> SUFFICES ASSUME NEW a \in Nat PROVE IsReserved(a)' <=> IsReserved(a) \/ Covers(given, a)
        OBVIOUS
    <3>1. IsReserved(a) <=> \E j \in 1..n : Covers(reserved[j], a)
      BY DEF IsReserved, reserved_num, n
    <3>2. IsReserved(a)' <=> \E j \in 1..n + 1 : Covers(reserved'[j], a)
      BY <2>6 DEF IsReserved, reserved_num, Covers, End
    <3>3. \A j \in 1..n + 1 : j \in 1..n \/ j = n + 1
      BY <2>6
    <3>4. n + 1 \in 1..n + 1 /\ \A j \in 1..n : j \in 1..n + 1
      BY <2>6
    <3> QED  BY <2>6, <3>1, <3>2, <3>3, <3>4
  <2>11. \A a \in Nat : IsFree(a)' <=> IsFree(a) /\ ~Covers(given, a)
    BY <2>5, <2>8
  <2>12. Conserved'
    <3> SUFFICES ASSUME NEW a \in Address
                 PROVE  InDram(a) <=> (IsFree(a)' \/ IsReserved(a)' \/ Covers(lca_reserved_mem, a))
        BY <1>1 DEF Conserved, Address, InDram, Covers, End, Rank
    <3> QED  BY <2>9, <2>10, <2>11, AddressIsNat DEF MblockIInv, Conserved
  <2>13. Exclusive'
    <3>1. ASSUME NEW i \in 1..n + 1, NEW j \in 1..n + 1, NEW a \in Address,
                 Covers(reserved'[i], a), Covers(reserved'[j], a)
          PROVE  i = j
      <4>1. \A k \in 1..n : Covers(reserved[k], a) => IsReserved(a)
        BY DEF IsReserved, reserved_num, n
      <4>2. IsReserved(a) => ~Covers(given, a)
        BY <2>9, AddressIsNat DEF MblockIInv, Exclusive
      <4>3. CASE i \in 1..n /\ j \in 1..n
        BY <2>6, <3>1, <4>3 DEF MblockIInv, Exclusive, reserved_num, n
      <4>4. CASE (i \in 1..n /\ j = n + 1) \/ (i = n + 1 /\ j \in 1..n)
        BY <2>6, <3>1, <4>1, <4>2, <4>4
      <4> QED  BY <2>6, <4>3, <4>4
    <3>2. \A a \in Address : ~(IsFree(a)' /\ IsReserved(a)')
      BY <2>10, <2>11, AddressIsNat DEF MblockIInv, Exclusive
    <3>3. \A a \in Address : Covers(lca_reserved_mem, a) => ~IsFree(a)' /\ ~IsReserved(a)'
      BY <2>9, <2>10, <2>11, AddressIsNat DEF MblockIInv, Exclusive
    <3>4. reserved_num' = n + 1  BY <2>6 DEF reserved_num
    <3>5. \A i, j \in 1..reserved_num' : \A a \in Address :
            Covers(reserved'[i], a) /\ Covers(reserved'[j], a) => i = j
      BY <3>1, <3>4
    <3>6. /\ \A a \in Address : ~(IsFree(a)' /\ IsReserved(a)')
          /\ \A a \in Address : Covers(lca_reserved_mem', a) => ~IsFree(a)' /\ ~IsReserved(a)'
      BY <1>1, <3>2, <3>3
    <3> QED  BY <3>5, <3>6 DEF Exclusive, Covers, End, Address
  <2> QED  BY <2>5, <2>7, <2>12, <2>13 DEF MblockIInv
<1>2. ASSUME UNCHANGED <<mblock, reserved, lca_reserved_mem, rank_num>>, requests' \in 0..MaxRequests
      PROVE  MblockIInv'
  BY <1>2 DEF MblockIInv, MblockTypeOK, Sorted, InsideDram, RankIsRight, Conserved, Exclusive, mblock_num,
              reserved_num, IsFree, IsReserved, InDram, Covers, End, Address, Rank
<1>3. CASE UNCHANGED mblock_vars
  BY <1>2, <1>3 DEF mblock_vars, map, MblockIInv, MblockTypeOK
<1>4. ASSUME NEW r \in Requests, mblock_reserve(r) PROVE MblockIInv'
  <2>1. requests' \in 0..MaxRequests
    BY <1>4, Constants DEF mblock_reserve, MblockIInv, MblockTypeOK
  <2>2. CASE Grant(r)
    BY <1>1, <1>4, <2>1, <2>2 DEF mblock_reserve, Grant
  <2>3. CASE Deny(r)
    BY <1>2, <1>4, <2>1, <2>3 DEF mblock_reserve, Deny
  <2> QED  BY <1>4, <2>2, <2>3 DEF mblock_reserve
<1> QED  BY <1>3, <1>4 DEF MblockNext

LEMMA MblockInvariance == MblockSpec => []MblockIInv
<1> QED  BY MblockInitIInv, MblockStepIInv, PTL DEF MblockSpec

\* Whatever is asked, in whatever order, for any number of requests.
THEOREM MapTypeCorrect == MblockSpec => []MblockTypeOK
<1>1. MblockIInv => MblockTypeOK  BY DEF MblockIInv
<1> QED  BY <1>1, MblockInvariance, PTL

\* The free list stays sorted and every block stays within its rank.
THEOREM ListWellFormed == MblockSpec => [](Sorted /\ RankIsRight)
<1>1. MblockIInv => Sorted /\ RankIsRight  BY DEF MblockIInv
<1> QED  BY <1>1, MblockInvariance, PTL

\* Every address of the DRAM is free, reserved or beyond the configured maximum,
\* and only one of these, and no two firmware regions overlap.
THEOREM MemoryIsPartitioned == MblockSpec => [](Conserved /\ Exclusive)
<1>1. MblockIInv => Conserved /\ Exclusive  BY DEF MblockIInv
<1> QED  BY <1>1, MblockInvariance, PTL

\* In mblock.c the list never outgrows its array, for any number of requests.
THEOREM ListNeverOverflows == VERSION = 1 => (MblockSpec => []ListHolds)
<1> SUFFICES ASSUME VERSION = 1 PROVE MblockSpec => []ListHolds
    OBVIOUS
<1>1. MblockInit => ListHolds
  <2> SUFFICES ASSUME MblockInit PROVE ListHolds
      OBVIOUS
  <2>1. mblock_num = UsableRanks /\ UsableRanks \in 1..Last
    <3>1. UsableRanks \in Rank /\ UsableRanks \in Nat  BY UsableRanksIs, RankIndex
    <3> HIDE DEF UsableRanks
    <3>2. Len(mblock) = UsableRanks  BY <3>1 DEF MblockInit, setup_mblock_info
    <3> QED  BY <3>1, <3>2, Constants DEF mblock_num
  <2> QED  BY <2>1, MblockAssumption, Constants DEF MblockAssumption, ListHolds, Last
<1>2. MblockIInv /\ ListHolds /\ [MblockNext]_mblock_vars => ListHolds'
  <2> SUFFICES ASSUME MblockIInv, ListHolds, MblockNext PROVE ListHolds'
      BY DEF ListHolds, mblock_num, mblock_vars, map
  <2>1. PICK r \in Requests : mblock_reserve(r)
    BY DEF MblockNext
  <2>2. CASE Deny(r)
    BY <2>2 DEF Deny, ListHolds, mblock_num
  <2>3. CASE Grant(r)
    <3>1. PICK t \in Candidates(r) : Split(t, AddressIn(mblock[t], r), r)
      BY <2>3 DEF Grant
    <3>2. t \in 1..mblock_num /\ Fits(mblock[t], r)
      BY DEF Candidates
    <3>3. Shape(t, AddressIn(mblock[t], r), r)
      BY <3>1, <3>2, GrantedInside, SplitShape DEF MblockIInv
    <3>4. Len(mblock') \in {mblock_num, mblock_num + 1} /\ mblock_num \in Nat
      BY <3>3 DEF Shape, mblock_num, MblockIInv, MblockTypeOK
    <3>5. mblock_num # MBLOCK_NUM_MAX
      BY <2>3 DEF Grant, Refused
    <3> QED
      BY <3>4, <3>5, MblockAssumption DEF MblockAssumption, ListHolds, mblock_num
  <2> QED  BY <2>1, <2>2, <2>3 DEF mblock_reserve
<1> QED  BY <1>1, <1>2, MblockInvariance, PTL DEF MblockSpec

\* In mblock_v2.c nothing is recorded beyond reserved[], for any number of
\* requests: the check for a taken slot refuses the first entry behind it.
THEOREM RecordNeverOverflows == MblockSpec => []RecordHolds
<1>1. MblockInit => RecordHolds
  BY MblockAssumption DEF MblockAssumption, MblockInit, RecordHolds, reserved_num
<1>2. MblockIInv /\ RecordHolds /\ [MblockNext]_mblock_vars => RecordHolds'
  <2> SUFFICES ASSUME VERSION = 2, MblockIInv, RecordHolds, MblockNext PROVE RecordHolds'
      BY DEF RecordHolds, reserved_num, mblock_vars
  <2>1. PICK r \in Requests : mblock_reserve(r)
    BY DEF MblockNext
  <2>2. CASE Deny(r)
    BY <2>2 DEF Deny, RecordHolds, reserved_num
  <2>3. CASE Grant(r)
    <3>1. ~SlotTaken /\ Len(reserved') = reserved_num + 1 /\ reserved_num \in Nat
      BY <2>3 DEF Grant, reserved_num, MblockIInv, MblockTypeOK
    <3>2. rank_num # 0
      BY DEF MblockIInv, MblockTypeOK
    <3>3. reserved_num < MBLOCK_RESERVED_NUM_MAX
      BY <3>1, <3>2 DEF SlotTaken, NextStart
    <3> QED
      BY <3>1, <3>3, MblockAssumption DEF MblockAssumption, RecordHolds, reserved_num
  <2> QED  BY <2>1, <2>2, <2>3 DEF mblock_reserve
<1> QED  BY <1>1, <1>2, MblockInvariance, PTL DEF MblockSpec

-----------------------------------------------------------------------------
(* The highest address.  Two blocks of a rank are apart (Separated), so    *)
(* free memory without a gap lies in one block, and the highest place in   *)
(* the block that ends highest is the highest of all.                      *)

NotEmpty(block) == block.start < End(block)

\* Between two blocks of a rank lies memory that is not free.
Separated == \A i, j \in 1..mblock_num :
  i < j /\ mblock[i].rank = mblock[j].rank /\ NotEmpty(mblock[i]) /\ NotEmpty(mblock[j])
    => End(mblock[i]) < mblock[j].start

\* A split leaves a gap, of the size granted, between the parts.
LEMMA SplitSeparates ==
  ASSUME MblockTypeOK, Sorted, Separated,
         NEW r \in Requests, NEW t \in 1..mblock_num, NEW addr \in Nat,
         mblock[t].start <= addr, addr + r.size <= End(mblock[t]), Shape(t, addr, r)
  PROVE  Separated'
<1> DEFINE lower == Lower(mblock[t], addr)
           upper == Upper(mblock[t], addr, r)
           n == Len(mblock)
           old(i) == IF n = Len(mblock') \/ i <= t THEN i ELSE i - 1
<1>1. /\ lower.start = mblock[t].start /\ End(lower) = addr /\ lower.rank = mblock[t].rank
      /\ upper.start = addr + r.size /\ End(upper) = End(mblock[t]) /\ upper.rank = mblock[t].rank
  BY PartsType
<1>2. ASSUME NEW i \in 1..n
      PROVE  mblock[i].start \in Nat /\ End(mblock[i]) \in Nat /\ mblock[i].start <= End(mblock[i])
  <2>1. mblock \in Seq(mblock_t) /\ i \in 1..mblock_num
    BY <1>2 DEF MblockTypeOK, mblock_num
  <2>2. mblock[i].start \in Nat /\ mblock[i].size \in Nat
    BY <2>1, BlockType
  <2> QED  BY <2>2 DEF End
<1>3. n \in Nat /\ t \in 1..n /\ r.size \in Nat \ {0} /\ mblock_num = n /\ mblock_num' = Len(mblock')
  BY RequestType DEF MblockTypeOK, mblock_num
<1>4. mblock[t].start \in Nat /\ End(mblock[t]) \in Nat /\ addr + r.size \in Nat
  BY <1>2, <1>3
<1>5. \/ /\ Len(mblock') = n
         /\ \A i \in 1..n \ {t} : mblock'[i] = mblock[i]
         /\ mblock'[t] \in {lower, upper}
      \/ /\ Len(mblock') = n + 1
         /\ \A i \in 1..t - 1 : mblock'[i] = mblock[i]
         /\ mblock'[t] = lower /\ mblock'[t + 1] = upper
         /\ \A i \in t + 2 .. n + 1 : mblock'[i] = mblock[i - 1]
  BY DEF Shape
<1> HIDE DEF lower, upper, n
\* A block is part of an old one.
<1>6. ASSUME NEW i \in 1..Len(mblock')
      PROVE  /\ old(i) \in 1..n
             /\ mblock'[i].rank = mblock[old(i)].rank
             /\ mblock[old(i)].start <= mblock'[i].start /\ mblock'[i].start \in Nat
             /\ End(mblock'[i]) <= End(mblock[old(i)]) /\ End(mblock'[i]) \in Nat
  <2>1. old(i) \in 1..n
    BY <1>3, <1>5
  <2>2. CASE mblock'[i] = mblock[old(i)]
    BY <1>2, <2>1, <2>2
  <2>3. CASE old(i) = t /\ mblock'[i] \in {lower, upper}
    BY <1>1, <1>3, <1>4, <2>1, <2>3
  <2>4. mblock'[i] = mblock[old(i)] \/ (old(i) = t /\ mblock'[i] \in {lower, upper})
    <3>1. CASE Len(mblock') = n
      BY <1>3, <1>5, <3>1
    <3>2. CASE Len(mblock') = n + 1
      <4>1. i \in 1..t - 1 \/ i = t \/ i = t + 1 \/ i \in t + 2 .. n + 1
        BY <1>3, <3>2
      <4>2. n # Len(mblock')  BY <1>3, <3>2
      <4> QED  BY <1>3, <1>5, <3>2, <4>1, <4>2
    <3> QED  BY <1>5, <3>1, <3>2
  <2> QED  BY <2>1, <2>2, <2>3, <2>4
<1> SUFFICES ASSUME NEW i \in 1..Len(mblock'), NEW j \in 1..Len(mblock'), i < j,
                    mblock'[i].rank = mblock'[j].rank,
                    mblock'[i].start < End(mblock'[i]), mblock'[j].start < End(mblock'[j])
             PROVE  End(mblock'[i]) < mblock'[j].start
    BY <1>3 DEF Separated, NotEmpty, End
<1> DEFINE p == old(i)
           q == old(j)
<1>7. p < q \/ (p = t /\ q = t /\ mblock'[i] = lower /\ mblock'[j] = upper)
  <2>1. CASE Len(mblock') = n
    BY <1>3, <2>1
  <2>2. CASE Len(mblock') = n + 1
    BY <1>3, <1>5, <2>2
  <2> QED  BY <1>5, <2>1, <2>2
<1>8. /\ p \in 1..n /\ q \in 1..n
      /\ mblock[p].rank = mblock[q].rank
      /\ mblock[p].start <= mblock'[i].start /\ End(mblock'[i]) <= End(mblock[p])
      /\ mblock[q].start <= mblock'[j].start /\ End(mblock'[j]) <= End(mblock[q])
      /\ mblock'[i].start \in Nat /\ mblock'[j].start \in Nat
      /\ End(mblock'[i]) \in Nat /\ End(mblock'[j]) \in Nat
  BY <1>6
<1> HIDE DEF p, q, old
<1>9. CASE p < q
  <2> DEFINE si == mblock'[i].start
             sj == mblock'[j].start
             ei == End(mblock'[i])
             ej == End(mblock'[j])
  <2>1. /\ mblock[p].start <= si /\ ei <= End(mblock[p]) /\ si < ei
        /\ mblock[q].start <= sj /\ ej <= End(mblock[q]) /\ sj < ej
        /\ si \in Nat /\ sj \in Nat /\ ei \in Nat /\ ej \in Nat
    BY <1>8, Zenon
  <2>2. /\ mblock[p].start \in Nat /\ End(mblock[p]) \in Nat
        /\ mblock[q].start \in Nat /\ End(mblock[q]) \in Nat
    BY <1>2, <1>8, Zenon
  <2>3. ei < sj <=> End(mblock'[i]) < mblock'[j].start
    OBVIOUS
  <2> HIDE DEF si, sj, ei, ej
  <2>4. mblock[p].start < End(mblock[p])  BY <2>1, <2>2
  <2>5. mblock[q].start < End(mblock[q])  BY <2>1, <2>2
  <2>6. End(mblock[p]) < mblock[q].start
    BY <1>3, <1>8, <1>9, <2>4, <2>5, Zenon DEF Separated, NotEmpty
  <2>7. ei < sj  BY <2>1, <2>2, <2>6
  <2> QED  BY <2>3, <2>7
<1>10. CASE mblock'[i] = lower /\ mblock'[j] = upper
  BY <1>1, <1>3, <1>4, <1>10
<1> QED  BY <1>7, <1>9, <1>10

LEMMA InitSeparated == MblockInit => Separated
<1> SUFFICES ASSUME MblockInit PROVE Separated
    OBVIOUS
<1> DEFINE u == UsableRanks
<1>1. u \in Nat
  BY UsableRanksIs, RankIndex
<1>2. mblock = [i \in 1..u |-> [start |-> ranks[i].start, size |-> Usable(i), rank |-> i - 1]]
  BY DEF MblockInit, setup_mblock_info
<1> HIDE DEF u
<1>3. Len(mblock) = u /\ \A i \in 1..u : mblock[i].rank = i - 1
  BY <1>1, <1>2
<1>4. \A i, j \in 1..u : i < j => mblock[i].rank # mblock[j].rank
  BY <1>1, <1>3
<1> QED  BY <1>3, <1>4 DEF Separated, mblock_num

LEMMA StepSeparated == MblockIInv /\ Separated /\ [MblockNext]_mblock_vars => Separated'
<1> SUFFICES ASSUME MblockIInv, Separated, [MblockNext]_mblock_vars PROVE Separated'
    OBVIOUS
<1>1. CASE UNCHANGED mblock
  BY <1>1 DEF Separated, NotEmpty, End, mblock_num
<1>2. ASSUME NEW r \in Requests, Grant(r) PROVE Separated'
  <2>1. PICK t \in Candidates(r) : Split(t, AddressIn(mblock[t], r), r)
    BY <1>2 DEF Grant
  <2>2. t \in 1..mblock_num /\ Fits(mblock[t], r)
    BY DEF Candidates
  <2> DEFINE addr == AddressIn(mblock[t], r)
  <2>3. addr \in Nat /\ mblock[t].start <= addr /\ addr + r.size <= End(mblock[t])
    BY <2>2, GrantedInside DEF MblockIInv
  <2>4. Split(t, addr, r)  BY <2>1
  <2> HIDE DEF addr
  <2>5. Shape(t, addr, r)
    BY <2>2, <2>3, <2>4, SplitShape DEF MblockIInv
  <2> QED  BY <2>2, <2>3, <2>5, SplitSeparates DEF MblockIInv
<1> QED  BY <1>1, <1>2 DEF MblockNext, mblock_reserve, Deny, mblock_vars, map

-----------------------------------------------------------------------------
(* Alignment.                                                              *)

LEMMA DivMod ==
  ASSUME NEW a \in Nat, NEW m \in Nat \ {0}
  PROVE  a \div m \in Nat /\ a % m \in 0..m - 1 /\ a = (a \div m) * m + (a % m)
OBVIOUS

LEMMA Times ==
  ASSUME NEW p \in Nat, NEW q \in Nat, NEW m \in Nat \ {0}
  PROVE  /\ p * m \in Nat /\ (p + 1) * m = p * m + m
         /\ p < q => p * m + m <= q * m
         /\ p <= q => p * m <= q * m
OBVIOUS

\* Aligning down is monotone, and what is aligned stays where it is.
LEMMA AlignedDownIs ==
  ASSUME NEW a \in Nat, NEW m \in Nat \ {0}
  PROVE  AlignedDown(a, m) = (a \div m) * m /\ AlignedDown(a, m) \in Nat
<1>1. a \div m \in Nat /\ a % m \in 0..m - 1 /\ a = (a \div m) * m + (a % m)  BY DivMod
<1>2. (a \div m) * m \in Nat  BY <1>1, Times
<1>3. AlignedDown(a, m) = a - (a % m)  BY DEF AlignedDown
<1> QED  BY <1>1, <1>2, <1>3

LEMMA AlignedDownMonotone ==
  ASSUME NEW a \in Nat, NEW b \in Nat, a <= b, NEW m \in Nat
  PROVE  AlignedDown(a, m) <= AlignedDown(b, m)
<1>1. CASE m = 0  BY <1>1 DEF AlignedDown
<1>2. CASE m # 0
  <2> DEFINE p == a \div m
             q == b \div m
  <2>1. p \in Nat /\ a % m \in 0..m - 1 /\ a = p * m + (a % m)  BY <1>2, DivMod
  <2>2. q \in Nat /\ b % m \in 0..m - 1 /\ b = q * m + (b % m)  BY <1>2, DivMod
  <2>3. AlignedDown(a, m) = p * m /\ AlignedDown(b, m) = q * m  BY <1>2, AlignedDownIs
  <2> HIDE DEF p, q
  <2>4. q < p => q * m + m <= p * m  BY <1>2, <2>1, <2>2, Times
  <2>5. p <= q => p * m <= q * m  BY <1>2, <2>1, <2>2, Times
  <2>6. p * m \in Nat /\ q * m \in Nat  BY <1>2, <2>1, <2>2, Times
  <2>7. ~ (q < p)  BY <2>1, <2>2, <2>4, <2>6
  <2> QED  BY <2>1, <2>2, <2>3, <2>5, <2>7
<1> QED  BY <1>1, <1>2

LEMMA AlignedDownTwice ==
  ASSUME NEW a \in Nat, NEW m \in Nat
  PROVE  AlignedDown(AlignedDown(a, m), m) = AlignedDown(a, m)
<1>1. CASE m = 0  BY <1>1 DEF AlignedDown
<1>2. CASE m # 0
  <2> DEFINE p == a \div m
             c == AlignedDown(a, m)
  <2>1. p \in Nat /\ c = p * m /\ c \in Nat  BY <1>2, DivMod, AlignedDownIs
  <2> DEFINE q == c \div m
  <2>2. q \in Nat /\ c % m \in 0..m - 1 /\ c = q * m + (c % m)  BY <1>2, <2>1, DivMod
  <2>3. AlignedDown(c, m) = q * m  BY <1>2, <2>1, AlignedDownIs
  <2> HIDE DEF p, q, c
  <2>4. q < p => q * m + m <= p * m  BY <1>2, <2>1, <2>2, Times
  <2>5. p <= q => p * m <= q * m  BY <1>2, <2>1, <2>2, Times
  <2>6. p * m \in Nat /\ q * m \in Nat  BY <1>2, <2>1, <2>2, Times
  <2>7. ~ (q < p)  BY <1>2, <2>1, <2>2, <2>4, <2>6
  <2>8. AlignedDown(c, m) = c  BY <2>1, <2>2, <2>3, <2>5, <2>6, <2>7
  <2> QED  BY <2>8 DEF c
<1> QED  BY <1>1, <1>2

-----------------------------------------------------------------------------
(* Where a request could go.                                               *)

LEMMA TopIs ==
  ASSUME MblockTypeOK, InsideDram, NEW r \in Requests, NEW i \in 1..mblock_num
  PROVE  /\ mblock[i].start \in Nat /\ End(mblock[i]) \in Nat
         /\ ranks[1].start \in Nat /\ ranks[1].start <= mblock[i].start
         /\ Top(mblock[i], r) \in Nat /\ Top(mblock[i], r) - r.size \in Nat
         /\ Top(mblock[i], r) <= r.limit /\ Top(mblock[i], r) <= End(mblock[i])
         /\ Top(mblock[i], r) \in {r.limit, End(mblock[i])}
<1>1. mblock[i].start \in Nat /\ mblock[i].size \in Nat
  BY BlockType DEF MblockTypeOK
<1>2. /\ ranks[1].start \in Nat /\ ranks[1].start <= mblock[i].start
      /\ End(mblock[i]) \in Nat /\ mblock[i].start <= End(mblock[i])
  BY <1>1, RanksType, RankClosed DEF InsideDram, End
<1>3. r.size \in Nat /\ r.size <= ranks[1].start /\ r.limit \in Nat /\ r.size <= r.limit
  BY RequestType
<1> QED  BY <1>1, <1>2, <1>3 DEF Top, Smaller

\* A block lies in no rank but its own.
LEMMA OwnRank ==
  ASSUME MblockTypeOK, InsideDram, RankIsRight, NEW i \in 1..mblock_num, NEW k \in Rank,
         NEW a \in Nat, Covers(mblock[i], a), Covers(ranks[k], a)
  PROVE  mblock[i].rank + 1 = k
<1> DEFINE l == mblock[i].rank + 1
<1>1. l \in Rank  BY DEF InsideDram
<1>2. l \in Nat /\ k \in Nat  BY <1>1, RankIndex
<1>3. ranks[l].start <= mblock[i].start /\ End(mblock[i]) <= End(ranks[l])
  BY DEF RankIsRight
<1>4. mblock[i].start \in Nat /\ End(mblock[i]) \in Nat
  BY BlockType DEF MblockTypeOK, End
<1>5. mblock[i].start <= a /\ a < End(mblock[i]) /\ ranks[k].start <= a /\ a < End(ranks[k])
  BY DEF Covers
<1> HIDE DEF l
<1>6. /\ ranks[l].start \in Nat /\ End(ranks[l]) \in Nat
      /\ ranks[k].start \in Nat /\ End(ranks[k]) \in Nat
  BY <1>1, RanksType DEF End
<1>7. l < k => End(ranks[l]) <= ranks[k].start  BY <1>1, RankOrder
<1>8. k < l => End(ranks[k]) <= ranks[l].start  BY <1>1, RankOrder
<1>9. l = k  BY <1>2, <1>3, <1>4, <1>5, <1>6, <1>7, <1>8
<1> QED  BY <1>9 DEF l

\* Free memory of one rank without a gap lies in the block it begins in.
LEMMA OneBlock ==
  ASSUME MblockTypeOK, Sorted, InsideDram, RankIsRight, Separated,
         NEW i \in 1..mblock_num, NEW k \in Rank,
         NEW a \in Nat, NEW n \in Nat, Covers(mblock[i], a),
         \A x \in a .. a + n - 1 : Covers(ranks[k], x) /\ IsFree(x)
  PROVE  a + n <= End(mblock[i])
<1> SUFFICES ASSUME End(mblock[i]) < a + n PROVE FALSE
  <2>1. End(mblock[i]) \in Nat  BY BlockType DEF MblockTypeOK, End
  <2> QED  BY <2>1
<1> DEFINE e == End(mblock[i])
<1>1. mblock[i].start \in Nat /\ e \in Nat /\ mblock[i].start <= a /\ a < e
  BY BlockType DEF MblockTypeOK, End, Covers
<1>2. e \in a .. a + n - 1 /\ a \in a .. a + n - 1
  BY <1>1
<1>3. Covers(ranks[k], e) /\ Covers(ranks[k], a) /\ IsFree(e)
  BY <1>2
<1>4. PICK j \in 1..mblock_num : Covers(mblock[j], e)
  BY <1>3 DEF IsFree
<1>5. mblock[i].rank + 1 = k /\ mblock[j].rank + 1 = k
  BY <1>1, <1>3, <1>4, OwnRank
<1>6. mblock[i].rank = mblock[j].rank
  <2>1. mblock[i].rank \in 0..3 /\ mblock[j].rank \in 0..3  BY BlockType DEF MblockTypeOK
  <2> QED  BY <1>5, <2>1
<1>7. mblock[j].start \in Nat /\ End(mblock[j]) \in Nat /\ mblock[j].start <= e /\ e < End(mblock[j])
  <2>1. mblock[j].start \in Nat /\ mblock[j].size \in Nat  BY BlockType DEF MblockTypeOK
  <2>2. End(mblock[j]) \in Nat  BY <2>1 DEF End
  <2> QED  BY <1>4, <2>1, <2>2 DEF Covers
<1>8. mblock[i].start < End(mblock[i]) /\ mblock[j].start < End(mblock[j])
  BY <1>1, <1>7
<1>9. i \in Nat /\ j \in Nat  BY DEF MblockTypeOK, mblock_num
<1>10. CASE i < j
  <2>1. End(mblock[i]) < mblock[j].start  BY <1>6, <1>8, <1>10 DEF Separated, NotEmpty
  <2> QED  BY <1>1, <1>7, <2>1
<1>11. CASE j < i
  <2>1. End(mblock[j]) <= mblock[i].start  BY <1>11 DEF Sorted
  <2> QED  BY <1>1, <1>7, <2>1
<1>12. CASE i = j
  BY <1>1, <1>7, <1>12
<1> QED  BY <1>9, <1>10, <1>11, <1>12

\* Whatever address would do, the search finds a block with one no lower.
LEMMA PossibleIsCandidate ==
  ASSUME MblockIInv, Separated, NEW r \in Requests, NEW a \in Address, Possible(a, r)
  PROVE  \E i \in Candidates(r) : a <= AddressIn(mblock[i], r)
<1>1. PICK k \in Rank :
        /\ VERSION = 1 /\ r.rank = "RANK0" => k = 1
        /\ \A x \in a..(a + r.size - 1) : Covers(ranks[k], x) /\ IsFree(x)
  BY DEF Possible
<1>2. /\ a \in Nat /\ r.size \in Nat \ {0} /\ r.limit \in Nat
      /\ AlignedDown(a, Align(r)) = a /\ a + r.size <= r.limit
  BY AddressIsNat, RequestType DEF Possible
<1>3. a \in a..(a + r.size - 1)  BY <1>2
<1>4. PICK i \in 1..mblock_num : Covers(mblock[i], a)
  BY <1>1, <1>3 DEF IsFree
<1>5. a + r.size <= End(mblock[i])
  <2>1. r.size \in Nat  BY <1>2
  <2> QED  BY <1>1, <1>2, <1>4, <2>1, OneBlock DEF MblockIInv
<1>6. /\ mblock[i].start \in Nat /\ End(mblock[i]) \in Nat
      /\ Top(mblock[i], r) \in Nat /\ Top(mblock[i], r) - r.size \in Nat
      /\ Top(mblock[i], r) <= r.limit /\ Top(mblock[i], r) <= End(mblock[i])
      /\ Top(mblock[i], r) \in {r.limit, End(mblock[i])}
  BY TopIs DEF MblockIInv
<1>7. a <= Top(mblock[i], r) - r.size
  BY <1>2, <1>5, <1>6
<1>8. Align(r) \in Nat  BY AlignIsNat
<1>9. /\ AddressIn(mblock[i], r) \in 0..Top(mblock[i], r) - r.size
      /\ a <= AddressIn(mblock[i], r)
  <2>1. AddressIn(mblock[i], r) \in 0..Top(mblock[i], r) - r.size
    BY <1>6, <1>8, AlignedDownIsBelow DEF AddressIn
  <2>2. AlignedDown(a, Align(r)) <= AddressIn(mblock[i], r)
    BY <1>2, <1>6, <1>7, <1>8, AlignedDownMonotone DEF AddressIn
  <2> QED  BY <1>2, <2>1, <2>2
<1>10. AllowedRank(mblock[i], r)
  <2>1. mblock[i].rank + 1 = k
    BY <1>1, <1>2, <1>3, <1>4, OwnRank DEF MblockIInv
  <2>2. mblock[i].rank \in 0..3  BY BlockType DEF MblockIInv, MblockTypeOK
  <2>3. k = 1 => mblock[i].rank = 0  BY <2>1, <2>2
  <2> QED  BY <1>1, <2>3 DEF AllowedRank
<1>11. mblock[i].start <= a  BY <1>4 DEF Covers
<1>12. Fits(mblock[i], r)
  BY <1>2, <1>6, <1>9, <1>10, <1>11 DEF Fits
<1> QED  BY <1>9, <1>12 DEF Candidates

\* The block chosen has the highest address of all candidates.
LEMMA TargetIsHighest ==
  ASSUME MblockTypeOK, InsideDram, NEW r \in Requests, NEW t \in Candidates(r), IsTarget(t, r),
         NEW i \in Candidates(r)
  PROVE  AddressIn(mblock[i], r) <= AddressIn(mblock[t], r)
<1>1. i \in 1..mblock_num /\ t \in 1..mblock_num  BY DEF Candidates
<1>2. End(mblock[i]) <= End(mblock[t])
  <2>1. End(mblock[i]) \in Nat /\ End(mblock[t]) \in Nat  BY <1>1, TopIs
  <2>2. End(mblock[i]) < End(mblock[t]) \/ End(mblock[i]) = End(mblock[t])  BY DEF IsTarget
  <2> QED  BY <2>1, <2>2
<1>3. r.size \in Nat /\ r.limit \in Nat  BY RequestType
<1>4. End(mblock[i]) \in Nat /\ End(mblock[t]) \in Nat  BY <1>1, TopIs
<1>5. Top(mblock[i], r) <= Top(mblock[t], r)
  BY <1>2, <1>3, <1>4 DEF Top, Smaller
<1>6. /\ Top(mblock[i], r) - r.size \in Nat /\ Top(mblock[t], r) - r.size \in Nat
      /\ Top(mblock[i], r) \in Nat /\ Top(mblock[t], r) \in Nat
  BY <1>1, TopIs
<1>7. Top(mblock[i], r) - r.size <= Top(mblock[t], r) - r.size
  BY <1>3, <1>5, <1>6
<1> QED  BY <1>6, <1>7, AlignIsNat, AlignedDownMonotone DEF AddressIn

\* What is granted could be granted, and is above the address of no memory.
LEMMA GrantedIsPossible ==
  ASSUME MblockIInv, NEW r \in Requests, NEW t \in Candidates(r)
  PROVE  Possible(AddressIn(mblock[t], r), r) /\ AddressIn(mblock[t], r) # 0
<1> DEFINE addr == AddressIn(mblock[t], r)
           k == mblock[t].rank + 1
<1>1. t \in 1..mblock_num /\ Fits(mblock[t], r)  BY DEF Candidates
<1>2. /\ mblock[t].start \in Nat /\ End(mblock[t]) \in Nat
      /\ ranks[1].start \in Nat /\ ranks[1].start <= mblock[t].start
      /\ Top(mblock[t], r) - r.size \in Nat
  BY <1>1, TopIs DEF MblockIInv
<1>3. addr \in Nat /\ mblock[t].start <= addr /\ addr + r.size <= End(mblock[t])
  BY <1>1, GrantedInside DEF MblockIInv
<1>4. r.size \in Nat \ {0} /\ r.size <= ranks[1].start  BY RequestType
<1>5. addr + r.size <= r.limit  BY <1>1 DEF Fits
<1>6. AlignedDown(addr, Align(r)) = addr
  BY <1>2, AlignIsNat, AlignedDownTwice DEF AddressIn
<1>7. k \in Rank /\ ranks[k].start <= mblock[t].start /\ End(mblock[t]) <= End(ranks[k])
  BY <1>1 DEF MblockIInv, InsideDram, RankIsRight
<1>8. VERSION = 1 /\ r.rank = "RANK0" => k = 1
  BY <1>1 DEF Fits, AllowedRank
<1> HIDE DEF addr, k
<1>9. ranks[k].start \in Nat /\ End(ranks[k]) \in Nat  BY <1>7, RanksType DEF End
<1>10. ASSUME NEW x \in addr..(addr + r.size - 1) PROVE Covers(ranks[k], x) /\ IsFree(x)
  <2>1. x \in Nat /\ addr <= x /\ x < addr + r.size  BY <1>3, <1>4
  <2>2. Covers(mblock[t], x)  BY <1>2, <1>3, <1>4, <2>1 DEF Covers
  <2>3. Covers(ranks[k], x)  BY <1>2, <1>3, <1>4, <1>7, <1>9, <2>1 DEF Covers
  <2> QED  BY <1>1, <2>2, <2>3 DEF IsFree
<1>11. Possible(addr, r)
  BY <1>5, <1>6, <1>7, <1>8, <1>10 DEF Possible
<1>12. addr # 0  BY <1>2, <1>3, <1>4
<1> QED  BY <1>11, <1>12 DEF addr

\* What the answer to a call is.
IsHighest ==
  LET r == answer'.request IN
  IF answer'.got = 0
  THEN Refused(r) \/ SlotTaken \/ ~ \E a \in Address : Possible(a, r)
  ELSE /\ Possible(answer'.got, r)
       /\ \A a \in Address : Possible(a, r) => a <= answer'.got

LEMMA StepIsHighest == MblockIInv /\ Separated /\ MblockNext => IsHighest
<1> SUFFICES ASSUME MblockIInv, Separated, NEW r \in Requests, mblock_reserve(r) PROVE IsHighest
    BY DEF MblockNext
<1>1. CASE Grant(r)
  <2>1. PICK t \in Candidates(r) :
          IsTarget(t, r) /\ answer' = [got |-> AddressIn(mblock[t], r), request |-> r]
    BY <1>1 DEF Grant
  <2> DEFINE addr == AddressIn(mblock[t], r)
  <2>2. Possible(addr, r) /\ addr # 0
    BY GrantedIsPossible
  <2>3. ASSUME NEW a \in Address, Possible(a, r) PROVE a <= addr
    <3>1. PICK i \in Candidates(r) : a <= AddressIn(mblock[i], r)
      BY <2>3, PossibleIsCandidate
    <3>2. AddressIn(mblock[i], r) <= addr
      BY <2>1, TargetIsHighest DEF MblockIInv
    <3>3. i \in 1..mblock_num /\ t \in 1..mblock_num /\ Fits(mblock[i], r) /\ Fits(mblock[t], r)
      BY DEF Candidates
    <3>4. AddressIn(mblock[i], r) \in Nat /\ addr \in Nat
      BY <3>3, GrantedInside DEF MblockIInv
    <3>5. a \in Nat  BY AddressIsNat
    <3> QED  BY <3>1, <3>2, <3>4, <3>5
  <2>4. answer'.got = addr /\ answer'.request = r
    BY <2>1
  <2> HIDE DEF addr
  <2> QED  BY <2>2, <2>3, <2>4 DEF IsHighest
<1>2. CASE Deny(r)
  <2>1. answer'.got = 0 /\ answer'.request = r
    BY <1>2 DEF Deny
  <2>2. Candidates(r) = {} => ~ \E a \in Address : Possible(a, r)
    BY PossibleIsCandidate
  <2> QED  BY <1>2, <2>1, <2>2 DEF Deny, IsHighest
<1> QED  BY <1>1, <1>2 DEF mblock_reserve

\* A request gets the highest address that would do ("It returns as high address
\* as possible", mblock_reserve), and none only if none would or one of the checks
\* stops it.
THEOREM HighestGranted == MblockSpec => HighestPossible
<1>1. MblockInit => Separated  BY InitSeparated
<1>2. MblockIInv /\ Separated /\ [MblockNext]_mblock_vars => Separated'  BY StepSeparated
<1>3. MblockIInv /\ Separated /\ [MblockNext]_mblock_vars => [IsHighest]_mblock_vars  BY StepIsHighest
<1> QED  BY <1>1, <1>2, <1>3, MblockInvariance, PTL DEF MblockSpec, HighestPossible, IsHighest

-----------------------------------------------------------------------------
(* The slot that is booted.                                                *)

USE DEF Slot, Valid, Other, At

Undecided == {"get_retry_count", "check_valid_slot", "get_boot_mode",
              "get_bootup_status", "reduce_retry_count", "mark_slot_invalid"}

\* The copies of the durable state against the durable state.
SuffixIsActive ==
  (pc \in Undecided /\ storage = "sound") => ab_suffix = Active

SuffixKnown ==
  /\ (pc \in Undecided \cup {"check_again", "set_boot_part"} /\ storage = "sound")
        => ab_suffix # NULL
  /\ pc \in {"reduce_retry_count", "mark_slot_invalid", "check_again",
             "set_boot_part"} => ab_suffix # NULL

RetryIsCurrent ==
  (pc \in Undecided \ {"get_retry_count"} /\ ab_suffix # NULL) =>
    /\ ab_retry \in {retry_count[ab_suffix], 255}
    /\ storage = "sound" => ab_retry = retry_count[ab_suffix]

SuffixIsValid ==
  (pc \in Undecided \ {"get_retry_count", "check_valid_slot"} /\ storage = "sound") =>
    Valid(ab_suffix)

Unconfirmed ==
  /\ pc \in {"reduce_retry_count", "mark_slot_invalid"} =>
       successful_boot[ab_suffix] = 0
  /\ pc = "reduce_retry_count" => ab_retry > 0
  /\ pc = "mark_slot_invalid" => ab_retry = 0

SwitchJustified ==
  /\ (pc \in {"check_again", "set_boot_part"} /\ storage = "sound") => ~Valid(ab_suffix)
  /\ (pc = "set_boot_part" /\ storage = "sound" /\ CHECKS_AFTER_INVALID) =>
       Valid(Other(ab_suffix))

ModeIsDefault ==
  pc \in Undecided \cup {"get_suffix", "check_again", "set_boot_part"} =>
    g_boot_mode = "NORMAL"

Decision ==
  /\ SuffixIsActive /\ SuffixKnown /\ RetryIsCurrent /\ SuffixIsValid
  /\ Unconfirmed /\ SwitchJustified /\ ModeIsDefault

IInv ==
  /\ TypeOK /\ Decision /\ RetryAccounting
  /\ BootedSlotIsBest /\ RecoveryIsLastResort

-----------------------------------------------------------------------------

LEMMA InitTypeOK == Init => TypeOK
<1> SUFFICES ASSUME Init PROVE TypeOK
    OBVIOUS
<1>1. parted \in BOOLEAN  BY DEF Init
<1> USE ConstantsAssumption DEF ConstantsAssumption, Init
<1>2. MetaOK  BY DEF MetaOK
<1>3. LocalOK  BY DEF LocalOK
<1>4. HistoryOK  BY <1>1 DEF HistoryOK
<1> QED  BY <1>2, <1>3, <1>4 DEF TypeOK

LEMMA CountBootTypeOK ==
  ASSUME boots \in [Slot -> Nat], faulty \in [Slot -> Nat],
         NEW s, CountBoot(s)
  PROVE  boots' \in [Slot -> Nat] /\ faulty' \in [Slot -> Nat]
<1>1. CASE s \in Slot
  <2>1. boots' \in [Slot -> Nat]  BY <1>1 DEF CountBoot
  <2>2. faulty' \in [Slot -> Nat]  BY <1>1 DEF CountBoot
  <2> QED  BY <2>1, <2>2
<1>2. CASE s \notin Slot
  <2>1. \A t \in Slot : t # s  BY <1>2
  <2>2. boots' = boots /\ faulty' = faulty  BY <2>1 DEF CountBoot
  <2> QED  BY <2>2
<1> QED  BY <1>1, <1>2

\* Every call keeps every value in its field.
LEMMA StepTypeOK == TypeOK /\ [Next]_vars => TypeOK'
<1> SUFFICES ASSUME TypeOK, [Next]_vars PROVE TypeOK'
    OBVIOUS
<1> USE ConstantsAssumption DEF ConstantsAssumption, TypeOK, vars, durable, meta,
        local, history, counters, storageVars, AccessOK, AccessFails, NoteFailure, NoteCut
<1>1. CASE PowerOn
  <2>1. MetaOK'  BY <1>1 DEF PowerOn, MetaOK, LocalOK
  <2>2. LocalOK'  BY <1>1 DEF PowerOn, MetaOK, LocalOK
  <2>3. HistoryOK'  BY <1>1 DEF PowerOn, LocalOK, HistoryOK
  <2> QED  BY <2>1, <2>2, <2>3
<1>2. CASE GetSuffix
  <2>1. MetaOK'  BY <1>2 DEF GetSuffix, GetSuffixFails, GetSuffixByPriority, GetSuffixDefault, Store,
         set_active_slot, Cleared, Active, MetaOK, LocalOK
  <2>2. LocalOK'  BY <1>2 DEF GetSuffix, GetSuffixFails, GetSuffixByPriority, GetSuffixDefault, Store,
         set_active_slot, Cleared, Active, MetaOK, LocalOK
  <2>3. HistoryOK'  BY <1>2 DEF GetSuffix, GetSuffixFails, GetSuffixByPriority, GetSuffixDefault, Store,
         set_active_slot, Cleared, Active, LocalOK, HistoryOK
  <2> QED  BY <2>1, <2>2, <2>3
<1>3. CASE GetRetryCount
  <2>1. MetaOK'  BY <1>3 DEF GetRetryCount, NoRetry, MetaOK, LocalOK
  <2>2. LocalOK'  BY <1>3 DEF GetRetryCount, NoRetry, MetaOK, LocalOK
  <2>3. HistoryOK'  BY <1>3 DEF GetRetryCount, NoRetry, LocalOK, HistoryOK
  <2> QED  BY <2>1, <2>2, <2>3
<1>4. CASE CheckLoop
  <2>1. MetaOK'  BY <1>4 DEF CheckLoop, CheckValidSlot, NoValidSlot, MetaOK, LocalOK
  <2>2. LocalOK'  BY <1>4 DEF CheckLoop, CheckValidSlot, NoValidSlot, MetaOK, LocalOK
  <2>3. HistoryOK'  BY <1>4 DEF CheckLoop, CheckValidSlot, NoValidSlot, LocalOK, HistoryOK
  <2> QED  BY <2>1, <2>2, <2>3
<1>5. CASE GetBootMode
  <2>1. MetaOK'  BY <1>5 DEF GetBootMode, MetaOK, LocalOK
  <2>2. LocalOK'  BY <1>5 DEF GetBootMode, MetaOK, LocalOK
  <2>3. HistoryOK'  BY <1>5 DEF GetBootMode, LocalOK, HistoryOK
  <2> QED  BY <2>1, <2>2, <2>3
<1>6. CASE GetBootupStatus
  <2>1. MetaOK'  BY <1>6 DEF GetBootupStatus, CountBoot, MetaOK, LocalOK
  <2>2. LocalOK'  BY <1>6 DEF GetBootupStatus, CountBoot, MetaOK, LocalOK
  <2>3. HistoryOK'  BY <1>6 DEF GetBootupStatus, CountBoot, LocalOK, HistoryOK
  <2> QED  BY <2>1, <2>2, <2>3
<1>7. CASE ReduceRetryCount
  <2>1. MetaOK'  BY <1>7 DEF ReduceRetryCount, Store, ReducedRetry, CountBoot, MetaOK, LocalOK
  <2>2. LocalOK'  BY <1>7 DEF ReduceRetryCount, Store, ReducedRetry, CountBoot, MetaOK, LocalOK
  <2>3. HistoryOK'
    <3>1. boots' \in [Slot -> Nat] /\ faulty' \in [Slot -> Nat]
      BY <1>7, CountBootTypeOK DEF ReduceRetryCount, HistoryOK
    <3>2. storage' \in {"sound", "failed"} /\ faults' \in 0..MaxFaults
      BY <1>7 DEF ReduceRetryCount, Store, HistoryOK
    <3>3. cuts' \in 0..MaxCuts /\ parted' \in BOOLEAN
      BY <1>7 DEF ReduceRetryCount, HistoryOK
    <3> QED  BY <3>1, <3>2, <3>3 DEF HistoryOK
  <2> QED  BY <2>1, <2>2, <2>3
<1>8. CASE MarkSlotInvalid
  <2>1. MetaOK'  BY <1>8 DEF MarkSlotInvalid, Store, Invalidated, MetaOK, LocalOK
  <2>2. LocalOK'  BY <1>8 DEF MarkSlotInvalid, AfterInvalid, Store, Invalidated, MetaOK, LocalOK
  <2>3. HistoryOK'  BY <1>8 DEF MarkSlotInvalid, Store, Invalidated, LocalOK, HistoryOK
  <2> QED  BY <2>1, <2>2, <2>3
<1>9. CASE CheckAgain
  <2>1. MetaOK'  BY <1>9 DEF CheckAgain, CheckValidSlot, NoValidSlot, MetaOK, LocalOK
  <2>2. LocalOK'  BY <1>9 DEF CheckAgain, CheckValidSlot, NoValidSlot, MetaOK, LocalOK
  <2>3. HistoryOK'  BY <1>9 DEF CheckAgain, CheckValidSlot, NoValidSlot, LocalOK, HistoryOK
  <2> QED  BY <2>1, <2>2, <2>3
<1>10. CASE SetBootPart
  <2>1. MetaOK'  BY <1>10 DEF SetBootPart, MetaOK, LocalOK
  <2>2. LocalOK'  BY <1>10 DEF SetBootPart, MetaOK, LocalOK
  <2>3. HistoryOK'  BY <1>10 DEF SetBootPart, LocalOK, HistoryOK
  <2> QED  BY <2>1, <2>2, <2>3
<1>11. CASE LoadImages
  <2>1. MetaOK'  BY <1>11 DEF LoadImages, MetaOK, LocalOK
  <2>2. LocalOK'  BY <1>11 DEF LoadImages, MetaOK, LocalOK
  <2>3. HistoryOK'  BY <1>11 DEF LoadImages, LocalOK, HistoryOK
  <2> QED  BY <2>1, <2>2, <2>3
<1>12. CASE PowerCut \/ Reset \/ Reboot \/ OsConfirms
  <2>1. MetaOK'  BY <1>12 DEF PowerCut, Reset, Reboot, OsConfirms, MetaOK, LocalOK
  <2>2. LocalOK'  BY <1>12 DEF PowerCut, Reset, Reboot, OsConfirms, MetaOK, LocalOK
  <2>3. parted' \in BOOLEAN
    <3>1. parted \in BOOLEAN  BY DEF HistoryOK
    <3>2. parted' = parted \/ parted' = (parted \/ pc \in Switching)
      BY <1>12 DEF PowerCut, Reset, Reboot, OsConfirms
    <3> QED  BY <3>1, <3>2
  <2>4. HistoryOK'  BY <1>12, <2>3 DEF PowerCut, Reset, Reboot, OsConfirms, LocalOK, HistoryOK
  <2> QED  BY <2>1, <2>2, <2>4
<1>13. CASE \E s \in Slot : OsActivates(s)
  <2>1. MetaOK'  BY <1>13 DEF OsActivates, set_active_slot, MetaOK, LocalOK
  <2>2. LocalOK'  BY <1>13 DEF OsActivates, set_active_slot, MetaOK, LocalOK
  <2>3. parted' \in BOOLEAN  BY <1>13 DEF OsActivates
  <2>4. HistoryOK'  BY <1>13, <2>3 DEF OsActivates, set_active_slot, LocalOK, HistoryOK
  <2> QED  BY <2>1, <2>2, <2>4
<1>14. CASE \E s \in Slot, mode \in 0..1 : OsSetsNormalBoot(s, mode)
  <2>1. MetaOK'  BY <1>14 DEF OsSetsNormalBoot, MetaOK, LocalOK
  <2>2. LocalOK'  BY <1>14 DEF OsSetsNormalBoot, MetaOK, LocalOK
  <2>3. HistoryOK'  BY <1>14 DEF OsSetsNormalBoot, LocalOK, HistoryOK
  <2> QED  BY <2>1, <2>2, <2>3
<1>15. CASE UNCHANGED vars
  <2>1. MetaOK'  BY <1>15 DEF MetaOK, LocalOK
  <2>2. LocalOK'  BY <1>15 DEF MetaOK, LocalOK
  <2>3. HistoryOK'  BY <1>15 DEF LocalOK, HistoryOK
  <2> QED  BY <2>1, <2>2, <2>3
<1> QED
  BY <1>1, <1>2, <1>3, <1>4, <1>5, <1>6, <1>7, <1>8, <1>9, <1>10, <1>11, <1>12, <1>13, <1>14, <1>15
     DEF Next, Preloader, Environment

-----------------------------------------------------------------------------

LEMMA InitIInv == Init => IInv
<1> SUFFICES ASSUME Init PROVE IInv
    OBVIOUS
<1>1. TypeOK  BY InitTypeOK
<1>2. Decision
  BY DEF Init, Decision, SuffixIsActive, SuffixKnown, RetryIsCurrent, SuffixIsValid,
         Unconfirmed, SwitchJustified, ModeIsDefault, Undecided
<1>3. RetryAccounting
  <2> SUFFICES ASSUME magic = "BOOTCTRL_MAGIC"
               PROVE  \A t \in Slot : boots[t] = 0 /\ faulty[t] = 0 /\ retry_count[t] = RETRY
      BY ConstantsAssumption DEF ConstantsAssumption, RetryAccounting
  <2> QED  BY DEF Init
<1>4. BootedSlotIsBest /\ RecoveryIsLastResort
  BY DEF Init, BootedSlotIsBest, RecoveryIsLastResort
<1> QED  BY <1>1, <1>2, <1>3, <1>4 DEF IInv

\* The copies keep what they say of the metadata at every later call.
LEMMA StepDecision == IInv /\ [Next]_vars => Decision'
<1> SUFFICES ASSUME IInv, [Next]_vars PROVE Decision'
    OBVIOUS
<1> USE ConstantsAssumption
    DEF ConstantsAssumption, IInv, TypeOK, MetaOK, LocalOK, vars, durable, meta, local,
        history, counters, storageVars, AccessOK, AccessFails, Undecided, Active
<1>1. CASE PowerOn
  BY <1>1 DEF PowerOn, Decision, SuffixIsActive, SuffixKnown, RetryIsCurrent,
              SuffixIsValid, Unconfirmed, SwitchJustified, ModeIsDefault
<1>2. CASE GetSuffix
  <2>1. SuffixIsActive' /\ SuffixKnown'
    <3>1. CASE GetSuffixFails
      BY <1>2, <3>1 DEF GetSuffix, GetSuffixFails, SuffixIsActive, SuffixKnown
    <3>2. CASE GetSuffixByPriority
      BY <1>2, <3>2 DEF GetSuffix, GetSuffixByPriority, SuffixIsActive, SuffixKnown
    <3>3. CASE GetSuffixDefault
      BY <1>2, <3>3 DEF GetSuffix, GetSuffixDefault, Store, set_active_slot, Cleared,
                        SuffixIsActive, SuffixKnown
    <3> QED  BY <1>2, <3>1, <3>2, <3>3 DEF GetSuffix
  <2>2. ModeIsDefault'
    BY <1>2 DEF GetSuffix, Decision, ModeIsDefault
  <2> QED
    BY <1>2, <2>1, <2>2 DEF GetSuffix, Decision, RetryIsCurrent, SuffixIsValid, Unconfirmed,
                            SwitchJustified
<1>3. CASE GetRetryCount
  <2>1. RetryIsCurrent'
    BY <1>3 DEF GetRetryCount, NoRetry, RetryIsCurrent
  <2>2. SuffixIsActive' /\ SuffixKnown' /\ ModeIsDefault'
    BY <1>3 DEF GetRetryCount, Decision, SuffixIsActive, SuffixKnown, ModeIsDefault
  <2> QED
    BY <1>3, <2>1, <2>2 DEF GetRetryCount, Decision, SuffixIsValid, Unconfirmed, SwitchJustified
<1>4. CASE CheckLoop
  <2>1. SuffixIsActive' /\ SuffixKnown' /\ ModeIsDefault' /\ RetryIsCurrent'
    BY <1>4 DEF CheckLoop, CheckValidSlot, NoValidSlot, Decision, SuffixIsActive, SuffixKnown,
                ModeIsDefault, RetryIsCurrent
  <2>2. SuffixIsValid'
    BY <1>4 DEF CheckLoop, CheckValidSlot, NoValidSlot, Decision, SuffixIsActive, SuffixIsValid
  <2> QED
    BY <1>4, <2>1, <2>2 DEF CheckLoop, CheckValidSlot, NoValidSlot, Decision, Unconfirmed,
                            SwitchJustified
<1>5. CASE GetBootMode
  BY <1>5 DEF GetBootMode, Decision, SuffixIsActive, SuffixKnown, RetryIsCurrent,
              SuffixIsValid, Unconfirmed, SwitchJustified, ModeIsDefault
<1>6. CASE GetBootupStatus
  <2>1. SuffixIsActive' /\ SuffixKnown' /\ ModeIsDefault' /\ RetryIsCurrent' /\ SuffixIsValid'
    BY <1>6 DEF GetBootupStatus, Decision, SuffixIsActive, SuffixKnown, ModeIsDefault,
                RetryIsCurrent, SuffixIsValid
  <2>2. Unconfirmed'
    BY <1>6 DEF GetBootupStatus, Unconfirmed
  <2> QED
    BY <1>6, <2>1, <2>2 DEF GetBootupStatus, Decision, SwitchJustified
<1>7. CASE ReduceRetryCount \/ LoadImages \/ SetBootPart
  BY <1>7 DEF ReduceRetryCount, LoadImages, SetBootPart, Decision, SuffixIsActive, SuffixKnown,
              RetryIsCurrent, SuffixIsValid, Unconfirmed, SwitchJustified, ModeIsDefault
<1>8. CASE MarkSlotInvalid
  <2>1. SuffixKnown' /\ ModeIsDefault'
    BY <1>8 DEF MarkSlotInvalid, AfterInvalid, Decision, SuffixKnown, ModeIsDefault
  <2>2. ASSUME storage' = "sound" PROVE ~Valid(ab_suffix)' /\ (pc' = "check_again" \/ ~CHECKS_AFTER_INVALID)
    BY <1>8, <2>2 DEF MarkSlotInvalid, AfterInvalid, Store, Invalidated, Decision, SuffixKnown
  <2>3. SwitchJustified'
    BY <1>8, <2>2 DEF MarkSlotInvalid, AfterInvalid, Store, Invalidated, Decision, SuffixKnown, SwitchJustified
  <2> QED
    BY <1>8, <2>1, <2>3 DEF MarkSlotInvalid, AfterInvalid, Decision, SuffixIsActive, RetryIsCurrent,
                            SuffixIsValid, Unconfirmed
<1>9. CASE CheckAgain
  BY <1>9 DEF CheckAgain, CheckValidSlot, NoValidSlot, Decision, SuffixIsActive, SuffixKnown,
              RetryIsCurrent, SuffixIsValid, Unconfirmed, SwitchJustified, ModeIsDefault
<1>10. CASE PowerCut \/ Reset \/ Reboot \/ OsConfirms
  BY <1>10 DEF PowerCut, Reset, Reboot, OsConfirms, Decision, SuffixIsActive, SuffixKnown,
               RetryIsCurrent, SuffixIsValid, Unconfirmed, SwitchJustified, ModeIsDefault
<1>11. CASE (\E s \in Slot : OsActivates(s)) \/ (\E s \in Slot, mode \in 0..1 : OsSetsNormalBoot(s, mode))
  <2>1. pc' = "os"
    BY <1>11 DEF OsActivates, OsSetsNormalBoot
  <2> QED
    BY <2>1 DEF Decision, SuffixIsActive, SuffixKnown, RetryIsCurrent, SuffixIsValid, Unconfirmed,
                SwitchJustified, ModeIsDefault
<1>12. CASE UNCHANGED vars
  BY <1>12 DEF Decision, SuffixIsActive, SuffixKnown, RetryIsCurrent, SuffixIsValid, Unconfirmed,
               SwitchJustified, ModeIsDefault
<1> QED
  BY <1>1, <1>2, <1>3, <1>4, <1>5, <1>6, <1>7, <1>8, <1>9, <1>10, <1>11, <1>12
     DEF Next, Preloader, Environment

\* The retry counter stays in step with the boots it is to pay for.
LEMMA StepRetryAccounting == IInv /\ [Next]_vars => RetryAccounting'
<1> SUFFICES ASSUME IInv, [Next]_vars PROVE RetryAccounting'
    OBVIOUS
<1> USE ConstantsAssumption
    DEF ConstantsAssumption, IInv, TypeOK, MetaOK, LocalOK, HistoryOK, vars, durable, meta,
        local, history, counters, storageVars, AccessOK, AccessFails
<1>1. CASE GetSuffix
  <2>1. CASE GetSuffixDefault
    <3>1. CASE UNCHANGED <<meta, boots, faulty>>
      BY <3>1, <2>1 DEF GetSuffixDefault, RetryAccounting
    <3>2. CASE /\ set_active_slot("a", Cleared)
               /\ boots' = [s \in Slot |-> 0] /\ faulty' = [s \in Slot |-> 0]
      <4>1. boots'["a"] = 0 /\ faulty'["a"] = 0 /\ retry_count'["a"] = RETRY
        BY <3>2 DEF set_active_slot
      <4>2. boots'["b"] = 0 /\ faulty'["b"] = 0 /\ retry_count'["b"] = 0 /\ priority'["b"] = 0
        BY <3>2 DEF set_active_slot, Cleared
      <4> QED  BY <4>1, <4>2 DEF RetryAccounting
    <3> QED  BY <2>1, <3>1, <3>2 DEF GetSuffixDefault, Store
  <2>2. CASE GetSuffixFails \/ GetSuffixByPriority
    BY <2>2 DEF GetSuffixFails, GetSuffixByPriority, RetryAccounting
  <2> QED  BY <1>1, <2>1, <2>2 DEF GetSuffix
<1>2. CASE GetBootupStatus
  <2>1. CASE UNCHANGED <<boots, faulty>>
    BY <1>2, <2>1 DEF GetBootupStatus, RetryAccounting
  <2>2. CASE ab_suffix \in Slot /\ storage' = "failed" /\ CountBoot(ab_suffix)
    BY <1>2, <2>2 DEF GetBootupStatus, CountBoot, RetryAccounting
  <2> QED  BY <1>2, <2>1, <2>2 DEF GetBootupStatus
<1>3. CASE ReduceRetryCount
  <2>1. ab_suffix \in Slot
    BY <1>3 DEF ReduceRetryCount, Decision, SuffixKnown
  <2>2. CountBoot(ab_suffix)
    BY <1>3 DEF ReduceRetryCount
  <2>3. UNCHANGED <<magic, priority>>
    BY <1>3 DEF ReduceRetryCount
  <2>4. CASE storage' = "failed"
    <3>1. \A s \in Slot \ {ab_suffix} : boots'[s] = boots[s] /\ faulty'[s] = faulty[s]
      BY <2>1, <2>2, <2>4 DEF CountBoot
    <3>2. /\ boots'[ab_suffix] = boots[ab_suffix] + 1
          /\ faulty'[ab_suffix] = faulty[ab_suffix] + 1
      BY <2>1, <2>2, <2>4 DEF CountBoot
    <3>3. /\ \A s \in Slot \ {ab_suffix} : retry_count'[s] = retry_count[s]
          /\ retry_count'[ab_suffix] \in {retry_count[ab_suffix], retry_count[ab_suffix] - 1}
      BY <1>3, <2>1 DEF ReduceRetryCount, Store, ReducedRetry
    <3>4. \A s \in Slot : Valid(s)' <=> Valid(s)
      BY <2>3 DEF Valid
    <3>5. ASSUME NEW s \in Slot, magic = "BOOTCTRL_MAGIC"
          PROVE  /\ boots'[s] - faulty'[s] + retry_count'[s] <= RETRY
                 /\ Valid(s)' => boots'[s] + retry_count'[s] >= RETRY
      <4>1. /\ boots[s] \in Int /\ faulty[s] \in Int /\ retry_count[s] \in Int
            /\ boots[s] - faulty[s] + retry_count[s] <= RETRY
            /\ Valid(s) => boots[s] + retry_count[s] >= RETRY
        BY <3>5 DEF RetryAccounting
      <4>2. CASE s = ab_suffix
        BY <3>2, <3>3, <3>4, <4>1, <4>2
      <4>3. CASE s # ab_suffix
        BY <3>1, <3>3, <3>4, <4>1, <4>3
      <4> QED  BY <4>2, <4>3
    <3> QED  BY <2>3, <3>5 DEF RetryAccounting
  <2>5. CASE storage' # "failed"
    <3>1. storage = "sound" /\ ReducedRetry(ab_suffix)
      BY <1>3, <2>5 DEF ReduceRetryCount, Store
    <3>2. retry_count[ab_suffix] > 0
      BY <1>3, <3>1, <2>1 DEF ReduceRetryCount, Decision, RetryIsCurrent, Unconfirmed, Undecided
    <3> QED
      BY <2>1, <2>2, <2>3, <2>5, <3>1, <3>2 DEF CountBoot, ReducedRetry, RetryAccounting
  <2> QED  BY <2>4, <2>5
<1>4. CASE MarkSlotInvalid
  <2>1. UNCHANGED <<magic, retry_count, boots, faulty>>
    BY <1>4 DEF MarkSlotInvalid, AfterInvalid
  <2>2. \A t \in Slot : priority'[t] = priority[t] \/ priority'[t] = 0
    BY <1>4 DEF MarkSlotInvalid, Store, Invalidated
  <2> QED  BY <2>1, <2>2 DEF RetryAccounting
<1>5. ASSUME NEW s \in Slot, OsActivates(s) PROVE RetryAccounting'
  <2>1. PICK p \in {0, TOP_PRIORITY - 1} :
          /\ p <= priority[Other(s)]
          /\ set_active_slot(s, [priority |-> p,
                                 retry_count |-> retry_count[Other(s)],
                                 successful_boot |-> successful_boot[Other(s)],
                                 normal_boot |-> normal_boot[Other(s)]])
    BY <1>5 DEF OsActivates
  <2>2. boots'[s] = 0 /\ faulty'[s] = 0 /\ retry_count'[s] = RETRY
    BY <1>5, <2>1 DEF OsActivates, set_active_slot
  <2>3. \A t \in Slot \ {s} :
          /\ boots'[t] = boots[t] /\ faulty'[t] = faulty[t]
          /\ retry_count'[t] = retry_count[t] /\ priority'[t] <= priority[t]
    BY <1>5, <2>1 DEF OsActivates, set_active_slot
  <2>4. magic = "BOOTCTRL_MAGIC" /\ priority' \in [Slot -> 0..7]
    BY <1>5, StepTypeOK DEF OsActivates
  <2>5. ASSUME NEW t \in Slot
        PROVE  /\ boots'[t] - faulty'[t] + retry_count'[t] <= RETRY
               /\ Valid(t)' => boots'[t] + retry_count'[t] >= RETRY
    <3>1. CASE t = s
      BY <2>2, <3>1
    <3>2. CASE t # s
      <4>1. /\ boots'[t] = boots[t] /\ faulty'[t] = faulty[t]
            /\ retry_count'[t] = retry_count[t] /\ priority'[t] <= priority[t]
        BY <2>3, <3>2
      <4>2. Valid(t)' => Valid(t)
        BY <2>4, <4>1 DEF Valid
      <4>3. /\ boots[t] - faulty[t] + retry_count[t] <= RETRY
            /\ Valid(t) => boots[t] + retry_count[t] >= RETRY
        BY <2>4 DEF RetryAccounting
      <4> QED  BY <4>1, <4>2, <4>3
    <3> QED  BY <3>1, <3>2
  <2> QED  BY <2>5 DEF RetryAccounting
<1>6. CASE \/ PowerOn \/ GetRetryCount \/ CheckLoop \/ GetBootMode \/ CheckAgain
           \/ SetBootPart \/ LoadImages \/ PowerCut \/ Reset \/ Reboot \/ OsConfirms
           \/ (\E s \in Slot, mode \in 0..1 : OsSetsNormalBoot(s, mode))
           \/ UNCHANGED vars
  <2>1. UNCHANGED <<magic, priority, retry_count, boots, faulty>>
    BY <1>6 DEF PowerOn, GetRetryCount, CheckLoop, CheckValidSlot, GetBootMode, CheckAgain,
        SetBootPart, LoadImages, PowerCut, Reset, Reboot, OsConfirms, OsSetsNormalBoot
  <2> QED  BY <2>1 DEF RetryAccounting
<1> QED
  BY <1>1, <1>2, <1>3, <1>4, <1>5, <1>6 DEF Next, Preloader, Environment

\* What reaches "load" under normal and under recovery boot.
LEMMA StepChoice ==
  IInv /\ [Next]_vars => BootedSlotIsBest' /\ RecoveryIsLastResort'
<1> SUFFICES ASSUME IInv, [Next]_vars PROVE BootedSlotIsBest' /\ RecoveryIsLastResort'
    OBVIOUS
<1> USE ConstantsAssumption
    DEF ConstantsAssumption, IInv, TypeOK, MetaOK, LocalOK, vars, durable, meta, local,
        history, counters, storageVars, AccessOK, AccessFails, BootedSlotIsBest, RecoveryIsLastResort
<1>1. CASE pc' # "load"
  BY <1>1
<1>2. CASE UNCHANGED vars
  BY <1>2
<1>3. CASE CheckLoop
  BY <1>3 DEF CheckLoop, CheckValidSlot, NoValidSlot, Decision, ModeIsDefault, Undecided
<1>4. CASE CheckAgain
  BY <1>4 DEF CheckAgain, CheckValidSlot, NoValidSlot, Decision, ModeIsDefault, Undecided
<1>5. CASE GetBootMode \/ GetBootupStatus \/ ReduceRetryCount
  <2>1. /\ pc \in Undecided \ {"get_retry_count", "check_valid_slot"}
        /\ UNCHANGED <<priority, ab_suffix, g_boot_mode>>
        /\ storage' = "sound" => storage = "sound"
    BY <1>5 DEF GetBootMode, GetBootupStatus, ReduceRetryCount, Store, Undecided
  <2>2. g_boot_mode = "NORMAL"
    BY <2>1 DEF Decision, ModeIsDefault
  <2>3. storage = "sound" => ab_suffix = Active /\ Valid(ab_suffix)
    BY <2>1 DEF Decision, SuffixIsActive, SuffixIsValid
  <2> QED  BY <2>1, <2>2, <2>3 DEF Active
<1>6. CASE \/ PowerOn \/ GetSuffix \/ GetRetryCount \/ MarkSlotInvalid \/ SetBootPart
           \/ LoadImages \/ Environment
  <2>1. pc' # "load"
    BY <1>6 DEF PowerOn, GetSuffix, GetRetryCount, MarkSlotInvalid, AfterInvalid, SetBootPart, LoadImages,
         Environment, PowerCut, Reset, Reboot, OsConfirms, OsActivates, OsSetsNormalBoot
  <2> QED  BY <2>1, <1>1
<1> QED
  BY <1>1, <1>2, <1>3, <1>4, <1>5, <1>6 DEF Next, Preloader

LEMMA Invariance == Spec => []IInv
<1>1. IInv /\ [Next]_vars => IInv'
  BY StepTypeOK, StepDecision, StepRetryAccounting, StepChoice DEF IInv
<1> QED
  BY <1>1, InitIInv, PTL DEF Spec

-----------------------------------------------------------------------------

\* Type correctness: every value fits its field; in particular the three-bit
\* retry counter never wraps below zero in reduce_retry_count.
THEOREM TypeCorrect == Spec => []TypeOK
<1>1. IInv => TypeOK  BY DEF IInv
<1> QED  BY <1>1, Invariance, PTL

\* The retry counter of a slot accounts for its unconfirmed boots, although
\* reduce_retry_count may fail unnoticed and get_retry_count may answer 255.
THEOREM RetriesAccountedFor == Spec => []RetryAccounting
<1>1. IInv => RetryAccounting  BY DEF IInv
<1> QED  BY <1>1, Invariance, PTL

\* A normal boot loads the best valid slot, a recovery boot means that there is
\* none, in every boot without a storage failure.
THEOREM ChoiceIsRight == Spec => [](BootedSlotIsBest /\ RecoveryIsLastResort)
<1>1. IInv => BootedSlotIsBest /\ RecoveryIsLastResort  BY DEF IInv
<1> QED  BY <1>1, Invariance, PTL

\* A slot is given up only after as many boots as it was given retries: at
\* mark_slot_invalid ab_retry = 0 is the counter itself, never a failed read.
THEOREM GivenUpAfterBudget == Spec => AbandonedAfterBudget
<1> DEFINE Kept == \A s \in Slot :
      (magic = "BOOTCTRL_MAGIC" /\ pc' # pc /\ Valid(s) /\ priority'[s] = 0) => boots[s] >= RETRY
<1>1. IInv /\ [Next]_vars => [Kept]_vars
  <2> SUFFICES ASSUME IInv, Next, NEW s \in Slot, magic = "BOOTCTRL_MAGIC", pc' # pc,
                      Valid(s), priority'[s] = 0
               PROVE  boots[s] >= RETRY
      OBVIOUS
  <2> USE ConstantsAssumption DEF ConstantsAssumption, IInv, TypeOK, MetaOK, LocalOK, HistoryOK
  <2>1. MarkSlotInvalid
    <3>1. priority' # priority
      OBVIOUS
    <3> QED
      BY <3>1 DEF Next, Preloader, Environment, PowerOn, GetSuffix, GetSuffixFails,
         GetSuffixByPriority, GetSuffixDefault, GetRetryCount, CheckLoop, GetBootMode,
         GetBootupStatus, ReduceRetryCount, CheckAgain, SetBootPart, LoadImages, PowerCut,
         Reset, Reboot, OsConfirms, OsActivates, OsSetsNormalBoot, durable, meta
  <2>2. s = ab_suffix
    BY <2>1 DEF MarkSlotInvalid, Store, Invalidated
  <2>3. retry_count[s] = 0
    BY <2>1, <2>2 DEF MarkSlotInvalid, AfterInvalid, Decision, RetryIsCurrent, Unconfirmed, Undecided
  <2> QED  BY <2>3 DEF RetryAccounting
<1>2. []IInv /\ [][Next]_vars => [][Kept]_vars
  BY <1>1, PTL
<1> QED  BY <1>2, Invariance, PTL DEF Spec, AbandonedAfterBudget

\* No preloader step takes a confirmed slot out of use.
THEOREM ConfirmedSlotSurvives == Spec => ConfirmedIsKept
<1> DEFINE Kept == \A s \in Slot :
      (magic = "BOOTCTRL_MAGIC" /\ pc' # pc /\ successful_boot[s] = 1 /\ Valid(s)) =>
        successful_boot'[s] = 1 /\ priority'[s] > 0
<1>1. IInv /\ [Next]_vars => [Kept]_vars
  <2> SUFFICES ASSUME IInv, Next, NEW s \in Slot, magic = "BOOTCTRL_MAGIC", pc' # pc,
                      successful_boot[s] = 1, Valid(s)
               PROVE  successful_boot'[s] = 1 /\ priority'[s] > 0
      OBVIOUS
  <2> USE ConstantsAssumption DEF ConstantsAssumption, IInv, TypeOK, MetaOK, LocalOK
  <2>1. CASE MarkSlotInvalid
    <3>1. ab_suffix # s
      BY <2>1 DEF MarkSlotInvalid, AfterInvalid, Decision, Unconfirmed
    <3> QED  BY <2>1, <3>1 DEF MarkSlotInvalid, Store, Invalidated
  <2>2. CASE ~MarkSlotInvalid
    <3>1. UNCHANGED <<priority, successful_boot>>
      BY <2>2 DEF Next, Preloader, Environment, PowerOn, GetSuffix, GetSuffixFails,
         GetSuffixByPriority, GetSuffixDefault, GetRetryCount, CheckLoop, GetBootMode,
         GetBootupStatus, ReduceRetryCount, CheckAgain, SetBootPart, LoadImages, PowerCut,
         Reset, Reboot, OsConfirms, OsActivates, OsSetsNormalBoot, durable, meta
    <3> QED  BY <3>1
  <2> QED  BY <2>1, <2>2
<1>2. []IInv /\ [][Next]_vars => [][Kept]_vars
  BY <1>1, PTL
<1> QED  BY <1>2, Invariance, PTL DEF Spec, ConfirmedIsKept
-----------------------------------------------------------------------------
(* The preloader that runs.  The boot partition is switched last, after    *)
(* the metadata: in between they disagree.                                 *)

PreloaderIsActive ==
  ~parted =>
    /\ magic = "wrong" => bootPart = "a" /\ (pc \in Undecided \cup Switching => storage = "failed")
    /\ pc \in Switching => storage = "sound" /\ bootPart = ab_suffix /\ ~Valid(ab_suffix)
    /\ (pc \notin Switching /\ \E s \in Slot : Valid(s)) => bootPart = Active

Matching == PreloaderIsActive /\ PreloaderMatchesSlot

LEMMA InitMatching == Init => Matching
BY ConstantsAssumption
   DEF ConstantsAssumption, Init, Matching, PreloaderIsActive, PreloaderMatchesSlot, Switching, Undecided, Active

\* Until a failure or a cut hits a switch, the preloader is that of the active slot.
LEMMA StepMatching == IInv /\ Matching /\ [Next]_vars => Matching'
<1> SUFFICES ASSUME IInv, Matching, [Next]_vars, ~parted'
             PROVE  PreloaderIsActive' /\ PreloaderMatchesSlot'
    BY DEF Matching, PreloaderIsActive, PreloaderMatchesSlot
<1> USE ConstantsAssumption
    DEF ConstantsAssumption, TypeOK, MetaOK, LocalOK, PreloaderIsActive, PreloaderMatchesSlot, Switching, Undecided,
        Active, history, counters, storageVars, AccessOK, AccessFails
<1>1. CASE \E s \in Slot : OsActivates(s)
  <2> PICK s \in Slot : OsActivates(s)
      BY <1>1
  <2>1. /\ magic' = "BOOTCTRL_MAGIC" /\ bootPart' = s /\ pc = "os" /\ pc' = pc
        /\ priority'[s] = TOP_PRIORITY /\ priority'[Other(s)] \in {0, TOP_PRIORITY - 1}
    BY DEF OsActivates, set_active_slot
  <2>2. QED
    BY <2>1
<1>2. SUFFICES ASSUME ~ \E s \in Slot : OsActivates(s)
               PROVE  PreloaderIsActive' /\ PreloaderMatchesSlot'
  BY <1>1
<1>3. /\ ~parted /\ TypeOK
      /\ magic = "wrong" => bootPart = "a" /\ (pc \in Undecided \cup Switching => storage = "failed")
      /\ pc \in Switching => storage = "sound" /\ bootPart = ab_suffix /\ ~Valid(ab_suffix)
      /\ (pc \notin Switching /\ \E s \in Slot : Valid(s)) => bootPart = Active
      /\ (pc = "load" /\ g_boot_mode = "NORMAL" /\ storage = "sound") => bootPart = ab_suffix
  <2>1. ~parted
    BY <1>2 DEF Next, Preloader, Environment, PowerOn, GetSuffix, GetRetryCount, CheckLoop, GetBootMode,
         GetBootupStatus, ReduceRetryCount, MarkSlotInvalid, CheckAgain, SetBootPart, LoadImages, PowerCut,
         Reset, Reboot, OsConfirms, OsSetsNormalBoot, NoteFailure, NoteCut, vars
  <2> QED  BY <2>1 DEF Matching, IInv
<1> USE <1>3
<1>4. CASE UNCHANGED vars
  BY <1>4 DEF vars, durable, meta, local
<1>5. CASE PowerOn
  BY <1>5 DEF PowerOn, durable, meta
<1>6. CASE GetSuffix
  BY <1>6 DEF GetSuffix, GetSuffixFails, GetSuffixByPriority, GetSuffixDefault, Store, set_active_slot, Cleared, meta
<1>7. CASE GetRetryCount \/ CheckLoop
  BY <1>7 DEF GetRetryCount, CheckLoop, CheckValidSlot, NoValidSlot, durable, meta
<1>8. CASE GetBootMode \/ GetBootupStatus \/ ReduceRetryCount
  <2>1. /\ pc \in {"get_boot_mode", "get_bootup_status", "reduce_retry_count"}
        /\ pc' \in {"get_bootup_status", "reduce_retry_count", "mark_slot_invalid", "load"}
        /\ UNCHANGED <<magic, priority, bootPart, ab_suffix, g_boot_mode>>
        /\ storage' = storage \/ storage' = "failed"
    BY <1>8 DEF GetBootMode, GetBootupStatus, ReduceRetryCount, Store, durable, meta, local
  <2>2. storage = "sound" => ab_suffix = Active /\ Valid(ab_suffix) /\ ab_suffix \in Slot
    BY <2>1 DEF IInv, Decision, SuffixIsActive, SuffixIsValid, Undecided
  <2>3. storage = "sound" => bootPart = ab_suffix
    BY <2>1, <2>2
  <2>4. magic' = "wrong" => bootPart' = "a" /\ storage' = "failed"
    BY <2>1
  <2>5. /\ pc' \notin Switching
        /\ (\E s \in Slot : Valid(s)') => bootPart' = Active'
        /\ storage' = "sound" => bootPart' = ab_suffix'
    BY <2>1, <2>3
  <2> QED  BY <2>4, <2>5
<1>9. CASE MarkSlotInvalid
  <2>1. storage' = "sound" /\ storage = "sound"
    BY <1>9 DEF MarkSlotInvalid, NoteFailure, Store, IInv, HistoryOK
  <2>2. ab_suffix = Active /\ Valid(ab_suffix) /\ ab_suffix \in Slot
    BY <1>9, <2>1 DEF MarkSlotInvalid, IInv, Decision, SuffixIsActive, SuffixIsValid, Undecided
  <2>3. bootPart = ab_suffix
    BY <1>9, <2>2 DEF MarkSlotInvalid
  <2>4. priority' = [priority EXCEPT ![ab_suffix] = 0] /\ pc' \in Switching
        /\ UNCHANGED <<magic, bootPart, ab_suffix, g_boot_mode>>
    BY <1>9, <2>1 DEF MarkSlotInvalid, AfterInvalid, Store, Invalidated, local
  <2>5. magic' # "wrong" /\ ~Valid(ab_suffix)'
    BY <1>9, <2>1, <2>2, <2>4 DEF MarkSlotInvalid
  <2> QED
    BY <2>1, <2>3, <2>4, <2>5
<1>10. CASE CheckAgain
  BY <1>10 DEF CheckAgain, CheckValidSlot, NoValidSlot, NoteFailure, durable, meta
<1>11. CASE SetBootPart
  <2>1. storage' # "failed"
    BY <1>11 DEF SetBootPart, NoteFailure
  <2>2. /\ pc' = "off" /\ bootPart' = Other(ab_suffix) /\ UNCHANGED meta
        /\ pc \in Switching /\ ab_suffix \in Slot
    BY <1>11, <2>1 DEF SetBootPart, IInv, Decision, SuffixKnown
  <2>3. ~Valid(ab_suffix)
    BY <2>2
  <2>4. magic # "wrong"
    BY <2>2
  <2> QED  BY <2>2, <2>3, <2>4 DEF meta
<1>12. CASE OsConfirms
  BY <1>12 DEF OsConfirms, local
<1>13. CASE PowerCut
  BY <1>13 DEF PowerCut, NoteCut, durable, meta
<1>14. CASE \E s \in Slot, mode \in 0..1 : OsSetsNormalBoot(s, mode)
  BY <1>14 DEF OsSetsNormalBoot, local
<1>15. CASE LoadImages \/ Reset \/ Reboot
  BY <1>15 DEF LoadImages, Reset, Reboot, durable, meta, local
<1>16. QED
  BY <1>2, <1>4, <1>5, <1>6, <1>7, <1>8, <1>9, <1>10, <1>11, <1>12, <1>13, <1>14, <1>15 DEF Next, Preloader, Environment

\* The preloader that runs belongs to the slot it boots, until a failure or a cut
\* parts the two writes of ab_ota_boot_check, of the metadata and of the boot
\* partition: other failures and cuts, any number of them, cannot.
THEOREM PreloaderMatched == Spec => []PreloaderMatchesSlot
<1>1. Matching => PreloaderMatchesSlot
  BY DEF Matching
<1>2. QED
  BY <1>1, InitMatching, StepMatching, Invariance, PTL DEF Spec

-----------------------------------------------------------------------------
(* The refinement: the steps that change the durable state, one lemma each. *)

USE DEF Slots!Slot, Slots!Other, Slots!Valid, Slots!Active, Slots!meta, Slots!vars

LEMMA DefaultStep ==
  ASSUME IInv, GetSuffix PROVE [Slots!Next]_Slots!vars
<1> USE DEF GetSuffix, AccessOK, AccessFails, storageVars, meta, IInv, TypeOK, HistoryOK
<1>1. storage' \in {"sound", "failed"}
  BY DEF GetSuffixFails, GetSuffixByPriority, GetSuffixDefault, Store
<1>2. CASE UNCHANGED meta
  BY <1>1, <1>2 DEF Slots!Next
<1>3. CASE ~ UNCHANGED meta
  <2>1. magic = "wrong" /\ set_active_slot("a", Cleared)
    BY <1>3 DEF GetSuffixFails, GetSuffixByPriority, GetSuffixDefault, Store
  <2>2. Slots!Default
    BY <2>1 DEF set_active_slot, Cleared, Slots!Default, Slots!Activated
  <2> QED  BY <1>1, <2>2 DEF Slots!Next
<1> QED  BY <1>2, <1>3

LEMMA ChargeStep ==
  ASSUME IInv, ReduceRetryCount PROVE [Slots!Next]_Slots!vars
<1> USE DEF ReduceRetryCount, AccessOK, AccessFails, storageVars, meta, IInv, TypeOK,
            MetaOK, LocalOK, HistoryOK
<1>1. storage' \in {"sound", "failed"}
  BY DEF Store
<1>2. CASE UNCHANGED retry_count
  BY <1>1, <1>2 DEF Slots!Next
<1>3. CASE retry_count' # retry_count
  <2>1. ab_suffix \in Slot
    BY DEF Decision, SuffixKnown
  <2>2. retry_count' = [retry_count EXCEPT ![ab_suffix] = @ - 1] /\ retry_count[ab_suffix] > 0
    BY <1>3, <2>1 DEF Store, ReducedRetry
  <2>3. successful_boot[ab_suffix] = 0
    BY DEF Decision, Unconfirmed
  <2>4. storage = "sound" => ab_suffix = Active /\ Valid(ab_suffix)
    BY DEF Decision, SuffixIsActive, SuffixIsValid, Undecided
  <2>5. Slots!Charge(ab_suffix)
    BY <2>1, <2>2, <2>3, <2>4 DEF Slots!Charge, Active
  <2> QED  BY <1>1, <2>1, <2>5 DEF Slots!Next
<1> QED  BY <1>2, <1>3

LEMMA AbandonStep ==
  ASSUME IInv, MarkSlotInvalid PROVE [Slots!Next]_Slots!vars
<1> USE DEF MarkSlotInvalid, AfterInvalid, AccessOK, AccessFails, storageVars, meta, IInv, TypeOK,
            MetaOK, LocalOK, HistoryOK
<1>1. storage' \in {"sound", "failed"}
  BY DEF Store
<1>2. CASE UNCHANGED <<priority, successful_boot>>
  BY <1>1, <1>2 DEF Slots!Next
<1>3. CASE Invalidated(ab_suffix)
  <2>1. ab_suffix \in Slot /\ successful_boot[ab_suffix] = 0
    BY DEF Decision, SuffixKnown, Unconfirmed
  <2>2. successful_boot' = successful_boot
    BY <1>3, <2>1 DEF Invalidated
  <2>3. retry_count[ab_suffix] = 0
    BY <2>1, ConstantsAssumption
       DEF ConstantsAssumption, Decision, Unconfirmed, RetryIsCurrent, Undecided
  <2>4. storage = "sound" => ab_suffix = Active
    BY DEF Decision, SuffixIsActive, Undecided
  <2>5. Slots!Abandon(ab_suffix)
    BY <1>3, <2>1, <2>2, <2>3, <2>4 DEF Invalidated, Slots!Abandon, Active
  <2> QED  BY <1>1, <2>1, <2>5 DEF Slots!Next
<1> QED  BY <1>2, <1>3 DEF Store

LEMMA RollbackStep ==
  ASSUME IInv, SetBootPart PROVE [Slots!Next]_Slots!vars
<1> USE DEF SetBootPart, AccessOK, AccessFails, storageVars, meta, IInv, TypeOK,
            MetaOK, LocalOK, HistoryOK
<1>1. CASE UNCHANGED bootPart
  BY <1>1 DEF Slots!Next
<1>2. CASE bootPart' # bootPart
  <2>1. ab_suffix \in Slot /\ bootPart' = Other(ab_suffix) /\ UNCHANGED storage
    BY <1>2 DEF Decision, SuffixKnown
  <2>2. Slots!Rollback(ab_suffix)
    BY <2>1 DEF Decision, SwitchJustified, Slots!Rollback
  <2> QED  BY <2>1, <2>2 DEF Slots!Next
<1> QED  BY <1>1, <1>2

LEMMA SystemStep ==
  ASSUME IInv, Environment PROVE [Slots!Next]_Slots!vars
<1> USE DEF storageVars, durable, meta, IInv, TypeOK, MetaOK, LocalOK, HistoryOK
<1>1. CASE PowerCut \/ Reset \/ Reboot
  BY <1>1 DEF PowerCut, Reset, Reboot
<1>2. CASE OsConfirms
  <2>1. Slots!Confirm(loaded)
    BY <1>2 DEF OsConfirms, Slots!Confirm
  <2>2. CASE loaded \in Slot
    BY <1>2, <2>1, <2>2 DEF OsConfirms, Slots!Next
  <2>3. CASE loaded \notin Slot
    <3>1. loaded \in HEALTHY  BY <1>2 DEF OsConfirms
    <3> QED  BY <3>1, <2>3, ConstantsAssumption DEF ConstantsAssumption
  <2> QED  BY <2>2, <2>3
<1>3. ASSUME NEW s \in Slot, OsActivates(s) PROVE [Slots!Next]_Slots!vars
  <2>1. PICK p \in {0, TOP_PRIORITY - 1} :
          /\ p <= priority[Other(s)]
          /\ set_active_slot(s, [priority |-> p,
                                 retry_count |-> retry_count[Other(s)],
                                 successful_boot |-> successful_boot[Other(s)],
                                 normal_boot |-> normal_boot[Other(s)]])
    BY <1>3 DEF OsActivates
  <2>2. p \in 0..priority[Other(s)]
    BY <2>1, ConstantsAssumption DEF ConstantsAssumption
  <2>3. Slots!Update(s)
    BY <1>3, <2>1, <2>2 DEF OsActivates, set_active_slot, Slots!Update, Slots!Activated
  <2>4. UNCHANGED storage
    BY <1>3 DEF OsActivates
  <2> QED  BY <2>3, <2>4 DEF Slots!Next
<1>4. ASSUME NEW s \in Slot, NEW mode \in 0..1, OsSetsNormalBoot(s, mode)
      PROVE  [Slots!Next]_Slots!vars
  <2>1. Slots!SetMode(s) /\ UNCHANGED storage
    BY <1>4 DEF OsSetsNormalBoot, Slots!SetMode
  <2> QED  BY <2>1 DEF Slots!Next
<1> QED  BY <1>1, <1>2, <1>3, <1>4 DEF Environment

\* The program implements AbSlots: whatever fails and wherever power is cut,
\* each durable change is a default, a charge, an abandonment, a rollback or a
\* change by the running system, justified by the durable state it meets.
THEOREM Implementation == Spec => ImplementsSlots
<1>1. Init => Slots!Init
  <2> SUFFICES ASSUME Init PROVE Slots!Init
      OBVIOUS
  <2>1. TypeOK  BY InitTypeOK
  <2>2. storage = "sound"  BY DEF Init
  <2> QED  BY <2>1, <2>2 DEF TypeOK, MetaOK, Slots!Init
<1>2. IInv /\ [Next]_vars => [Slots!Next]_Slots!vars
  <2> SUFFICES ASSUME IInv, [Next]_vars PROVE [Slots!Next]_Slots!vars
      OBVIOUS
  <2>1. CASE UNCHANGED vars
    BY <2>1 DEF vars, durable, meta, storageVars
  <2>2. CASE \/ PowerOn \/ GetRetryCount \/ CheckLoop \/ GetBootMode \/ GetBootupStatus
             \/ CheckAgain \/ LoadImages
    <3>1. UNCHANGED <<meta, bootPart>>
      BY <2>2 DEF PowerOn, GetRetryCount, CheckLoop, GetBootMode, GetBootupStatus, CheckAgain,
                  LoadImages, durable
    <3>2. storage' \in {"sound", "failed"}
      BY <2>2 DEF PowerOn, GetRetryCount, CheckLoop, CheckValidSlot, GetBootMode,
         GetBootupStatus, CheckAgain, LoadImages, AccessOK, AccessFails, storageVars, IInv,
         TypeOK, HistoryOK
    <3> QED  BY <3>1, <3>2 DEF Slots!Next, meta
  <2> QED
    BY <2>1, <2>2, DefaultStep, ChargeStep, AbandonStep, RollbackStep, SystemStep
       DEF Next, Preloader
<1> QED
  BY <1>1, <1>2, Invariance, PTL DEF Spec, ImplementsSlots, Slots!Spec

=============================================================================
