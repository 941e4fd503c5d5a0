------------------------------- MODULE BmtProofs -------------------------------
(***************************************************************************)
(* Theorems about Bmt, for any number of blocks, pool blocks and pages,    *)
(* any factory-bad blocks, any number of failing operations and power cuts *)
(* unless a theorem bounds them.                                           *)
(*                                                                         *)
(* Four invariants, each resting on the first two.  IInv: whatever fails,  *)
(* a table in memory or on flash never shares a replacement nor names its  *)
(* own block.  Known: up to one failure, what marks, table and the access  *)
(* in progress say of each other.  Calm: as long as nothing fails, where   *)
(* the data are, in memory and on flash, whenever power is cut.  Sound:    *)
(* the same up to one failure, as long as power is not cut.                *)
(***************************************************************************)
EXTENDS Bmt, WellFoundedInduction, SequenceTheorems, TLAPS

-----------------------------------------------------------------------------
(* The inductive invariant of Disjoint and MarkedAfterRedirected.           *)

\* No two entries share a replacement, and none has block b.
Fits(t, b) ==
  /\ \A j, k \in DOMAIN t : t[j].mapped_index = t[k].mapped_index => j = k
  /\ \A k \in DOMAIN t : t[k].mapped_index # b

\* A table on flash never names the block it is in, and its page has no index, so
\* that it is neither moved as data nor taken for a replacement.
GoodPage(b, content) ==
  content.kind = "bmt" => content.index = NO_INDEX /\ Fits(content.table, b)
FlashIs(f) == /\ f \in [Block -> [Page -> Content]]
              /\ \A b \in Block, p \in Page : GoodPage(b, f[b][p])

Redirected(b) == \E k \in DOMAIN bmt : bmt[k].bad_index = b

Medium == /\ mark \in [Block -> BOOLEAN] /\ FlashIs(flash)
          /\ stored \in [System -> [Page -> 0..MaxWrites]] /\ writes \in 0..MaxWrites
\* The block a migration fills is still unused, and is not the table's.
Target == pc \in {"migrate", "copy", "update"} =>
            to_index \in Pool /\ ~IsMapped(bmt, to_index) /\ to_index # bmt_block_index
\* The system block of an access is in the table before the table is written.
Tabled == /\ pc \in {"write_bmt", "program_bmt", "mark_bad"} /\ op.name # "init" =>
               op.error_block \in Pool \/ Redirected(op.error_block)
          /\ pc = "mark_bad" => op.name # "init"
          /\ pc = "program_bmt" => bmt_block_index \in Pool
\* A table being rebuilt has replacements only among the blocks already read.
Rebuilt == pc = "reconstruct" =>
             /\ op.name = "init" /\ bmt_block_index = 0
             /\ \A k \in DOMAIN bmt : bmt[k].mapped_index < system_block_count + i
Steps == Memory /\ Disjoint /\ Target /\ Tabled /\ Rebuilt
IInv == Medium /\ Steps

-----------------------------------------------------------------------------
(* Blocks, pages and tables.                                               *)

LEMMA Counts ==
  /\ system_block_count \in Nat /\ system_block_count > 0
  /\ bmt_block_count \in Nat /\ bmt_block_count > 0
  /\ page_per_block \in Nat /\ page_per_block > 0 /\ MaxWrites \in Nat
  /\ system_block_count + bmt_block_count < 43690
BY ConstantsAssumption DEF ConstantsAssumption, FAKE_INDEX

LEMMA Blocks ==
  /\ System \subseteq Block /\ Pool \subseteq Block /\ Block \subseteq Nat
  /\ System \cap Pool = {} /\ 0 \in System /\ 0 \notin Pool /\ 0 \in Page
  /\ NO_INDEX \in Nat /\ FAKE_INDEX \in Nat
  /\ \A b \in Block : b \notin System => b \in Pool
  /\ \A b \in Nat : b < system_block_count => b \in System
  /\ \A b \in System : b < system_block_count
  /\ \A b \in Block : b < system_block_count + bmt_block_count
<1>1. System \subseteq Nat /\ Pool \subseteq Nat
  BY Counts DEF System, Pool
<1>2. /\ System \cap Pool = {} /\ 0 \in System /\ 0 \notin Pool /\ 0 \in Page
  BY Counts DEF System, Pool, Page
<1>3. NO_INDEX \in Nat /\ FAKE_INDEX \in Nat
  BY DEF NO_INDEX, FAKE_INDEX
<1>4. /\ \A b \in Nat : b < system_block_count => b \in System
      /\ \A b \in System : b < system_block_count
      /\ \A b \in Pool : b < system_block_count + bmt_block_count
  BY Counts DEF System, Pool
<1>5. \A b \in System : b < system_block_count + bmt_block_count
  BY <1>1, <1>4, Counts
<1> QED  BY <1>1, <1>2, <1>3, <1>4, <1>5 DEF Block

LEMMA LowestIs ==
  ASSUME NEW S, S \subseteq Nat, S # {}
  PROVE  Lowest(S) \in S /\ \A c \in S : Lowest(S) <= c
<1> DEFINE R == OpToRel(<, Nat)
<1>1. IsWellFoundedOn(R, Nat)
  BY NatLessThanWellFounded, Zenon
<1>2. \E x \in S : \A y \in S : ~(<<y, x>> \in R)
  BY <1>1, WFMin, Zenon
<1>3. PICK x \in S : \A y \in S : ~(<<y, x>> \in R)
  BY <1>2, Zenon
<1>a. ASSUME NEW y \in S, y < x PROVE <<y, x>> \in R
  <2>1. <<y, x>> \in Nat \X Nat
    OBVIOUS
  <2>2. <<y, x>>[1] < <<y, x>>[2]
    BY <1>a
  <2> QED  BY <2>1, <2>2, Zenon DEF OpToRel
<1> HIDE DEF R
<1>4. ASSUME NEW y \in S PROVE x <= y
  <2>1. ~(y < x)
    BY <1>3, <1>a, Zenon
  <2>2. x \in Nat /\ y \in Nat
    OBVIOUS
  <2> QED  BY <2>1, <2>2
<1> QED  BY <1>4 DEF Lowest

LEMMA HighestIs ==
  ASSUME NEW S, S \subseteq Block, S # {}
  PROVE  Highest(S) \in S /\ \A c \in S : c <= Highest(S)
<1> DEFINE n == system_block_count + bmt_block_count
           T == {n - b : b \in S}
<1>1. n \in Nat /\ \A b \in S : b \in Nat /\ n - b \in Nat
  <2>1. ASSUME NEW b \in S PROVE b \in Nat /\ b < n
    BY Blocks
  <2>2. n \in Nat
    BY Counts
  <2> HIDE DEF n
  <2> QED  BY <2>1, <2>2
<1> HIDE DEF n
<1>a. T \subseteq Nat /\ T # {}
  BY <1>1
<1>2. Lowest(T) \in T /\ \A c \in T : Lowest(T) <= c
  BY <1>a, LowestIs
<1>3. PICK x \in S : Lowest(T) = n - x
  BY <1>2
<1>4. ASSUME NEW y \in S PROVE y <= x
  <2>1. n - x <= n - y
    BY <1>2, <1>3
  <2> QED  BY <1>1, <2>1, Blocks
<1> QED  BY <1>4 DEF Highest

LEMMA KindsOfPage ==
  /\ Erased \in Content /\ \A b : GoodPage(b, Erased)
  /\ \A x \in Nat : Garbage(x) \in Content /\ \A b : GoodPage(b, Garbage(x))
  /\ \A v \in 0..MaxWrites, x \in Nat : Data(v, x) \in Content /\ \A b : GoodPage(b, Data(v, x))
  /\ \A t \in Seq(Entry) : /\ Table(t) \in Content
                           /\ \A b : Fits(t, b) => GoodPage(b, Table(t))
<1>1. <<>> \in Seq(Entry) /\ 0 \in 0..MaxWrites /\ NO_INDEX \in Nat
  BY Counts, Blocks
<1> QED  BY <1>1 DEF Content, Erased, Garbage, Data, Table, GoodPage

LEMMA OnePage ==
  ASSUME NEW f, FlashIs(f), NEW b \in Block, NEW p \in Page, NEW c \in Content, GoodPage(b, c)
  PROVE  FlashIs([f EXCEPT ![b][p] = c])
BY DEF FlashIs

LEMMA OneBlock ==
  ASSUME NEW f, FlashIs(f), NEW b \in Block, NEW c \in Content, GoodPage(b, c)
  PROVE  FlashIs([f EXCEPT ![b] = [p \in Page |-> c]])
BY DEF FlashIs

\* A bad mark.
LEMMA MarkedFlash ==
  ASSUME Medium, NEW b \in Block, mark_block_bad(b)
  PROVE  mark' \in [Block -> BOOLEAN] /\ FlashIs(flash')
<1>1. Garbage(flash[b][0].index) \in Content /\ GoodPage(b, Garbage(flash[b][0].index))
  <2>1. flash[b][0].index \in Nat
    BY Blocks DEF Medium, FlashIs, Content
  <2> QED  BY <2>1, KindsOfPage
<1>2. flash' = [flash EXCEPT ![b][0] = Garbage(flash[b][0].index)]
  BY Blocks DEF mark_block_bad, Medium, FlashIs
<1>3. FlashIs(flash')
  BY <1>1, <1>2, OnePage, Blocks DEF Medium
<1> QED  BY <1>3 DEF Medium, mark_block_bad

LEMMA MarkKeeps ==
  ASSUME Medium, NEW b \in Block, mark_block_bad(b), UNCHANGED <<stored, writes>>
  PROVE  Medium'
BY MarkedFlash DEF Medium

LEMMA OffKeeps == Off => Steps'
<1> SUFFICES ASSUME Off PROVE Steps'
    OBVIOUS
<1>1. NoOp \in Accesses
  BY Blocks, Counts DEF NoOp, Accesses
<1>2. Memory'
  <2>1. <<>> \in Seq(Entry)
    OBVIOUS
  <2> QED  BY <1>1, <2>1 DEF Off, Memory
<1> QED  BY <1>2 DEF Off, Steps, Disjoint, Target, Tabled, Rebuilt

Moved(t, k, b) == [t EXCEPT ![k].mapped_index = b]

LEMMA Replaced ==
  ASSUME NEW t \in Seq(Entry), NEW k, NEW b \in Pool, NEW r, r = Moved(t, k, b)
  PROVE  /\ r \in Seq(Entry) /\ DOMAIN r = DOMAIN t
         /\ \A j \in DOMAIN t : /\ r[j].mapped_index = IF j = k THEN b ELSE t[j].mapped_index
                                /\ r[j].bad_index = t[j].bad_index
<1>1. /\ DOMAIN t = 1..Len(t) /\ Len(t) \in Nat /\ \A j \in DOMAIN t : t[j] \in Entry
  OBVIOUS
<1>2. DOMAIN r = DOMAIN t
  BY DEF Moved
<1>3. ASSUME NEW j \in DOMAIN t
      PROVE  /\ r[j] \in Entry
             /\ r[j].mapped_index = IF j = k THEN b ELSE t[j].mapped_index
             /\ r[j].bad_index = t[j].bad_index
  <2>1. t[j] \in Entry
    BY <1>1
  <2> QED  BY <2>1 DEF Entry, Moved
<1>4. r \in Seq(Entry)
  <2>1. r = [j \in 1..Len(t) |-> r[j]]
    BY <1>1, <1>2 DEF Moved
  <2> QED  BY <1>1, <1>2, <1>3, <2>1
<1> QED  BY <1>2, <1>3, <1>4

LEMMA Appended ==
  ASSUME NEW t \in Seq(Entry), NEW e \in Entry
  PROVE  LET r == Append(t, e)
         IN  /\ r \in Seq(Entry) /\ DOMAIN t \subseteq DOMAIN r
             /\ \A j \in DOMAIN r : \/ j \in DOMAIN t /\ r[j] = t[j]
                                    \/ j \notin DOMAIN t /\ j = Len(t) + 1 /\ r[j] = e
             /\ Len(t) + 1 \in DOMAIN r /\ r[Len(t) + 1] = e
OBVIOUS

LEMMA FirstIs ==
  ASSUME NEW t \in Seq(Entry), NEW b, \E k \in DOMAIN t : t[k].bad_index = b
  PROVE  LET k == FirstEntry(t, "bad_index", b)
         IN  /\ k \in DOMAIN t /\ t[k].bad_index = b
             /\ \A j \in 1..(k - 1) : t[j].bad_index # b
<1> DEFINE S == {k \in DOMAIN t : t[k].bad_index = b}
<1>1. S \subseteq Nat /\ S # {} /\ DOMAIN t = 1..Len(t) /\ Len(t) \in Nat
  OBVIOUS
<1> HIDE DEF S
<1>2. Lowest(S) \in S /\ \A c \in S : Lowest(S) <= c
  BY <1>1, LowestIs
<1>3. PICK k \in S : \A c \in S : k <= c
  BY <1>2
<1>4. k \in DOMAIN t /\ t[k].bad_index = b
  BY DEF S
<1>5. ASSUME NEW j \in 1..(k - 1) PROVE t[j].bad_index # b
  <2>1. j \in DOMAIN t /\ ~(k <= j)
    BY <1>1, <1>4
  <2> QED  BY <1>3, <2>1 DEF S
<1>6. \E x \in DOMAIN t : t[x].bad_index = b /\ \A j \in 1..(x - 1) : t[j].bad_index # b
  BY <1>4, <1>5
<1> QED  BY <1>6 DEF FirstEntry

LEMMA MappingIs ==
  ASSUME bmt \in Seq(Entry), NEW b \in System
  PROVE  get_mapping_block_index(b) \in Block
<1>1. CASE \E k \in DOMAIN bmt : bmt[k].bad_index = b
  <2> DEFINE k == FirstEntry(bmt, "bad_index", b)
  <2>1. k \in DOMAIN bmt
    BY <1>1, FirstIs
  <2>2. get_mapping_block_index(b) = bmt[k].mapped_index
    BY <1>1 DEF get_mapping_block_index
  <2> HIDE DEF k
  <2>3. bmt[k] \in Entry
    BY <2>1
  <2> QED  BY <2>2, <2>3, Blocks DEF Entry
<1>2. CASE ~\E k \in DOMAIN bmt : bmt[k].bad_index = b
  BY <1>2, Blocks DEF get_mapping_block_index
<1> QED  BY <1>1, <1>2

LEMMA RecoveredIs ==
  ASSUME Medium, NEW t \in Seq(Entry), NEW b \in Pool,
         \A j, k \in DOMAIN t : t[j].mapped_index = t[k].mapped_index => j = k,
         \A k \in DOMAIN t : t[k].mapped_index < b
  PROVE  LET r == Recovered(t, b)
         IN  /\ r \in Seq(Entry)
             /\ \A j, k \in DOMAIN r : r[j].mapped_index = r[k].mapped_index => j = k
             /\ \A k \in DOMAIN r : r[k].mapped_index < b + 1
<1> DEFINE bad == flash[b][0].index
           at == FirstEntry(t, "mapped_index", bad)
           new == Moved(t, at, b)
           e == [bad_index |-> bad, mapped_index |-> b]
           r == Recovered(t, b)
<1>1. b \in Nat /\ \A k \in DOMAIN t : t[k].mapped_index \in Nat
  <2>1. \A k \in DOMAIN t : t[k] \in Entry
    OBVIOUS
  <2> QED  BY <2>1, Blocks DEF Entry
<1>2. r = t \/ r = new \/ (Candidate(b) /\ r = Append(t, e))
  BY DEF Recovered, Moved
<1> HIDE DEF r, at
<1>3. CASE r = t
  BY <1>1, <1>3 DEF r
<1>4. CASE r = new
  <2> HIDE DEF r
  <2>1. /\ r \in Seq(Entry) /\ DOMAIN r = DOMAIN t
        /\ \A j \in DOMAIN t : r[j].mapped_index = IF j = at THEN b ELSE t[j].mapped_index
    BY <1>4, Replaced
  <2>2. ASSUME NEW j \in DOMAIN t, NEW k \in DOMAIN t, r[j].mapped_index = r[k].mapped_index
        PROVE  j = k
    <3>1. t[j].mapped_index < b /\ t[k].mapped_index < b
      OBVIOUS
    <3>2. b \in Nat /\ t[j].mapped_index \in Nat /\ t[k].mapped_index \in Nat
      BY <1>1
    <3>3. CASE j = at \/ k = at
      BY <2>1, <2>2, <3>1, <3>2, <3>3
    <3>4. CASE j # at /\ k # at
      BY <2>1, <2>2, <3>4
    <3> QED  BY <3>3, <3>4
  <2>3. ASSUME NEW k \in DOMAIN t PROVE r[k].mapped_index < b + 1
    <3>1. t[k].mapped_index < b /\ b \in Nat /\ t[k].mapped_index \in Nat
      BY <1>1
    <3>2. r[k].mapped_index = b \/ r[k].mapped_index = t[k].mapped_index
      BY <2>1
    <3> QED  BY <3>1, <3>2
  <2> QED  BY <2>1, <2>2, <2>3 DEF r
<1>5. CASE Candidate(b) /\ r = Append(t, e)
  <2>1. bad \in System
    <3>1. bad \in Nat
      BY Blocks DEF Medium, FlashIs, Content
    <3> QED  BY <1>5, <3>1, Blocks DEF Candidate
  <2>2. e \in Entry /\ e.mapped_index = b
    BY <2>1 DEF Entry
  <2> HIDE DEF e
  <2>3. /\ r \in Seq(Entry)
        /\ \A j \in DOMAIN r : \/ j \in DOMAIN t /\ r[j] = t[j]
                               \/ j \notin DOMAIN t /\ j = Len(t) + 1 /\ r[j] = e
    BY <1>5, <2>2, Appended
  <2> QED  BY <1>1, <2>2, <2>3 DEF r
<1> QED  BY <1>2, <1>3, <1>4, <1>5

LEMMA Unchanged ==
  ASSUME IInv, UNCHANGED vars
  PROVE  IInv'
<1> USE DEF vars, ram, faults
<1>1. Medium'
  BY DEF IInv, Medium
<1>2. Memory' /\ Disjoint'
  BY DEF IInv, Steps, Memory, Disjoint
<1>3. Target' /\ Tabled' /\ Rebuilt'
  BY DEF IInv, Steps, Target, Tabled, Rebuilt, Redirected, IsMapped
<1> QED  BY <1>1, <1>2, <1>3 DEF IInv, Steps

LEMMA EraseKeeps ==
  ASSUME Medium, NEW b \in Block, NEW c \in {Erased, Garbage(NO_INDEX)},
         flash' = [flash EXCEPT ![b] = [p \in Page |-> c]], UNCHANGED <<mark, stored, writes>>
  PROVE  Medium'
<1>1. c \in Content /\ GoodPage(b, c)
  BY KindsOfPage, Blocks
<1>2. FlashIs(flash')
  BY <1>1, OneBlock DEF Medium
<1> QED  BY <1>2 DEF Medium

LEMMA ProgramKeeps ==
  ASSUME Medium, NEW b \in Block, NEW p \in Page, NEW c \in Content, GoodPage(b, c),
         \/ flash' = [flash EXCEPT ![b][p] = IF @ = Erased THEN c ELSE Garbage(@.index)]
         \/ \E x \in Nat : flash' = [flash EXCEPT ![b][p] = Garbage(x)]
  PROVE  FlashIs(flash')
<1>1. flash[b][p].index \in Nat
  BY DEF Medium, FlashIs, Content
<1>2. PICK d : flash' = [flash EXCEPT ![b][p] = d]
               /\ (d = c \/ \E x \in Nat : d = Garbage(x))
  BY <1>1
<1>3. d \in Content /\ GoodPage(b, d)
  BY <1>2, KindsOfPage
<1> QED  BY <1>2, <1>3, OnePage DEF Medium

-----------------------------------------------------------------------------
(* Each action keeps IInv.                                                 *)

LEMMA InitKeeps == ASSUME IInv, init_bmt PROVE IInv'
<1>1. Medium'
  BY DEF init_bmt, IInv, Medium
<1>a. pool_erased' = FALSE /\ to_index' = to_index /\ i' = 0
  BY DEF init_bmt
<1>2. op' \in Accesses /\ op'.name = "init"
  BY Blocks, Counts DEF init_bmt, NoOp, Accesses
<1>3. CASE Tables # {}
  <2> DEFINE h == Highest(Tables)
  <2>1. h \in Tables
    BY <1>3, HighestIs, Blocks DEF Tables
  <2>2. h \in Pool /\ flash[h][0] \in Content /\ flash[h][0].kind = "bmt" /\ GoodPage(h, flash[h][0])
    BY <2>1, Blocks DEF Tables, IInv, Medium, FlashIs
  <2>3. bmt_block_index' = h /\ bmt' = flash[h][0].table /\ pc' = "load"
    BY <1>3 DEF init_bmt
  <2> HIDE DEF h
  <2>4. bmt' \in Seq(Entry) /\ Fits(bmt', bmt_block_index')
    BY <2>2, <2>3 DEF Content, GoodPage
  <2>5. Memory'
    BY <1>a, <1>2, <2>2, <2>3, <2>4 DEF IInv, Steps, Memory
  <2> QED  BY <1>1, <2>3, <2>4, <2>5 DEF Fits, IInv, Steps, Disjoint, Target, Tabled, Rebuilt
<1>4. CASE Tables = {}
  <2>1. bmt' = <<>> /\ bmt_block_index' = 0 /\ pc' = "reconstruct" /\ i' = 0
    BY <1>4 DEF init_bmt
  <2>2. bmt' \in Seq(Entry) /\ bmt_block_index' \in Pool \cup {0} /\ i' \in Nat
    BY <2>1
  <2>3. Memory'
    BY <1>a, <1>2, <2>1, <2>2 DEF IInv, Steps, Memory
  <2>4. Disjoint' /\ Target' /\ Tabled'
    BY <2>1 DEF Disjoint, Target, Tabled
  <2>5. Rebuilt'
    <3>1. DOMAIN bmt' = {}
      BY <2>1
    <3> QED  BY <1>2, <2>1, <3>1 DEF Rebuilt
  <2> QED  BY <1>1, <2>3, <2>4, <2>5 DEF IInv, Steps
<1> QED  BY <1>3, <1>4

LEMMA ReconstructKeeps == ASSUME IInv, reconstruct_bmt PROVE IInv'
<1>1. Medium'
  BY DEF reconstruct_bmt, IInv, Medium
<1>2. op' = op /\ op.name = "init" /\ bmt_block_index' = bmt_block_index /\ bmt_block_index = 0
  BY DEF reconstruct_bmt, IInv, Steps, Rebuilt
<1>3. CASE i < bmt_block_count
  <2> DEFINE b == system_block_count + i
  <2>1. b \in Pool /\ b + 1 = system_block_count + i' /\ i' \in Nat
    BY <1>3, Counts DEF Pool, reconstruct_bmt, IInv, Steps, Memory
  <2>2. bmt' = Recovered(bmt, b) /\ pc' = "reconstruct"
    BY <1>3 DEF reconstruct_bmt
  <2>3. /\ \A j, k \in DOMAIN bmt : bmt[j].mapped_index = bmt[k].mapped_index => j = k
        /\ \A k \in DOMAIN bmt : bmt[k].mapped_index < b
    BY DEF reconstruct_bmt, IInv, Steps, Disjoint, Rebuilt
  <2> HIDE DEF b
  <2>4. /\ bmt' \in Seq(Entry)
        /\ \A j, k \in DOMAIN bmt' : bmt'[j].mapped_index = bmt'[k].mapped_index => j = k
        /\ \A k \in DOMAIN bmt' : bmt'[k].mapped_index < b + 1
    BY <2>1, <2>2, <2>3, RecoveredIs DEF IInv, Steps, Memory
  <2>5. \A k \in DOMAIN bmt' : bmt'[k].mapped_index # 0
    <3>1. \A k \in DOMAIN bmt' : bmt'[k] \in Entry
      BY <2>4
    <3> QED  BY <3>1, Blocks DEF Entry
  <2>6. Memory'
    BY <1>2, <2>1, <2>2, <2>4 DEF reconstruct_bmt, IInv, Steps, Memory
  <2> QED  BY <1>1, <1>2, <2>1, <2>2, <2>4, <2>5, <2>6
              DEF IInv, Steps, Disjoint, Target, Tabled, Rebuilt
<1>4. CASE ~(i < bmt_block_count)
  <2>1. UNCHANGED <<bmt, pool_erased, to_index>> /\ pc' = "write_bmt" /\ i' = 0
    BY <1>4 DEF reconstruct_bmt
  <2> QED  BY <1>1, <1>2, <2>1 DEF IInv, Steps, Memory, Disjoint, Target, Tabled, Rebuilt
<1> QED  BY <1>3, <1>4

LEMMA LoadKeeps == ASSUME IInv, MarkLoaded PROVE IInv'
<1> DEFINE left == {bmt[k].bad_index : k \in {k \in DOMAIN bmt : ~mark[bmt[k].bad_index]}}
<1>1. pc = "load" /\ UNCHANGED <<ram, stored, writes, faults>> /\ pc' \in {"idle", "load"}
  BY DEF MarkLoaded
<1>2. Steps'
  BY <1>1 DEF ram, IInv, Steps, Memory, Disjoint, Target, Tabled, Rebuilt
<1>3. CASE left = {}
  BY <1>1, <1>2, <1>3 DEF MarkLoaded, IInv, Medium
<1>4. CASE left # {}
  <2>1. left \subseteq System
    <3>1. \A k \in DOMAIN bmt : bmt[k] \in Entry
      BY DEF IInv, Steps, Memory
    <3> QED  BY <3>1 DEF Entry
  <2>2. mark_block_bad(Lowest(left))
    BY <1>4 DEF MarkLoaded
  <2> HIDE DEF left
  <2>3. Lowest(left) \in Block
    BY <1>4, <2>1, LowestIs, Blocks
  <2> QED  BY <1>1, <1>2, <2>2, <2>3, MarkKeeps DEF IInv
<1> QED  BY <1>3, <1>4

\* Steps that move within an update.
LEMMA WithinStep ==
  ASSUME Steps, UNCHANGED <<bmt, bmt_block_index, op, to_index, pc>>, pool_erased' \in BOOLEAN,
         i' \in Nat, pc # "reconstruct"
  PROVE  Steps'
<1>1. Memory' /\ Disjoint'
  BY DEF Steps, Memory, Disjoint
<1>2. Target' /\ Tabled' /\ Rebuilt'
  BY DEF Steps, Target, Tabled, Rebuilt, Redirected, IsMapped
<1> QED  BY <1>1, <1>2 DEF Steps

\* Steps that end an access, or look for a block again.
LEMMA LeavingStep ==
  ASSUME Steps, UNCHANGED <<bmt, bmt_block_index, to_index>>, pool_erased' \in BOOLEAN,
         op' \in Accesses, i' \in Nat, pc' \in {"idle", "find", "mark_failed", "load"}
  PROVE  Steps'
<1>1. Memory' /\ Disjoint'
  BY DEF Steps, Memory, Disjoint
<1>2. Target' /\ Tabled' /\ Rebuilt'
  BY DEF Target, Tabled, Rebuilt
<1> QED  BY <1>1, <1>2 DEF Steps

LEMMA CutErase ==
  ASSUME Medium, NEW b \in Block, Off, UNCHANGED <<mark, stored, writes>>,
         flash' = [flash EXCEPT ![b] = [p \in Page |-> Garbage(NO_INDEX)]]
  PROVE  IInv'
BY EraseKeeps, OffKeeps DEF IInv

LEMMA CutProgram ==
  ASSUME Medium, NEW b \in Block, NEW p \in Page, NEW content \in Content, GoodPage(b, content),
         Off, mark' = mark, stored' \in [System -> [Page -> 0..MaxWrites]], writes' \in 0..MaxWrites,
         \E index \in {NO_INDEX, content.index} : flash' = [flash EXCEPT ![b][p] = Garbage(index)]
  PROVE  IInv'
<1>1. NO_INDEX \in Nat /\ content.index \in Nat
  BY Blocks DEF Content
<1>2. FlashIs(flash')
  BY <1>1, ProgramKeeps
<1>3. Medium'
  BY <1>2 DEF Medium
<1> QED  BY <1>3, OffKeeps DEF IInv

LEMMA ErasePoolKeeps == ASSUME IInv, ErasePool PROVE IInv'
<1> DEFINE left == {b \in Erasable : b >= i}
           b == Lowest(left)
           next == /\ i' = b + 1
                   /\ UNCHANGED <<bmt, bmt_block_index, pool_erased, pc, op, to_index>>
<1>1. Finding /\ pc # "reconstruct" /\ UNCHANGED <<stored, writes>>
  BY DEF ErasePool, Finding
<1>2. CASE left = {}
  <2>1. /\ pool_erased' = TRUE /\ i' = 0
        /\ UNCHANGED <<mark, flash, bmt, bmt_block_index, pc, op, to_index>>
    BY <1>2 DEF ErasePool
  <2>2. Medium'
    BY <1>1, <2>1 DEF IInv, Medium
  <2> QED  BY <1>1, <2>1, <2>2, WithinStep DEF IInv
<1>3. CASE left # {}
  <2>1. left \subseteq Pool
    BY DEF Erasable
  <2>2. nand_erase(b, next, mark_block_bad(b) /\ next)
    BY <1>3 DEF ErasePool
  <2> HIDE DEF left
  <2>3. b \in Block /\ b + 1 \in Nat
    <3>1. b \in left
      BY <1>3, <2>1, LowestIs, Blocks
    <3> HIDE DEF b
    <3>2. b \in Nat /\ b \in Block
      BY <2>1, <3>1, Blocks
    <3> QED  BY <3>2
  <2>4. next => Steps'
    BY <1>1, <2>3, WithinStep DEF IInv, Steps, Memory
  <2> HIDE DEF b
  <2>5. ASSUME UNCHANGED mark, next, flash' = [flash EXCEPT ![b] = [p \in Page |-> Erased]]
        PROVE  IInv'
    BY <1>1, <2>3, <2>4, <2>5, EraseKeeps DEF IInv
  <2>6. ASSUME mark_block_bad(b), next PROVE IInv'
    BY <1>1, <2>3, <2>4, <2>6, MarkKeeps DEF IInv
  <2>7. ASSUME Off, UNCHANGED mark,
               flash' = [flash EXCEPT ![b] = [p \in Page |-> Garbage(NO_INDEX)]]
        PROVE  IInv'
    BY <1>1, <2>3, <2>7, CutErase DEF IInv
  <2> HIDE DEF next
  <2> QED  BY <2>2, <2>5, <2>6, <2>7 DEF nand_erase
<1> QED  BY <1>2, <1>3

LEMMA NothingKeeps == ASSUME IInv, NothingFound PROVE IInv'
<1>1. UNCHANGED <<mark, flash, stored, writes, faults>> /\ Gives_up
  BY DEF NothingFound
<1>2. Medium'
  BY <1>1 DEF IInv, Medium
<1>3. Off \/ (pc' \in {"idle", "mark_failed"} /\ UNCHANGED ram)
  BY <1>1 DEF Gives_up
<1>4. Steps'
  BY <1>3, OffKeeps, LeavingStep DEF ram, IInv, Steps, Memory
<1> QED  BY <1>2, <1>4 DEF IInv

LEMMA FindKeeps == ASSUME IInv, FindBlock PROVE IInv'
<1>1. Medium'
  BY DEF FindBlock, IInv, Medium
<1>2. Available \subseteq Pool /\ Available # {} /\ Pool \subseteq Nat
  BY Blocks DEF FindBlock, Available
<1>3. to_index' \in Available
  BY <1>2, LowestIs DEF FindBlock
<1>4. /\ to_index' \in Pool /\ ~IsMapped(bmt, to_index') /\ to_index' # bmt_block_index
  BY <1>3 DEF Available
<1>5. UNCHANGED <<bmt, bmt_block_index, pool_erased, op, i>> /\ pc' \in {"migrate", "update"}
  BY DEF FindBlock
<1>6. Memory' /\ Disjoint'
  BY <1>4, <1>5 DEF IInv, Steps, Memory, Disjoint
<1>7. Target' /\ Tabled' /\ Rebuilt'
  BY <1>4, <1>5 DEF Target, Tabled, Rebuilt
<1> QED  BY <1>1, <1>6, <1>7 DEF IInv, Steps

\* A block of the pool is given up, and another one looked for.
LEMMA RetryKeeps ==
  ASSUME IInv, NEW b \in Pool, NEW p \in Page, Retry(b, p), UNCHANGED <<stored, writes>>
  PROVE  IInv'
<1> DEFINE marked == IF MARKS_TARGET THEN b ELSE 0
           f1 == [flash EXCEPT ![b][p] = Garbage(NO_INDEX)]
<1>1. b \in Block /\ marked \in Block /\ 0 \in Page
  BY Blocks
<1>2. FlashIs(f1)
  BY <1>1, KindsOfPage, Blocks, OnePage DEF IInv, Medium
<1>3. flash' = [f1 EXCEPT ![marked][0] = Garbage(@.index)]
  BY DEF Retry
<1> HIDE DEF f1, marked
<1>4. f1[marked][0].index \in Nat
  <2>1. f1[marked][0] \in Content
    BY <1>1, <1>2 DEF FlashIs
  <2> QED  BY <2>1 DEF Content
<1>5. FlashIs(flash')
  <2> DEFINE c == Garbage(f1[marked][0].index)
  <2>1. c \in Content /\ GoodPage(marked, c)
    BY <1>4, KindsOfPage
  <2>2. flash' = [f1 EXCEPT ![marked][0] = c]
    BY <1>1, <1>2, <1>3 DEF FlashIs
  <2> HIDE DEF c
  <2> QED  BY <1>1, <1>2, <2>1, <2>2, OnePage
<1>6. mark' \in [Block -> BOOLEAN]
  <2>1. mark' = [mark EXCEPT ![marked] = TRUE]
    BY DEF Retry, marked
  <2> QED  BY <1>1, <2>1 DEF IInv, Medium
<1>7. Medium'
  BY <1>5, <1>6 DEF IInv, Medium
<1>8. op' \in Accesses /\ i' = 0 /\ pc' = "find"
      /\ UNCHANGED <<bmt, bmt_block_index, pool_erased, to_index>>
  BY Blocks DEF Retry, IInv, Steps, Memory, Accesses
<1>9. Steps'
  BY <1>8, LeavingStep DEF IInv, Steps, Memory
<1> QED  BY <1>7, <1>9 DEF IInv

\* What a program that worked, or one that was cut off, leaves.
LEMMA WroteKeeps ==
  ASSUME Medium, NEW b \in Block, NEW p \in Page, NEW content \in Content, GoodPage(b, content),
         flash' = [flash EXCEPT ![b][p] = IF @ = Erased THEN content ELSE Garbage(@.index)],
         UNCHANGED <<mark, stored, writes>>
  PROVE  Medium'
<1>1. FlashIs(flash')
  BY ProgramKeeps
<1> QED  BY <1>1 DEF Medium

LEMMA ErrorPageKeeps == ASSUME IInv, MigrateErrorPage PROVE IInv'
<1> DEFINE index == IF op.error_block < system_block_count THEN op.error_block ELSE op.spare
           p == op.error_page
           content == Data(op.val, index)
           ok == /\ pc' = "copy" /\ i' = 0
                 /\ UNCHANGED <<bmt, bmt_block_index, pool_erased, op, to_index>>
<1>1. to_index \in Pool /\ to_index \in Block /\ p \in Page
  BY Blocks DEF MigrateErrorPage, IInv, Steps, Memory, Target, Accesses
<1>2. content \in Content /\ GoodPage(to_index, content)
  <2>1. index \in Nat /\ op.val \in 0..MaxWrites
    BY Blocks DEF IInv, Steps, Memory, Accesses
  <2> HIDE DEF index
  <2> QED  BY <2>1, KindsOfPage
<1>3. ok => Steps'
  <2> SUFFICES ASSUME ok PROVE Steps'
    OBVIOUS
  <2>1. pc = "migrate"
    BY DEF MigrateErrorPage
  <2>2. Memory' /\ Disjoint'
    BY DEF IInv, Steps, Memory, Disjoint
  <2>3. Target' /\ Tabled' /\ Rebuilt'
    BY <2>1 DEF IInv, Steps, Target, Tabled, Rebuilt, IsMapped
  <2> QED  BY <2>2, <2>3 DEF Steps
<1>4. /\ nand_write_page(to_index, p, content, ok, Retry(to_index, p))
      /\ UNCHANGED <<stored, writes>>
  BY DEF MigrateErrorPage
<1>5. Medium
  BY DEF IInv
<1> HIDE DEF p, content, ok
<1>6. ASSUME UNCHANGED mark, ok,
             flash' = [flash EXCEPT ![to_index][p] =
                         IF @ = Erased THEN content ELSE Garbage(@.index)]
      PROVE  IInv'
  BY <1>1, <1>2, <1>3, <1>4, <1>5, <1>6, WroteKeeps DEF IInv
<1>7. ASSUME Retry(to_index, p) PROVE IInv'
  BY <1>1, <1>4, <1>7, RetryKeeps
<1>8. ASSUME Off, UNCHANGED mark,
             \E x \in {NO_INDEX, content.index} :
               flash' = [flash EXCEPT ![to_index][p] = Garbage(x)]
      PROVE  IInv'
  <2>1. stored' \in [System -> [Page -> 0..MaxWrites]] /\ writes' \in 0..MaxWrites /\ mark' = mark
    BY <1>4, <1>5, <1>8 DEF Medium
  <2> QED  BY <1>1, <1>2, <1>5, <1>8, <2>1, CutProgram
<1> QED  BY <1>4, <1>6, <1>7, <1>8 DEF nand_write_page

LEMMA NextPageKeeps == ASSUME IInv, MigrateNextPage PROVE IInv'
<1> DEFINE left == {p \in Page : p >= i /\ p # op.error_page
                                 /\ flash[op.error_block][p].index # NO_INDEX}
           p == Lowest(left)
           from == flash[op.error_block][p]
           index == IF op.error_block < system_block_count THEN op.error_block ELSE from.index
           content == [from EXCEPT !.index = index]
           ok == /\ i' = p + 1
                 /\ UNCHANGED <<bmt, bmt_block_index, pool_erased, pc, op, to_index>>
<1>1. /\ to_index \in Pool /\ to_index \in Block /\ op.error_block \in Block
      /\ pc = "copy" /\ UNCHANGED <<stored, writes>>
  BY Blocks DEF MigrateNextPage, IInv, Steps, Memory, Target, Accesses
<1>2. CASE left = {}
  <2>1. pc' = "update" /\ UNCHANGED <<ram, mark, flash, faults>>
    BY <1>2 DEF MigrateNextPage
  <2>2. Medium'
    BY <1>1, <2>1 DEF IInv, Medium
  <2>3. Memory' /\ Disjoint'
    BY <2>1 DEF ram, IInv, Steps, Memory, Disjoint
  <2>4. Target' /\ Tabled' /\ Rebuilt'
    BY <1>1, <2>1 DEF ram, IInv, Steps, Target, Tabled, Rebuilt, IsMapped
  <2> QED  BY <2>2, <2>3, <2>4 DEF IInv, Steps
<1>3. CASE left # {}
  <2>1. nand_write_page(to_index, p, content, ok, Retry(to_index, p))
    BY <1>3 DEF MigrateNextPage
  <2>2. p \in left
    <3>1. left \subseteq Nat
      BY DEF Page
    <3> HIDE DEF left
    <3> QED  BY <1>3, <3>1, LowestIs
  <2>3. p \in Page /\ p \in Nat /\ from.index # NO_INDEX
    <3> HIDE DEF p
    <3> QED  BY <2>2 DEF Page
  <2>4. from \in Content /\ GoodPage(op.error_block, from)
    <3> HIDE DEF p
    <3> QED  BY <1>1, <2>3 DEF IInv, Medium, FlashIs
  <2> HIDE DEF p, from
  <2>5. index \in Nat
    BY <1>1, <2>4, Blocks DEF Content
  <2> HIDE DEF index
  <2>6. content \in Content /\ content.kind # "bmt"
    BY <2>3, <2>4, <2>5 DEF Content, GoodPage
  <2>7. GoodPage(to_index, content)
    <3> HIDE DEF content
    <3> QED  BY <2>6 DEF GoodPage
  <2>8. ok => Steps'
    BY <1>1, <2>3, WithinStep DEF IInv, Steps, Memory
  <2> HIDE DEF content, ok
  <2>9. Medium
    BY DEF IInv
  <2>10. ASSUME UNCHANGED mark, ok,
                flash' = [flash EXCEPT ![to_index][p] =
                            IF @ = Erased THEN content ELSE Garbage(@.index)]
         PROVE  IInv'
    BY <1>1, <2>3, <2>6, <2>7, <2>8, <2>9, <2>10, WroteKeeps DEF IInv
  <2>11. ASSUME Retry(to_index, p) PROVE IInv'
    BY <1>1, <2>3, <2>11, RetryKeeps
  <2>12. ASSUME Off, UNCHANGED mark,
                \E x \in {NO_INDEX, content.index} :
                  flash' = [flash EXCEPT ![to_index][p] = Garbage(x)]
         PROVE  IInv'
    <3>1. stored' \in [System -> [Page -> 0..MaxWrites]] /\ writes' \in 0..MaxWrites /\ mark' = mark
      BY <1>1, <2>9, <2>12 DEF Medium
    <3> QED  BY <1>1, <2>3, <2>6, <2>7, <2>9, <2>12, <3>1, CutProgram
  <2> QED  BY <2>1, <2>10, <2>11, <2>12 DEF nand_write_page
<1> QED  BY <1>2, <1>3

LEMMA UpdateKeeps == ASSUME IInv, UpdateTable PROVE IInv'
<1> DEFINE e == [bad_index |-> op.error_block, mapped_index |-> to_index]
           at == FirstEntry(bmt, "mapped_index", op.error_block)
<1>1. Medium'
  BY DEF UpdateTable, IInv, Medium
<1>2. /\ to_index \in Pool /\ ~IsMapped(bmt, to_index) /\ to_index # bmt_block_index
      /\ op.error_block \in Block /\ bmt \in Seq(Entry)
  BY DEF UpdateTable, IInv, Steps, Memory, Target, Accesses
<1>3. UNCHANGED <<bmt_block_index, pool_erased, op, to_index>> /\ pc' = "write_bmt" /\ i' = 0
  BY DEF UpdateTable
<1>4. ASSUME NEW j \in DOMAIN bmt, NEW k \in DOMAIN bmt, bmt[j].mapped_index = bmt[k].mapped_index
      PROVE  j = k
  BY <1>4 DEF IInv, Steps, Disjoint
<1>5. ASSUME NEW k \in DOMAIN bmt
      PROVE  bmt[k].mapped_index # bmt_block_index /\ bmt[k].mapped_index # to_index
  BY <1>2 DEF IInv, Steps, Disjoint, IsMapped
<1>6. bmt' \in Seq(Entry) /\ Disjoint' /\ (op.error_block \in Pool \/ Redirected(op.error_block)')
  <2>1. CASE op.error_block < system_block_count
    <3>1. bmt' = Append(bmt, e) /\ e.mapped_index = to_index /\ e.bad_index = op.error_block
      BY <2>1 DEF UpdateTable
    <3>2. e \in Entry
      BY <1>2, <2>1, Blocks DEF Entry
    <3> HIDE DEF e
    <3>3. /\ bmt' \in Seq(Entry)
          /\ \A j \in DOMAIN bmt' : \/ j \in DOMAIN bmt /\ bmt'[j] = bmt[j]
                                    \/ j \notin DOMAIN bmt /\ j = Len(bmt) + 1 /\ bmt'[j] = e
          /\ Len(bmt) + 1 \in DOMAIN bmt' /\ bmt'[Len(bmt) + 1] = e
      BY <1>2, <3>1, <3>2, Appended
    <3>4. Disjoint'
      <4>1. ASSUME NEW j \in DOMAIN bmt', NEW k \in DOMAIN bmt',
                   bmt'[j].mapped_index = bmt'[k].mapped_index
            PROVE  j = k
        BY <1>4, <1>5, <3>1, <3>3, <4>1
      <4>2. ASSUME NEW k \in DOMAIN bmt' PROVE bmt'[k].mapped_index # bmt_block_index
        BY <1>2, <1>5, <3>1, <3>3
      <4> QED  BY <1>3, <4>1, <4>2 DEF Disjoint
    <3> QED  BY <1>3, <3>1, <3>3, <3>4 DEF Redirected
  <2>2. CASE ~(op.error_block < system_block_count)
    <3>1. op.error_block \in Pool
      BY <1>2, <2>2, Blocks
    <3>2. bmt' = bmt \/ bmt' = Moved(bmt, at, to_index)
      BY <2>2 DEF UpdateTable, Moved
    <3> HIDE DEF at
    <3>3. CASE bmt' = bmt
      BY <1>2, <1>3, <3>1, <3>3 DEF IInv, Steps, Disjoint
    <3>4. CASE bmt' = Moved(bmt, at, to_index)
      <4>1. /\ bmt' \in Seq(Entry) /\ DOMAIN bmt' = DOMAIN bmt
            /\ \A j \in DOMAIN bmt :
                 bmt'[j].mapped_index = IF j = at THEN to_index ELSE bmt[j].mapped_index
        BY <1>2, <3>4, Replaced
      <4>2. ASSUME NEW j \in DOMAIN bmt, NEW k \in DOMAIN bmt,
                   bmt'[j].mapped_index = bmt'[k].mapped_index
            PROVE  j = k
        BY <1>4, <1>5, <4>1, <4>2
      <4>3. ASSUME NEW k \in DOMAIN bmt PROVE bmt'[k].mapped_index # bmt_block_index
        BY <1>2, <1>5, <4>1
      <4> QED  BY <1>3, <3>1, <4>1, <4>2, <4>3 DEF Disjoint
    <3> QED  BY <3>2, <3>3, <3>4
  <2> QED  BY <2>1, <2>2
<1>7. Memory'
  BY <1>3, <1>6 DEF IInv, Steps, Memory
<1>8. Target' /\ Tabled' /\ Rebuilt'
  BY <1>3, <1>6 DEF Target, Tabled, Rebuilt, Redirected
<1> QED  BY <1>1, <1>6, <1>7, <1>8 DEF IInv, Steps

\* The block of the table is given up.
LEMMA AnotherKeeps ==
  ASSUME IInv, AnotherBlock, bmt_block_index \in Pool, pc \in {"write_bmt", "program_bmt"},
         UNCHANGED <<stored, writes>>
  PROVE  IInv'
<1>1. Medium'
  BY MarkKeeps, Blocks DEF AnotherBlock, IInv
<1>2. /\ UNCHANGED <<bmt, pool_erased, op, to_index>>
      /\ bmt_block_index' = 0 /\ pc' = "write_bmt" /\ i' = 0
  BY DEF AnotherBlock
<1>3. \A k \in DOMAIN bmt : bmt[k].mapped_index # 0
  <2>1. \A k \in DOMAIN bmt : bmt[k] \in Entry
    BY DEF IInv, Steps, Memory
  <2> QED  BY <2>1, Blocks DEF Entry
<1>4. Memory' /\ Disjoint'
  BY <1>2, <1>3 DEF IInv, Steps, Memory, Disjoint
<1>5. Target' /\ Tabled' /\ Rebuilt'
  BY <1>2 DEF IInv, Steps, Target, Tabled, Rebuilt, Redirected
<1> QED  BY <1>1, <1>4, <1>5 DEF IInv, Steps

LEMMA EraseTableKeeps == ASSUME IInv, EraseTable PROVE IInv'
<1> DEFINE ok == pc' = "program_bmt" /\ UNCHANGED ram
<1>1. /\ bmt_block_index \in Pool /\ bmt_block_index \in Block /\ pc = "write_bmt"
      /\ UNCHANGED <<stored, writes>> /\ Medium
  BY Blocks DEF EraseTable, IInv, Steps, Memory
<1>2. nand_erase(bmt_block_index, ok, AnotherBlock)
  BY DEF EraseTable
<1>3. ok => Steps'
  <2> SUFFICES ASSUME ok PROVE Steps'
    OBVIOUS
  <2>1. Memory' /\ Disjoint'
    BY DEF ram, IInv, Steps, Memory, Disjoint
  <2>2. Target' /\ Tabled' /\ Rebuilt'
    BY <1>1 DEF ram, IInv, Steps, Target, Tabled, Rebuilt, Redirected
  <2> QED  BY <2>1, <2>2 DEF Steps
<1> HIDE DEF ok
<1>4. ASSUME UNCHANGED mark, ok,
             flash' = [flash EXCEPT ![bmt_block_index] = [p \in Page |-> Erased]]
      PROVE  IInv'
  BY <1>1, <1>3, <1>4, EraseKeeps DEF IInv
<1>5. ASSUME AnotherBlock PROVE IInv'
  BY <1>1, <1>5, AnotherKeeps
<1>6. ASSUME Off, UNCHANGED mark,
             flash' = [flash EXCEPT ![bmt_block_index] = [p \in Page |-> Garbage(NO_INDEX)]]
      PROVE  IInv'
  BY <1>1, <1>6, CutErase
<1> QED  BY <1>2, <1>4, <1>5, <1>6 DEF nand_erase

LEMMA FindTableKeeps == ASSUME IInv, FindTableBlock PROVE IInv'
<1>1. Medium'
  BY DEF FindTableBlock, IInv, Medium
<1>2. Available \subseteq Pool /\ Available # {} /\ Pool \subseteq Block
  BY Blocks DEF FindTableBlock, Available
<1>3. bmt_block_index' \in Available
  <2>1. Highest(Available) \in Available
    BY <1>2, HighestIs
  <2> QED  BY <2>1 DEF FindTableBlock
<1>4. bmt_block_index' \in Pool /\ ~IsMapped(bmt, bmt_block_index')
  BY <1>3 DEF Available
<1>5. /\ UNCHANGED <<bmt, pool_erased, op, to_index, i>>
      /\ pc = "write_bmt" /\ pc' = "program_bmt"
  BY DEF FindTableBlock
<1>6. Memory' /\ Disjoint'
  BY <1>4, <1>5 DEF IInv, Steps, Memory, Disjoint, IsMapped
<1>7. Target' /\ Tabled' /\ Rebuilt'
  BY <1>4, <1>5 DEF IInv, Steps, Target, Tabled, Rebuilt, Redirected
<1> QED  BY <1>1, <1>6, <1>7 DEF IInv, Steps

LEMMA ProgramTableKeeps == ASSUME IInv, ProgramTable PROVE IInv'
<1> DEFINE content == Table(bmt)
           ok == pc' = (IF op.name = "init" THEN "idle" ELSE "mark_bad") /\ UNCHANGED ram
<1>1. /\ bmt_block_index \in Pool /\ bmt_block_index \in Block /\ pc = "program_bmt"
      /\ 0 \in Page /\ UNCHANGED <<stored, writes>> /\ Medium
  BY Blocks DEF ProgramTable, IInv, Steps, Tabled
<1>2. content \in Content /\ GoodPage(bmt_block_index, content)
  BY KindsOfPage DEF IInv, Steps, Memory, Disjoint, Fits
<1>3. nand_write_page(bmt_block_index, 0, content, ok, AnotherBlock)
  BY DEF ProgramTable
<1>4. ok => Steps'
  <2> SUFFICES ASSUME ok PROVE Steps'
    OBVIOUS
  <2>1. Memory' /\ Disjoint'
    BY DEF ram, IInv, Steps, Memory, Disjoint
  <2>2. Target' /\ Tabled' /\ Rebuilt'
    BY <1>1 DEF ram, IInv, Steps, Target, Tabled, Rebuilt, Redirected
  <2> QED  BY <2>1, <2>2 DEF Steps
<1> HIDE DEF content, ok
<1>5. ASSUME UNCHANGED mark, ok,
             flash' = [flash EXCEPT ![bmt_block_index][0] =
                         IF @ = Erased THEN content ELSE Garbage(@.index)]
      PROVE  IInv'
  BY <1>1, <1>2, <1>4, <1>5, WroteKeeps DEF IInv
<1>6. ASSUME AnotherBlock PROVE IInv'
  BY <1>1, <1>6, AnotherKeeps
<1>7. ASSUME Off, UNCHANGED mark,
             \E x \in {NO_INDEX, content.index} :
               flash' = [flash EXCEPT ![bmt_block_index][0] = Garbage(x)]
      PROVE  IInv'
  <2>1. stored' \in [System -> [Page -> 0..MaxWrites]] /\ writes' \in 0..MaxWrites /\ mark' = mark
    BY <1>1, <1>7 DEF Medium
  <2> QED  BY <1>1, <1>2, <1>7, <2>1, CutProgram
<1> QED  BY <1>3, <1>5, <1>6, <1>7 DEF nand_write_page

LEMMA MarkBadKeeps == ASSUME IInv, MarkBad PROVE IInv'
<1>1. op \in Accesses /\ mark_block_bad(op.error_block) /\ pc' = "idle" /\ UNCHANGED <<ram, writes>>
  BY DEF MarkBad, IInv, Steps, Memory
<1>2. op.error_block \in Block /\ op.block \in System /\ op.error_page \in Page
      /\ op.val \in 0..MaxWrites
  BY <1>1 DEF Accesses
<1>3. stored' \in [System -> [Page -> 0..MaxWrites]]
  BY <1>2 DEF MarkBad, Acknowledge, IInv, Medium
<1>4. Steps'
  BY <1>1, LeavingStep DEF ram, IInv, Steps, Memory
<1>5. Medium'
  BY <1>1, <1>2, <1>3, MarkedFlash DEF IInv, Medium
<1> QED  BY <1>4, <1>5 DEF IInv

LEMMA MarkFailedKeeps == ASSUME IInv, MarkFailed PROVE IInv'
<1> DEFINE m == get_mapping_block_index(op.block)
<1>1. mark_block_bad(m) /\ pc' = "idle" /\ UNCHANGED <<ram, stored, writes>>
  BY DEF MarkFailed
<1>2. m \in Block
  BY MappingIs DEF IInv, Steps, Memory, Accesses
<1> HIDE DEF m
<1>3. Steps'
  BY <1>1, LeavingStep DEF ram, IInv, Steps, Memory
<1> QED  BY <1>1, <1>2, <1>3, MarkKeeps DEF IInv

LEMMA FailedStep ==
  ASSUME Steps, NEW name \in {"write", "erase", "check"}, NEW b \in System, NEW p \in Page,
         NEW v \in 0..MaxWrites, NEW spare \in Nat, Failed(name, b, p, v, spare)
  PROVE  Steps'
<1>1. get_mapping_block_index(b) \in Block
  BY MappingIs DEF Steps, Memory
<1>2. op' \in Accesses
  BY <1>1 DEF Failed, Accesses
<1>3. UNCHANGED <<bmt, bmt_block_index, pool_erased, to_index>> /\ pc' = "find" /\ i' = 0
  BY DEF Failed
<1> QED  BY <1>2, <1>3, LeavingStep DEF Steps, Memory

LEMMA WriteKeeps ==
  ASSUME IInv, NEW b \in System, NEW p \in Page, mtk_nand_write_page(b, p)
  PROVE  IInv'
<1> DEFINE m == get_mapping_block_index(b)
           v == writes + 1
           index == IF m # b THEN b ELSE FAKE_INDEX
           content == Data(v, index)
           ok == pc' = "idle" /\ UNCHANGED ram
<1>1. /\ Medium /\ Steps /\ m \in Block /\ v \in 0..MaxWrites /\ index \in Nat /\ writes' = v
  <2>1. m \in Block
    BY MappingIs DEF IInv, Steps, Memory
  <2>2. writes' = v /\ v \in 0..MaxWrites
    BY Counts DEF mtk_nand_write_page, IInv, Medium
  <2>3. index \in Nat
    BY Blocks
  <2> QED  BY <2>1, <2>2, <2>3 DEF IInv
<1>2. \/ /\ nand_write_page(m, p, content, ok, FALSE)
         /\ IF pc' = "idle" THEN Acknowledge(b, p, v) ELSE UNCHANGED stored
      \/ /\ flash' = [flash EXCEPT ![m][p] = Garbage(index)]
         /\ Failed("write", b, p, v, index)
         /\ UNCHANGED <<mark, stored>>
  BY DEF mtk_nand_write_page
<1> HIDE DEF m, v, index
<1>3. content \in Content /\ GoodPage(m, content)
  BY <1>1, KindsOfPage
<1>4. ok => Steps'
  BY <1>1, LeavingStep DEF ram, Steps, Memory
<1> HIDE DEF content, ok
<1>5. (IF pc' = "idle" THEN Acknowledge(b, p, v) ELSE UNCHANGED stored)
        => stored' \in [System -> [Page -> 0..MaxWrites]]
  BY <1>1 DEF Acknowledge, Medium
<1>6. ASSUME stored' \in [System -> [Page -> 0..MaxWrites]], UNCHANGED mark, ok,
             flash' = [flash EXCEPT ![m][p] = IF @ = Erased THEN content ELSE Garbage(@.index)]
      PROVE  IInv'
  <2>1. FlashIs(flash')
    BY <1>1, <1>3, <1>6, ProgramKeeps
  <2> QED  BY <1>1, <1>4, <1>6, <2>1 DEF IInv, Medium
<1>7. ASSUME stored' \in [System -> [Page -> 0..MaxWrites]], Off, UNCHANGED mark,
             \E x \in {NO_INDEX, content.index} : flash' = [flash EXCEPT ![m][p] = Garbage(x)]
      PROVE  IInv'
  <2>1. mark' = mark /\ writes' \in 0..MaxWrites
    BY <1>1, <1>7
  <2> QED  BY <1>1, <1>3, <1>7, <2>1, CutProgram
<1>8. ASSUME flash' = [flash EXCEPT ![m][p] = Garbage(index)],
             Failed("write", b, p, v, index), UNCHANGED <<mark, stored>>
      PROVE  IInv'
  <2>1. FlashIs(flash')
    BY <1>1, <1>8, KindsOfPage, OnePage DEF Medium
  <2>2. Medium'
    BY <1>1, <1>8, <2>1 DEF Medium
  <2> QED  BY <1>1, <1>8, <2>2, FailedStep DEF IInv
<1>9. CASE /\ nand_write_page(m, p, content, ok, FALSE)
           /\ IF pc' = "idle" THEN Acknowledge(b, p, v) ELSE UNCHANGED stored
  BY <1>5, <1>6, <1>7, <1>9 DEF nand_write_page
<1> QED  BY <1>2, <1>8, <1>9

LEMMA EraseBlockKeeps ==
  ASSUME IInv, NEW b \in System, mtk_nand_erase(b)
  PROVE  IInv'
<1> DEFINE m == get_mapping_block_index(b)
           ok == pc' = "idle" /\ UNCHANGED ram
           fail == Failed("erase", b, 0, 0, NO_INDEX) /\ UNCHANGED <<mark, flash>>
<1>1. /\ Medium /\ Steps /\ m \in Block /\ UNCHANGED writes /\ 0 \in 0..MaxWrites
      /\ 0 \in Page /\ NO_INDEX \in Nat
  BY MappingIs, Blocks, Counts DEF mtk_nand_erase, IInv, Steps, Memory
<1>2. stored' \in [System -> [Page -> 0..MaxWrites]]
  <2>1. stored' = [stored EXCEPT ![b] = [p \in Page |-> 0]]
    BY DEF mtk_nand_erase
  <2> QED  BY <1>1, <2>1 DEF Medium
<1>3. nand_erase(m, ok, fail)
  BY DEF mtk_nand_erase
<1> HIDE DEF m
<1>4. ok => Steps'
  BY <1>1, LeavingStep DEF ram, Steps, Memory
<1>5. fail => IInv'
  <2> SUFFICES ASSUME fail PROVE IInv'
    OBVIOUS
  <2>1. Medium'
    BY <1>1, <1>2 DEF Medium
  <2> QED  BY <1>1, <2>1, FailedStep DEF IInv
<1> HIDE DEF ok, fail
<1>6. ASSUME UNCHANGED mark, NEW c \in {Erased, Garbage(NO_INDEX)},
             flash' = [flash EXCEPT ![m] = [p \in Page |-> c]]
      PROVE  Medium'
  <2>1. c \in Content /\ GoodPage(m, c)
    BY <1>1, KindsOfPage
  <2>2. FlashIs(flash')
    BY <1>1, <1>6, <2>1, OneBlock DEF Medium
  <2> QED  BY <1>1, <1>2, <1>6, <2>2 DEF Medium
<1>7. ASSUME UNCHANGED mark, ok, flash' = [flash EXCEPT ![m] = [p \in Page |-> Erased]]
      PROVE  IInv'
  BY <1>4, <1>6, <1>7 DEF IInv
<1>8. ASSUME UNCHANGED mark, Off,
             flash' = [flash EXCEPT ![m] = [p \in Page |-> Garbage(NO_INDEX)]]
      PROVE  IInv'
  BY <1>6, <1>8, OffKeeps DEF IInv
<1> QED  BY <1>3, <1>5, <1>7, <1>8 DEF nand_erase

LEMMA BlockBadKeeps ==
  ASSUME IInv, NEW b \in System, nand_block_bad(b)
  PROVE  IInv'
<1>1. /\ UNCHANGED <<mark, flash, stored, writes>> /\ Failed("check", b, 0, 0, NO_INDEX)
      /\ 0 \in 0..MaxWrites /\ 0 \in Page /\ NO_INDEX \in Nat
  BY Blocks, Counts DEF nand_block_bad
<1>2. Medium'
  BY <1>1 DEF IInv, Medium
<1> QED  BY <1>1, <1>2, FailedStep DEF IInv

LEMMA PowerKeeps == ASSUME IInv, PowerOff \/ PowerCut PROVE IInv'
<1>1. Off /\ UNCHANGED <<mark, flash, stored, writes>>
  BY DEF PowerOff, PowerCut
<1>2. Medium'
  BY <1>1 DEF IInv, Medium
<1> QED  BY <1>1, <1>2, OffKeeps DEF IInv

LEMMA InitHolds == Init => IInv
<1> SUFFICES ASSUME Init PROVE IInv
  OBVIOUS
<1>1. mark \in [Block -> BOOLEAN] /\ 0 \in 0..MaxWrites
  BY Counts DEF Init
<1>2. FlashIs(flash)
  <2> DEFINE c(b, p) == IF p = 0 /\ mark[b] THEN Garbage(NO_INDEX) ELSE Erased
  <2>1. \A b \in Block, p \in Page : c(b, p) \in Content /\ GoodPage(b, c(b, p))
    BY KindsOfPage, Blocks
  <2>2. flash = [b \in Block |-> [p \in Page |-> c(b, p)]]
    BY DEF Init
  <2> HIDE DEF c
  <2> QED  BY <2>1, <2>2 DEF FlashIs
<1>3. Medium
  <2>1. stored = [b \in System |-> [p \in Page |-> 0]] /\ writes = 0
    BY DEF Init
  <2> QED  BY <1>1, <1>2, <2>1 DEF Medium
<1>4. /\ bmt = <<>> /\ bmt_block_index = 0 /\ pool_erased = FALSE
      /\ pc = "off" /\ op = NoOp /\ to_index = 0 /\ i = 0
  BY DEF Init
<1>5. NoOp \in Accesses
  BY Blocks, Counts DEF NoOp, Accesses
<1>6. Memory
  <2>1. bmt \in Seq(Entry) /\ bmt_block_index \in Pool \cup {0} /\ i \in Nat
    BY <1>4
  <2> QED  BY <1>4, <1>5, <2>1 DEF Memory
<1>7. Disjoint /\ Target /\ Tabled /\ Rebuilt
  BY <1>4 DEF Disjoint, Target, Tabled, Rebuilt
<1> QED  BY <1>3, <1>6, <1>7 DEF IInv, Steps

LEMMA NextKeeps == IInv /\ [Next]_vars => IInv'
<1> SUFFICES ASSUME IInv, [Next]_vars PROVE IInv'
  OBVIOUS
<1>1. CASE UNCHANGED vars
  BY <1>1, Unchanged
<1>2. CASE Driver
  BY <1>2, InitKeeps, ReconstructKeeps, LoadKeeps, ErasePoolKeeps, NothingKeeps, ErrorPageKeeps,
     NextPageKeeps, FindKeeps, UpdateKeeps, EraseTableKeeps, FindTableKeeps, ProgramTableKeeps,
     MarkBadKeeps, MarkFailedKeeps DEF Driver
<1>3. CASE Access
  BY <1>3, WriteKeeps, EraseBlockKeeps, BlockBadKeeps DEF Access
<1>4. CASE PowerOff \/ PowerCut
  BY <1>4, PowerKeeps
<1> QED  BY <1>1, <1>2, <1>3, <1>4 DEF Next

LEMMA Invariance == Spec => []IInv
<1>1. Init => IInv
  BY InitHolds
<1>2. IInv /\ [Next]_vars => IInv'
  BY NextKeeps
<1> QED  BY <1>1, <1>2, PTL DEF Spec

-----------------------------------------------------------------------------
(* Only a block that is redirected, or that failed, is marked.             *)

\* What MarkedAfterRedirected asks of a step.
Spared == \A b \in System : mark'[b] /\ ~mark[b] => pc = "mark_failed" \/ Redirected(b)

LEMMA OneMark ==
  ASSUME IInv, NEW b \in Block, mark' = [mark EXCEPT ![b] = TRUE],
         b \in Pool \/ pc = "mark_failed" \/ Redirected(b)
  PROVE  Spared
<1>1. \A c \in System : mark'[c] /\ ~mark[c] => c = b /\ b \notin Pool
  BY Blocks DEF IInv, Medium
<1> QED  BY <1>1 DEF Spared

LEMMA NoMark == mark' = mark => Spared
BY DEF Spared

LEMMA RetrySpares ==
  ASSUME IInv, MARKS_TARGET, NEW b \in Pool, NEW p \in Page, Retry(b, p)
  PROVE  Spared
BY OneMark, Blocks DEF Retry

LEMMA AnotherSpares ==
  ASSUME IInv, AnotherBlock, bmt_block_index \in Pool
  PROVE  Spared
BY OneMark, Blocks DEF AnotherBlock, mark_block_bad

LEMMA DriverSpares == ASSUME IInv, MARKS_TARGET, Driver PROVE Spared
<1>1. CASE init_bmt \/ reconstruct_bmt \/ NothingFound \/ FindBlock \/ UpdateTable \/ FindTableBlock
  BY <1>1, NoMark DEF init_bmt, reconstruct_bmt, NothingFound, FindBlock, UpdateTable,
                      FindTableBlock
<1>2. CASE MarkLoaded
  <2> DEFINE left == {bmt[k].bad_index : k \in {k \in DOMAIN bmt : ~mark[bmt[k].bad_index]}}
  <2>1. CASE left = {}
    BY <1>2, <2>1, NoMark DEF MarkLoaded
  <2>2. CASE left # {}
    <3>1. left \subseteq System /\ \A b \in left : Redirected(b)
      <4>1. \A k \in DOMAIN bmt : bmt[k] \in Entry
        BY DEF IInv, Steps, Memory
      <4> QED  BY <4>1 DEF Entry, Redirected
    <3>2. mark' = [mark EXCEPT ![Lowest(left)] = TRUE]
      BY <1>2, <2>2 DEF MarkLoaded, mark_block_bad
    <3> HIDE DEF left
    <3>3. Lowest(left) \in left
      BY <2>2, <3>1, LowestIs, Blocks
    <3> QED  BY <3>1, <3>2, <3>3, OneMark, Blocks
  <2> QED  BY <2>1, <2>2
<1>3. CASE ErasePool
  <2> DEFINE left == {b \in Erasable : b >= i}
             b == Lowest(left)
             next == /\ i' = b + 1
                     /\ UNCHANGED <<bmt, bmt_block_index, pool_erased, pc, op, to_index>>
  <2>1. CASE left = {}
    BY <1>3, <2>1, NoMark DEF ErasePool
  <2>2. CASE left # {}
    <3>1. nand_erase(b, next, mark_block_bad(b) /\ next)
      BY <1>3, <2>2 DEF ErasePool
    <3>2. left \subseteq Pool
      BY DEF Erasable
    <3> HIDE DEF left
    <3>3. Lowest(left) \in left
      BY <2>2, <3>2, LowestIs, Blocks
    <3>4. b \in Pool
      BY <3>2, <3>3
    <3> HIDE DEF b, next
    <3>5. mark_block_bad(b) => Spared
      BY <3>4, OneMark, Blocks DEF mark_block_bad
    <3> QED  BY <3>1, <3>5, NoMark DEF nand_erase
  <2> QED  BY <2>1, <2>2
<1>4. CASE MigrateErrorPage
  <2>1. to_index \in Pool /\ op.error_page \in Page
    BY <1>4 DEF MigrateErrorPage, IInv, Steps, Memory, Target, Accesses
  <2>2. Retry(to_index, op.error_page) \/ mark' = mark
    BY <1>4 DEF MigrateErrorPage, nand_write_page
  <2> QED  BY <2>1, <2>2, RetrySpares, NoMark
<1>5. CASE MigrateNextPage
  <2> DEFINE left == {p \in Page : p >= i /\ p # op.error_page
                                   /\ flash[op.error_block][p].index # NO_INDEX}
             p == Lowest(left)
  <2>1. to_index \in Pool
    BY <1>5 DEF MigrateNextPage, IInv, Steps, Target
  <2>2. CASE left = {}
    BY <1>5, <2>2, NoMark DEF MigrateNextPage
  <2>3. CASE left # {}
    <3>1. Retry(to_index, p) \/ mark' = mark
      BY <1>5, <2>3 DEF MigrateNextPage, nand_write_page
    <3>2. left \subseteq Nat /\ left \subseteq Page
      BY DEF Page
    <3> HIDE DEF left
    <3>3. Lowest(left) \in left
      BY <2>3, <3>2, LowestIs
    <3>4. p \in Page
      BY <3>2, <3>3
    <3> HIDE DEF p
    <3> QED  BY <2>1, <3>1, <3>4, RetrySpares, NoMark
  <2> QED  BY <2>2, <2>3
<1>6. CASE EraseTable
  <2>1. bmt_block_index \in Pool
    BY <1>6 DEF EraseTable, IInv, Steps, Memory
  <2>2. AnotherBlock \/ mark' = mark
    BY <1>6 DEF EraseTable, nand_erase
  <2> QED  BY <2>1, <2>2, AnotherSpares, NoMark
<1>7. CASE ProgramTable
  <2>1. bmt_block_index \in Pool
    BY <1>7 DEF ProgramTable, IInv, Steps, Tabled
  <2>2. AnotherBlock \/ mark' = mark
    BY <1>7 DEF ProgramTable, nand_write_page
  <2> QED  BY <2>1, <2>2, AnotherSpares, NoMark
<1>8. CASE MarkBad
  <2>1. op.error_block \in Block
    BY DEF IInv, Steps, Memory, Accesses
  <2>2. op.error_block \in Pool \/ Redirected(op.error_block)
    BY <1>8 DEF MarkBad, IInv, Steps, Tabled
  <2>3. mark' = [mark EXCEPT ![op.error_block] = TRUE]
    BY <1>8 DEF MarkBad, mark_block_bad
  <2> QED  BY <2>1, <2>2, <2>3, OneMark
<1>9. CASE MarkFailed
  BY <1>9 DEF MarkFailed, Spared
<1> QED  BY <1>1, <1>2, <1>3, <1>4, <1>5, <1>6, <1>7, <1>8, <1>9 DEF Driver

LEMMA StepSpares == ASSUME IInv, MARKS_TARGET, [Next]_vars PROVE Spared
<1>1. CASE UNCHANGED vars
  BY <1>1, NoMark DEF vars
<1>2. CASE Access
  <2>1. mark' = mark
    BY <1>2 DEF Access, mtk_nand_write_page, mtk_nand_erase, nand_block_bad, nand_write_page,
                nand_erase
  <2> QED  BY <2>1, NoMark
<1>3. CASE PowerOff \/ PowerCut
  BY <1>3, NoMark DEF PowerOff, PowerCut
<1> QED  BY <1>1, <1>2, <1>3, DriverSpares DEF Next

THEOREM TypeCorrect == Spec => []TypeOK
<1>1. IInv => TypeOK
  BY DEF IInv, Medium, FlashIs, Steps, Memory, TypeOK
<1> QED  BY Invariance, <1>1, PTL

THEOREM NoSharedReplacement == Spec => []Disjoint
<1>1. IInv => Disjoint
  BY DEF IInv, Steps
<1> QED  BY Invariance, <1>1, PTL

THEOREM MarkedLate == ASSUME MARKS_TARGET PROVE Spec => MarkedAfterRedirected
<1>1. IInv /\ [Next]_vars =>
        [\A b \in System : mark'[b] /\ ~mark[b] =>
           pc = "mark_failed" \/ \E k \in DOMAIN bmt : bmt[k].bad_index = b]_vars
  BY StepSpares DEF Spared, Redirected
<1> QED  BY Invariance, <1>1, PTL DEF Spec, MarkedAfterRedirected

-----------------------------------------------------------------------------
(* What RedirectedIsMarked rests on, up to one failure.                    *)

\* An access that update_bmt works for, and whether its block is still unmarked.
Mending == pc \in {"find", "migrate", "copy", "update", "write_bmt", "program_bmt", "mark_bad"}
           /\ op.name # "init"
Pending == Mending /\ ~mark[op.error_block]

\* Every entry is of a marked block, save the one that update_bmt has just made.
Registered ==
  pc # "load" => \A k \in DOMAIN bmt :
    \/ mark[bmt[k].bad_index]
    \/ pc \in {"write_bmt", "program_bmt", "mark_bad"} /\ op.name # "init"
       /\ bmt[k].bad_index = op.error_block
\* What only a failure can have brought about.
Costly ==
  /\ Pending => fails # 0
  /\ pc \in {"find", "migrate", "copy"} /\ op.name = "write" => fails # 0
  /\ pc \in {"migrate", "copy"} => op.name = "write"
  /\ pc \in {"find", "update"} => op.name # "init"
  /\ bmt_block_index # 0 /\ mark[bmt_block_index] => fails # 0
\* The table has a block, unless none is left.
Seated ==
  /\ Pending /\ bmt_block_index # 0 => ~mark[bmt_block_index]
  /\ bmt_block_index = 0 /\ pc \in {"idle", "find", "mark_failed"} => Available = {}
  /\ pc \in {"load", "migrate", "copy", "update", "mark_bad"} => bmt_block_index # 0
  /\ Pending /\ pc = "write_bmt" => bmt_block_index # 0
Known == fails \in Nat /\ (fails <= MaxFails => Registered /\ Costly /\ Seated)

LEMMA FailCounts ==
  ASSUME MaxFails <= 1, fails \in Nat, Fail
  PROVE  fails' \in Nat /\ fails' # 0 /\ (fails' <= MaxFails => fails = 0)
<1>1. MaxFails \in Nat
  BY ConstantsAssumption DEF ConstantsAssumption
<1> QED  BY <1>1 DEF Fail

LEMMA Marks ==
  ASSUME Medium, NEW b \in Block, mark_block_bad(b)
  PROVE  \A c \in Block : mark'[c] <=> mark[c] \/ c = b
BY DEF Medium, mark_block_bad

\* No block becomes available by being marked.
LEMMA StillNone ==
  ASSUME Medium, UNCHANGED <<bmt, bmt_block_index>>, \A c \in Block : mark[c] => mark'[c],
         Available = {}
  PROVE  Available' = {}
<1>1. Pool \subseteq Block
  BY Blocks
<1> QED  BY <1>1 DEF Available, IsMapped

LEMMA Entries ==
  ASSUME IInv
  PROVE  /\ \A k \in DOMAIN bmt : bmt[k].bad_index \in System /\ bmt[k].bad_index \in Block
                                  /\ bmt[k].mapped_index \in Pool
         /\ op.error_block \in Block /\ op.block \in System
         /\ bmt_block_index # 0 => bmt_block_index \in Pool /\ bmt_block_index \in Block
<1>1. \A k \in DOMAIN bmt : bmt[k] \in Entry
  BY DEF IInv, Steps, Memory
<1>2. \A k \in DOMAIN bmt : bmt[k].bad_index \in System /\ bmt[k].mapped_index \in Pool
  BY <1>1 DEF Entry
<1> QED  BY <1>2, Blocks DEF IInv, Steps, Memory, Accesses

\* Nothing is left in memory after a loss of power.
LEMMA OffKnown == ASSUME Known, Off, fails' = fails PROVE Known'
<1>1. DOMAIN bmt' = {} /\ pc' = "off" /\ bmt_block_index' = 0
  BY DEF Off
<1> QED  BY <1>1 DEF Known, Registered, Costly, Seated, Pending, Mending

LEMMA InitKnown == ASSUME IInv, Known, init_bmt PROVE Known'
<1>1. /\ UNCHANGED <<mark, fails>> /\ op'.name = "init"
  BY DEF init_bmt, faults, NoOp
<1>2. CASE Tables # {}
  <2> DEFINE h == Highest(Tables)
  <2>1. h \in Tables
    BY <1>2, HighestIs, Blocks DEF Tables
  <2>2. bmt_block_index' = h /\ pc' = "load"
    BY <1>2 DEF init_bmt
  <2> HIDE DEF h
  <2>3. bmt_block_index' # 0 /\ ~mark'[bmt_block_index']
    BY <1>1, <2>1, <2>2, Blocks DEF Tables
  <2> QED  BY <1>1, <2>2, <2>3 DEF Known, Registered, Costly, Seated, Pending, Mending
<1>3. CASE Tables = {}
  <2>1. bmt' = <<>> /\ bmt_block_index' = 0 /\ pc' = "reconstruct"
    BY <1>3 DEF init_bmt
  <2>2. DOMAIN bmt' = {}
    BY <2>1
  <2> QED  BY <1>1, <2>1, <2>2 DEF Known, Registered, Costly, Seated, Pending, Mending
<1> QED  BY <1>2, <1>3

\* An entry that rebuilding adds is of a marked block.
LEMMA RecoveredMarked ==
  ASSUME Medium, NEW t \in Seq(Entry), NEW b \in Pool, \A k \in DOMAIN t : mark[t[k].bad_index]
  PROVE  \A k \in DOMAIN Recovered(t, b) : mark[Recovered(t, b)[k].bad_index]
<1> DEFINE bad == flash[b][0].index
           at == FirstEntry(t, "mapped_index", bad)
           e == [bad_index |-> bad, mapped_index |-> b]
           r == Recovered(t, b)
<1>1. r = t \/ r = Moved(t, at, b) \/ (Candidate(b) /\ r = Append(t, e))
  BY DEF Recovered, Moved
<1> HIDE DEF r, at
<1>2. CASE r = Moved(t, at, b)
  <2>1. DOMAIN r = DOMAIN t /\ \A j \in DOMAIN t : r[j].bad_index = t[j].bad_index
    BY <1>2, Replaced
  <2> QED  BY <2>1 DEF r
<1>3. CASE Candidate(b) /\ r = Append(t, e)
  <2>1. mark[bad]
    BY <1>3 DEF Candidate
  <2>2. bad \in System
    <3>1. bad \in Nat
      BY Blocks DEF Medium, FlashIs, Content
    <3> QED  BY <1>3, <3>1, Blocks DEF Candidate
  <2>3. e \in Entry /\ e.bad_index = bad
    BY <2>2 DEF Entry
  <2> HIDE DEF e
  <2>4. \A j \in DOMAIN r : (j \in DOMAIN t /\ r[j] = t[j]) \/ r[j] = e
    BY <1>3, <2>3, Appended
  <2> QED  BY <2>1, <2>3, <2>4 DEF r
<1> QED  BY <1>1, <1>2, <1>3 DEF r

LEMMA ReconstructKnown == ASSUME IInv, Known, reconstruct_bmt PROVE Known'
<1>1. /\ UNCHANGED <<mark, fails, op, bmt_block_index>> /\ pc = "reconstruct"
      /\ op.name = "init" /\ bmt_block_index = 0 /\ pc' \in {"reconstruct", "write_bmt"}
  BY DEF reconstruct_bmt, faults, IInv, Steps, Rebuilt
<1>2. ASSUME fails <= MaxFails PROVE \A k \in DOMAIN bmt' : mark[bmt'[k].bad_index]
  <2>1. \A k \in DOMAIN bmt : mark[bmt[k].bad_index]
    BY <1>1, <1>2 DEF Known, Registered
  <2>2. CASE i < bmt_block_count
    <3>1. system_block_count + i \in Pool
      BY <2>2, Counts DEF Pool, IInv, Steps, Memory
    <3>2. bmt' = Recovered(bmt, system_block_count + i)
      BY <2>2 DEF reconstruct_bmt
    <3> QED  BY <2>1, <3>1, <3>2, RecoveredMarked DEF IInv, Steps, Memory
  <2>3. CASE ~(i < bmt_block_count)
    BY <2>1, <2>3 DEF reconstruct_bmt
  <2> QED  BY <2>2, <2>3
<1> QED  BY <1>1, <1>2 DEF Known, Registered, Costly, Seated, Pending, Mending

LEMMA LoadKnown == ASSUME IInv, Known, MarkLoaded PROVE Known'
<1> DEFINE left == {bmt[k].bad_index : k \in {k \in DOMAIN bmt : ~mark[bmt[k].bad_index]}}
<1>1. pc = "load" /\ UNCHANGED <<bmt, bmt_block_index, op, fails>>
  BY DEF MarkLoaded, ram, faults
<1>2. CASE left = {}
  <2>1. \A k \in DOMAIN bmt : mark[bmt[k].bad_index]
    BY <1>2
  <2>2. mark' = mark /\ pc' = "idle"
    BY <1>2 DEF MarkLoaded
  <2> QED  BY <1>1, <2>1, <2>2 DEF Known, Registered, Costly, Seated, Pending, Mending
<1>3. CASE left # {}
  <2>1. left \subseteq System
    BY Entries
  <2>2. mark_block_bad(Lowest(left)) /\ pc' = "load"
    BY <1>1, <1>3 DEF MarkLoaded
  <2> HIDE DEF left
  <2>3. Lowest(left) \in System
    BY <1>3, <2>1, LowestIs, Blocks
  <2>4. bmt_block_index # 0 /\ mark'[bmt_block_index] => mark[bmt_block_index]
    <3>1. \A c \in Block : mark'[c] <=> mark[c] \/ c = Lowest(left)
      BY <2>2, <2>3, Marks, Blocks DEF IInv
    <3>2. bmt_block_index # 0 => bmt_block_index \in Block /\ bmt_block_index # Lowest(left)
      BY <2>3, Entries, Blocks
    <3> QED  BY <3>1, <3>2
  <2> QED  BY <1>1, <2>2, <2>4 DEF Known, Registered, Costly, Seated, Pending, Mending
<1> QED  BY <1>2, <1>3

LEMMA ErasePoolKnown == ASSUME IInv, Known, MaxFails <= 1, ErasePool PROVE Known'
<1> DEFINE left == {b \in Erasable : b >= i}
           b == Lowest(left)
           next == /\ i' = b + 1
                   /\ UNCHANGED <<bmt, bmt_block_index, pool_erased, pc, op, to_index>>
<1>1. /\ pc = "find" \/ (pc = "write_bmt" /\ bmt_block_index = 0)
  BY DEF ErasePool, Finding
<1>2. CASE left = {}
  <2>1. UNCHANGED <<mark, bmt, bmt_block_index, pc, op, fails>>
    BY <1>2 DEF ErasePool, faults
  <2> QED  BY <2>1 DEF Known, Registered, Costly, Seated, Pending, Mending, Available, IsMapped
<1>3. CASE left # {}
  <2>1. left \subseteq Pool
    BY DEF Erasable
  <2>2. nand_erase(b, next, mark_block_bad(b) /\ next)
    BY <1>3 DEF ErasePool
  <2>a. b \in left
    <3> HIDE DEF left
    <3> QED  BY <1>3, <2>1, LowestIs, Blocks
  <2>3. b \in Block /\ ~mark[b]
    <3> HIDE DEF b
    <3> QED  BY <2>1, <2>a, Blocks DEF Erasable
  <2> HIDE DEF left, b
  <2>4. ASSUME UNCHANGED <<mark, faults>>, next PROVE Known'
    BY <2>4 DEF faults, Known, Registered, Costly, Seated, Pending, Mending, Available, IsMapped
  <2>5. ASSUME mark_block_bad(b), Fail, next PROVE Known'
    <3>1. /\ fails' \in Nat /\ fails' # 0 /\ (fails' <= MaxFails => fails = 0)
      BY <2>5, FailCounts DEF Known
    <3>2. MaxFails \in Nat
      BY ConstantsAssumption DEF ConstantsAssumption
    <3> SUFFICES ASSUME fails' <= MaxFails PROVE Registered' /\ Costly' /\ Seated'
      BY <3>1 DEF Known
    <3>3. Registered /\ Costly /\ Seated /\ fails = 0
      BY <3>1, <3>2 DEF Known
    <3>4. /\ UNCHANGED <<bmt, bmt_block_index, pc, op>>
          /\ \A c \in Block : mark'[c] <=> mark[c] \/ c = b
      BY <2>3, <2>5, Marks DEF IInv
    <3>5. Available = {} => Available' = {}
      BY <3>4, StillNone DEF IInv
    <3>6. ~Pending /\ ~Pending'
      BY <3>3, <3>4, Entries DEF Costly, Pending, Mending
    <3>7. Registered'
      BY <3>3, <3>4, Entries DEF Registered
    <3>8. Costly'
      BY <3>1, <3>3, <3>4, <3>6 DEF Costly
    <3>9. Seated'
      BY <3>3, <3>4, <3>5, <3>6 DEF Seated
    <3> QED  BY <3>7, <3>8, <3>9
  <2>6. ASSUME Off, fails' = fails PROVE Known'
    BY <2>6, OffKnown
  <2> HIDE DEF next
  <2> QED  BY <2>2, <2>3, <2>4, <2>5, <2>6 DEF nand_erase, Cut
<1> QED  BY <1>2, <1>3

LEMMA NothingKnown == ASSUME IInv, Known, NothingFound PROVE Known'
<1>1. /\ UNCHANGED <<mark, fails>> /\ Gives_up /\ Available = {}
      /\ pc = "find" \/ (pc = "write_bmt" /\ bmt_block_index = 0)
  BY DEF NothingFound, Finding, faults
<1>2. Off \/ (pc' \in {"idle", "mark_failed"} /\ UNCHANGED ram)
  BY <1>1 DEF Gives_up
<1>3. CASE Off
  BY <1>1, <1>3, OffKnown
<1>4. CASE pc' \in {"idle", "mark_failed"} /\ UNCHANGED ram
  <2>1. UNCHANGED <<bmt, bmt_block_index, op>> /\ Available' = {}
    BY <1>1, <1>4 DEF ram, Available, IsMapped
  <2> SUFFICES ASSUME fails <= MaxFails PROVE Registered' /\ Costly' /\ Seated'
    BY <1>1 DEF Known
  <2>2. Registered /\ Costly /\ Seated
    BY DEF Known
  <2>3. \A k \in DOMAIN bmt : mark[bmt[k].bad_index]
    BY <1>1, <2>2 DEF Registered, Seated, Pending, Mending
  <2>4. ~Mending'
    BY <1>4 DEF Mending
  <2> QED  BY <1>1, <1>4, <2>1, <2>2, <2>3, <2>4 DEF Registered, Costly, Seated, Pending
<1> QED  BY <1>2, <1>3, <1>4

LEMMA FindKnown == ASSUME IInv, Known, FindBlock PROVE Known'
<1>1. /\ UNCHANGED <<mark, bmt, bmt_block_index, op, fails>> /\ Available # {} /\ pc = "find"
      /\ pc' = IF op.name = "write" THEN "migrate" ELSE "update"
  BY DEF FindBlock, faults
<1> SUFFICES ASSUME fails <= MaxFails PROVE Registered' /\ Costly' /\ Seated'
  BY <1>1 DEF Known
<1>2. Registered /\ Costly /\ Seated
  BY DEF Known
<1>3. Registered' /\ Costly'
  BY <1>1, <1>2 DEF Registered, Costly, Pending, Mending
<1>4. Seated'
  BY <1>1, <1>2 DEF Seated, Pending, Mending
<1> QED  BY <1>3, <1>4

\* A write comes to a replacement only after its failure: no other is forgiven.
LEMMA RetryKnown ==
  ASSUME Known, MaxFails <= 1, Fail, pc \in {"migrate", "copy"}
  PROVE  Known'
<1>1. fails' \in Nat /\ (fails' <= MaxFails => fails = 0)
  BY FailCounts DEF Known
<1>2. fails' <= MaxFails => FALSE
  <2>1. MaxFails \in Nat
    BY ConstantsAssumption DEF ConstantsAssumption
  <2> QED  BY <1>1, <2>1 DEF Known, Costly
<1> QED  BY <1>1, <1>2 DEF Known

LEMMA ErrorPageKnown == ASSUME IInv, Known, MaxFails <= 1, MigrateErrorPage PROVE Known'
<1> DEFINE ok == /\ pc' = "copy"
                 /\ UNCHANGED <<mark, bmt, bmt_block_index, op, fails>>
<1>1. pc = "migrate"
  BY DEF MigrateErrorPage
<1>2. ok \/ Fail \/ (Off /\ fails' = fails)
  BY DEF MigrateErrorPage, nand_write_page, faults, Cut
<1>3. CASE ok
  BY <1>1, <1>3 DEF Known, Registered, Costly, Seated, Pending, Mending
<1> QED  BY <1>1, <1>2, <1>3, RetryKnown, OffKnown

LEMMA NextPageKnown == ASSUME IInv, Known, MaxFails <= 1, MigrateNextPage PROVE Known'
<1> DEFINE ok == /\ pc' \in {"copy", "update"}
                 /\ UNCHANGED <<mark, bmt, bmt_block_index, op, fails>>
<1>1. pc = "copy"
  BY DEF MigrateNextPage
<1>2. ok \/ Fail \/ (Off /\ fails' = fails)
  BY DEF MigrateNextPage, nand_write_page, faults, ram, Cut
<1>3. CASE ok
  BY <1>1, <1>3 DEF Known, Registered, Costly, Seated, Pending, Mending
<1> QED  BY <1>1, <1>2, <1>3, RetryKnown, OffKnown

LEMMA UpdateKnown == ASSUME IInv, Known, UpdateTable PROVE Known'
<1> DEFINE e == [bad_index |-> op.error_block, mapped_index |-> to_index]
           at == FirstEntry(bmt, "mapped_index", op.error_block)
<1>1. /\ UNCHANGED <<mark, bmt_block_index, op, fails>> /\ pc = "update" /\ pc' = "write_bmt"
      /\ to_index \in Pool /\ op.error_block \in Block /\ bmt \in Seq(Entry)
  BY DEF UpdateTable, faults, IInv, Steps, Memory, Target, Accesses
<1>2. \A k \in DOMAIN bmt' :
        (k \in DOMAIN bmt /\ bmt'[k].bad_index = bmt[k].bad_index)
        \/ bmt'[k].bad_index = op.error_block
  <2>1. CASE op.error_block < system_block_count
    <3>1. bmt' = Append(bmt, e) /\ e.bad_index = op.error_block
      BY <2>1 DEF UpdateTable
    <3>2. e \in Entry
      BY <1>1, <2>1, Blocks DEF Entry
    <3> HIDE DEF e
    <3> QED  BY <1>1, <3>1, <3>2, Appended
  <2>2. CASE ~(op.error_block < system_block_count)
    <3>1. bmt' = bmt \/ bmt' = Moved(bmt, at, to_index)
      BY <2>2 DEF UpdateTable, Moved
    <3> HIDE DEF at
    <3> QED  BY <1>1, <3>1, Replaced
  <2> QED  BY <2>1, <2>2
<1> SUFFICES ASSUME fails <= MaxFails PROVE Registered' /\ Costly' /\ Seated'
  BY <1>1 DEF Known
<1>3. Registered /\ Costly /\ Seated
  BY DEF Known
<1>4. op.name # "init"
  BY <1>1, <1>3 DEF Costly
<1>5. Registered'
  BY <1>1, <1>2, <1>3, <1>4 DEF Registered
<1>6. Costly' /\ Seated'
  BY <1>1, <1>3 DEF Costly, Seated, Pending, Mending
<1> QED  BY <1>5, <1>6

\* The block of the table is given up, for a failure or because it was marked.
LEMMA AnotherKnown ==
  ASSUME IInv, Known, MaxFails <= 1, AnotherBlock, pc \in {"write_bmt", "program_bmt"},
         bmt_block_index \in Pool, Fail \/ (mark[bmt_block_index] /\ fails' = fails)
  PROVE  Known'
<1>1. /\ UNCHANGED <<bmt, op>> /\ bmt_block_index' = 0 /\ pc' = "write_bmt"
      /\ \A c \in Block : mark[c] => mark'[c]
  BY Marks, Blocks DEF AnotherBlock, IInv
<1>2. /\ fails' \in Nat /\ (fails' <= MaxFails => fails <= MaxFails)
      /\ fails' <= MaxFails /\ Fail => fails = 0
  <2>1. MaxFails \in Nat
    BY ConstantsAssumption DEF ConstantsAssumption
  <2> QED  BY <2>1, FailCounts DEF Known
<1> SUFFICES ASSUME fails' <= MaxFails PROVE Registered' /\ Costly' /\ Seated'
  BY <1>2 DEF Known
<1>3. Registered /\ Costly /\ Seated
  BY <1>2 DEF Known
<1>4. Registered'
  BY <1>1, <1>3, Entries DEF Registered
<1>5. ~Pending
  <2>1. bmt_block_index # 0
    BY Blocks
  <2> QED  BY <1>2, <1>3, <2>1 DEF Costly, Seated
<1>6. ~Pending'
  BY <1>1, <1>5, Entries DEF Pending, Mending
<1> QED  BY <1>1, <1>4, <1>6 DEF Costly, Seated

LEMMA EraseTableKnown == ASSUME IInv, Known, MaxFails <= 1, EraseTable PROVE Known'
<1> DEFINE ok == /\ pc' = "program_bmt"
                 /\ UNCHANGED <<mark, bmt, bmt_block_index, op, fails>>
<1>1. bmt_block_index \in Pool /\ pc = "write_bmt"
  BY DEF EraseTable, IInv, Steps, Memory
<1>2. \/ ok \/ (Off /\ fails' = fails)
      \/ AnotherBlock /\ (Fail \/ (mark[bmt_block_index] /\ fails' = fails))
  BY DEF EraseTable, nand_erase, faults, ram, Cut
<1>3. CASE ok
  BY <1>1, <1>3, Blocks DEF Known, Registered, Costly, Seated, Pending, Mending
<1> HIDE DEF ok
<1> QED  BY <1>1, <1>2, <1>3, AnotherKnown, OffKnown

LEMMA FindTableKnown == ASSUME IInv, Known, FindTableBlock PROVE Known'
<1>1. Available \subseteq Pool /\ Available # {} /\ Pool \subseteq Block
  BY Blocks DEF FindTableBlock, Available
<1>2. bmt_block_index' \in Available
  <2>1. Highest(Available) \in Available
    BY <1>1, HighestIs
  <2> QED  BY <2>1 DEF FindTableBlock
<1>3. ~mark[bmt_block_index'] /\ bmt_block_index' # 0
  BY <1>2, Blocks DEF Available
<1>4. /\ UNCHANGED <<mark, bmt, op, fails>> /\ pc = "write_bmt" /\ pc' = "program_bmt"
  BY DEF FindTableBlock, faults
<1> SUFFICES ASSUME fails <= MaxFails PROVE Registered' /\ Costly' /\ Seated'
  BY <1>4 DEF Known
<1>5. Registered /\ Costly
  BY DEF Known
<1>6. Registered' /\ Costly'
  BY <1>3, <1>4, <1>5 DEF Registered, Costly, Pending, Mending
<1>7. Seated'
  BY <1>3, <1>4 DEF Seated
<1> QED  BY <1>6, <1>7

LEMMA ProgramTableKnown == ASSUME IInv, Known, MaxFails <= 1, ProgramTable PROVE Known'
<1> DEFINE ok == /\ pc' = IF op.name = "init" THEN "idle" ELSE "mark_bad"
                 /\ UNCHANGED <<mark, bmt, bmt_block_index, op, fails>>
<1>1. bmt_block_index \in Pool /\ bmt_block_index # 0 /\ pc = "program_bmt"
  BY Blocks DEF ProgramTable, IInv, Steps, Tabled
<1>2. ok \/ (Off /\ fails' = fails) \/ (AnotherBlock /\ Fail)
  BY DEF ProgramTable, nand_write_page, faults, ram, Cut
<1>3. CASE ok
  <2> SUFFICES ASSUME fails <= MaxFails PROVE Registered' /\ Costly' /\ Seated'
    BY <1>3 DEF Known
  <2>1. Registered /\ Costly /\ Seated
    BY DEF Known
  <2>2. Registered'
    BY <1>1, <1>3, <2>1 DEF Registered
  <2>3. Costly' /\ Seated'
    BY <1>1, <1>3, <2>1 DEF Costly, Seated, Pending, Mending
  <2> QED  BY <2>2, <2>3
<1> HIDE DEF ok
<1> QED  BY <1>1, <1>2, <1>3, AnotherKnown, OffKnown

LEMMA MarkBadKnown == ASSUME IInv, Known, MarkBad PROVE Known'
<1>1. /\ UNCHANGED <<bmt, bmt_block_index, op, fails>> /\ pc = "mark_bad" /\ pc' = "idle"
      /\ \A c \in Block : mark'[c] <=> mark[c] \/ c = op.error_block
  BY Marks, Entries DEF MarkBad, faults, ram, IInv
<1> SUFFICES ASSUME fails <= MaxFails PROVE Registered' /\ Costly' /\ Seated'
  BY <1>1 DEF Known
<1>2. Registered /\ Costly /\ Seated /\ op.name # "init"
  BY <1>1 DEF Known, IInv, Steps, Tabled
<1>3. Registered'
  BY <1>1, <1>2, Entries DEF Registered
<1>4. Costly'
  <2>1. fails = 0 => \A c \in Block : mark'[c] <=> mark[c]
    BY <1>1, <1>2 DEF Costly, Pending, Mending
  <2> QED  BY <1>1, <1>2, <2>1, Entries DEF Costly, Pending, Mending
<1>5. Seated'
  BY <1>1, <1>2 DEF Seated, Pending, Mending
<1> QED  BY <1>3, <1>4, <1>5

\* A block in use is not the table's.
LEMMA MappingApart ==
  ASSUME IInv, NEW b \in System, bmt_block_index # 0
  PROVE  get_mapping_block_index(b) # bmt_block_index
<1> DEFINE at == FirstEntry(bmt, "bad_index", b)
<1>1. CASE \E k \in DOMAIN bmt : bmt[k].bad_index = b
  <2>1. at \in DOMAIN bmt
    BY <1>1, FirstIs DEF IInv, Steps, Memory
  <2>2. get_mapping_block_index(b) = bmt[at].mapped_index
    BY <1>1 DEF get_mapping_block_index
  <2> HIDE DEF at
  <2> QED  BY <2>1, <2>2 DEF IInv, Steps, Disjoint
<1>2. CASE ~\E k \in DOMAIN bmt : bmt[k].bad_index = b
  <2>1. get_mapping_block_index(b) = b
    BY <1>2 DEF get_mapping_block_index
  <2> QED  BY <2>1, Entries, Blocks
<1> QED  BY <1>1, <1>2

LEMMA MarkFailedKnown == ASSUME IInv, Known, MarkFailed PROVE Known'
<1> DEFINE m == get_mapping_block_index(op.block)
<1>1. m \in Block /\ (bmt_block_index # 0 => m # bmt_block_index)
  BY MappingIs, MappingApart, Entries DEF IInv, Steps, Memory
<1>2. /\ UNCHANGED <<bmt, bmt_block_index, op, fails>> /\ pc = "mark_failed" /\ pc' = "idle"
      /\ mark_block_bad(m)
  BY DEF MarkFailed, faults, ram
<1> HIDE DEF m
<1>3. \A c \in Block : mark'[c] <=> mark[c] \/ c = m
  BY <1>1, <1>2, Marks DEF IInv
<1> SUFFICES ASSUME fails <= MaxFails PROVE Registered' /\ Costly' /\ Seated'
  BY <1>2 DEF Known
<1>4. Registered /\ Costly /\ Seated
  BY DEF Known
<1>5. Registered'
  BY <1>2, <1>3, <1>4, Entries DEF Registered
<1>6. Costly'
  BY <1>1, <1>2, <1>3, <1>4, Entries DEF Costly, Pending, Mending
<1>7. Seated'
  <2>1. Available = {} => Available' = {}
    BY <1>2, <1>3, StillNone DEF IInv
  <2> QED  BY <1>2, <1>4, <2>1 DEF Seated, Pending, Mending
<1> QED  BY <1>5, <1>6, <1>7

\* An access has failed on block m, and update_bmt begins.
LEMMA FailedKnown ==
  ASSUME IInv, Known, MaxFails <= 1, NEW name \in {"write", "erase", "check"}, NEW b \in System,
         NEW p, NEW v, NEW spare, pc = "idle", mark' = mark, Failed(name, b, p, v, spare),
         Fail \/ (fails' = fails /\ mark[get_mapping_block_index(b)] /\ name # "write")
  PROVE  Known'
<1>1. /\ UNCHANGED <<bmt, bmt_block_index>> /\ pc' = "find" /\ op'.name = name
      /\ op'.error_block = get_mapping_block_index(b)
  BY DEF Failed
<1>2. /\ fails' \in Nat /\ (fails' <= MaxFails => fails <= MaxFails)
      /\ Fail => fails' # 0
      /\ fails' <= MaxFails /\ Fail => fails = 0
  <2>1. MaxFails \in Nat
    BY ConstantsAssumption DEF ConstantsAssumption
  <2> QED  BY <2>1, FailCounts DEF Known
<1> SUFFICES ASSUME fails' <= MaxFails PROVE Registered' /\ Costly' /\ Seated'
  BY <1>2 DEF Known
<1>3. Registered /\ Costly /\ Seated
  BY <1>2 DEF Known
<1>4. Pending' => Fail
  BY <1>1 DEF Pending, Mending
<1>5. Registered'
  BY <1>1, <1>3 DEF Registered
<1>6. Costly'
  BY <1>1, <1>2, <1>3, <1>4 DEF Costly
<1>7. Available' = Available
  BY <1>1 DEF Available, IsMapped
<1>8. Seated'
  BY <1>1, <1>2, <1>3, <1>4, <1>7 DEF Costly, Seated
<1> QED  BY <1>5, <1>6, <1>8

\* An access has ended, and nothing in memory or no mark has changed.
LEMMA EndedKnown ==
  ASSUME Known, UNCHANGED <<mark, bmt, bmt_block_index, op, fails>>, pc = "idle", pc' = "idle"
  PROVE  Known'
BY DEF Known, Registered, Costly, Seated, Pending, Mending, Available, IsMapped

LEMMA AccessKnown == ASSUME IInv, Known, MaxFails <= 1, Access PROVE Known'
<1> PICK b \in System : (\E p \in Page : mtk_nand_write_page(b, p)) \/ mtk_nand_erase(b)
                        \/ nand_block_bad(b)
  BY DEF Access
<1> DEFINE m == get_mapping_block_index(b)
           ok == pc' = "idle" /\ UNCHANGED <<mark, bmt, bmt_block_index, op, fails>>
<1>1. CASE \E p \in Page : mtk_nand_write_page(b, p)
  <2>1. PICK p \in Page : mtk_nand_write_page(b, p)
    BY <1>1
  <2>2. pc = "idle"
    BY <2>1 DEF mtk_nand_write_page
  <2>3. \/ ok \/ (Off /\ fails' = fails)
        \/ \E v, spare : Fail /\ mark' = mark /\ Failed("write", b, p, v, spare)
    BY <2>1 DEF mtk_nand_write_page, nand_write_page, faults, ram, Cut
  <2> HIDE DEF m
  <2> QED  BY <2>2, <2>3, EndedKnown, OffKnown, FailedKnown
<1>2. CASE mtk_nand_erase(b)
  <2>1. pc = "idle"
    BY <1>2 DEF mtk_nand_erase
  <2>2. \/ ok \/ (Off /\ fails' = fails)
        \/ /\ mark' = mark /\ Failed("erase", b, 0, 0, NO_INDEX)
           /\ Fail \/ (fails' = fails /\ mark[m])
    BY <1>2 DEF mtk_nand_erase, nand_erase, faults, ram, Cut
  <2> QED  BY <2>1, <2>2, EndedKnown, OffKnown, FailedKnown
<1>3. CASE nand_block_bad(b)
  <2>1. /\ pc = "idle" /\ mark' = mark /\ Failed("check", b, 0, 0, NO_INDEX)
        /\ fails' = fails /\ mark[m]
    BY <1>3 DEF nand_block_bad, faults
  <2> QED  BY <2>1, FailedKnown
<1> QED  BY <1>1, <1>2, <1>3

LEMMA KnownKept == ASSUME IInv, Known, MaxFails <= 1, [Next]_vars PROVE Known'
<1>1. CASE UNCHANGED vars
  BY <1>1 DEF vars, ram, faults, Known, Registered, Costly, Seated, Pending, Mending, Available,
              IsMapped
<1>2. CASE Driver
  BY <1>2, InitKnown, ReconstructKnown, LoadKnown, ErasePoolKnown, NothingKnown, ErrorPageKnown,
     NextPageKnown, FindKnown, UpdateKnown, EraseTableKnown, FindTableKnown, ProgramTableKnown,
     MarkBadKnown, MarkFailedKnown DEF Driver
<1>3. CASE PowerOff \/ PowerCut
  BY <1>3, OffKnown DEF PowerOff, PowerCut, Cut, faults
<1> QED  BY <1>1, <1>2, <1>3, AccessKnown DEF Next

LEMMA AlwaysKnown == ASSUME MaxFails <= 1 PROVE Spec => []Known
<1>1. Init => Known
  <2> SUFFICES ASSUME Init PROVE Known
    OBVIOUS
  <2>1. DOMAIN bmt = {} /\ bmt_block_index = 0 /\ pc = "off" /\ fails = 0
    BY DEF Init
  <2> QED  BY <2>1 DEF Known, Registered, Costly, Seated, Pending, Mending
<1>2. IInv /\ Known /\ [Next]_vars => Known'
  BY KnownKept
<1> QED  BY Invariance, <1>1, <1>2, PTL DEF Spec

THEOREM MarkedWhenRedirected ==
  ASSUME MaxFails <= 1
  PROVE  Spec => []RedirectedIsMarked
<1>1. Known => RedirectedIsMarked
  BY DEF Known, Registered, RedirectedIsMarked
<1> QED  BY AlwaysKnown, <1>1, PTL

-----------------------------------------------------------------------------
(* What Durable rests on as long as nothing fails, however often power is  *)
(* cut: the one block that may be bad from the start gets its replacement  *)
(* before anything is stored in it, and the table is not touched again.    *)

\* Block m holds what was stored in b.
Holds(b, m) == \A p \in Page : stored[b][p] # 0 =>
                 flash[m][p].kind = "data" /\ flash[m][p].val = stored[b][p]
\* Table t redirects b to m, and nothing else.
Redirects(t, b, m) == /\ DOMAIN t # {}
                      /\ \A k \in DOMAIN t : t[k].bad_index = b /\ t[k].mapped_index = m
HasTable(b) == ~mark[b] /\ flash[b][0].kind = "bmt"

\* Nothing is redirected on flash.
Blank ==
  /\ \A b \in System : mark[b] => \A p \in Page : stored[b][p] = 0
  /\ \A b \in Pool : /\ flash[b][0].index = NO_INDEX
                     /\ HasTable(b) => DOMAIN flash[b][0].table = {}
  /\ \A b, c \in Pool : HasTable(b) /\ HasTable(c) => b = c
  /\ pc # "off" => \A b \in Pool : HasTable(b) => b = bmt_block_index
\* If anything is in memory, it is the block that is bad from the start.
Replacing ==
  /\ pc \notin {"migrate", "copy", "mark_bad"}
  /\ pc \in {"find", "update", "mark_failed"} =>
       op.name \in {"erase", "check"} /\ op.block = op.error_block /\ mark[op.block]
  /\ pc = "update" => ~mark[to_index]
  /\ IF pc \in {"write_bmt", "program_bmt"} /\ op.name # "init"
     THEN /\ op.error_block \in System /\ mark[op.error_block] /\ op.name # "write"
          /\ Redirects(bmt, op.error_block, to_index) /\ ~mark[to_index]
          /\ bmt_block_index # 0
          /\ pc = "program_bmt" => flash[bmt_block_index][0] = Erased
     ELSE DOMAIN bmt = {}
\* Block b is redirected to m, by the table in block t.
Committed(b, m, t) ==
  /\ mark[b] /\ ~mark[m] /\ m # t /\ Holds(b, m)
  /\ HasTable(t) /\ Redirects(flash[t][0].table, b, m)
  /\ \A c \in Pool : HasTable(c) => c = t
  /\ pc \in {"off", "load", "idle", "mark_bad"}
  /\ pc # "off" => Redirects(bmt, b, m) /\ bmt_block_index = t
  /\ pc = "mark_bad" => op.name # "write" /\ op.error_block = b
FewBad == \A b, c \in Block : mark[b] /\ mark[c] => b = c
Direct == \A b \in System : ~mark[b] => Holds(b, b)
Placed == (Blank /\ Replacing) \/ \E b \in System, m, t \in Pool : Committed(b, m, t)
Calm == fails = 0 => FewBad /\ Direct /\ Placed

LEMMA MapSelf ==
  ASSUME NEW b, \A k \in DOMAIN bmt : bmt[k].bad_index # b
  PROVE  get_mapping_block_index(b) = b
BY DEF get_mapping_block_index

LEMMA MapTo ==
  ASSUME bmt \in Seq(Entry), NEW b, NEW m, Redirects(bmt, b, m)
  PROVE  get_mapping_block_index(b) = m
<1>1. \E k \in DOMAIN bmt : bmt[k].bad_index = b
  BY DEF Redirects
<1>2. FirstEntry(bmt, "bad_index", b) \in DOMAIN bmt
  BY <1>1, FirstIs
<1> QED  BY <1>1, <1>2 DEF get_mapping_block_index, Redirects

\* Steps that leave the stored data and their blocks alone.
LEMMA DirectKept ==
  ASSUME Direct, UNCHANGED stored, \A b \in Block : mark[b] => mark'[b],
         \A b \in System : ~mark[b] => flash'[b] = flash[b]
  PROVE  Direct'
BY Blocks DEF Direct, Holds

\* Pages of the pool that are erased, or lost to a cut.
LEMMA BlankKept ==
  ASSUME Blank, UNCHANGED <<mark, stored>>, pc # "off",
         pc' = "off" \/ bmt_block_index' = bmt_block_index,
         \A b \in Pool : \/ flash'[b][0] = flash[b][0]
                         \/ flash'[b][0].index = NO_INDEX /\ flash'[b][0].kind # "bmt"
  PROVE  Blank'
<1>1. \A b \in Pool : HasTable(b)' => HasTable(b) /\ flash'[b][0] = flash[b][0]
  BY DEF HasTable
<1> QED  BY <1>1 DEF Blank

LEMMA OffReplacing == Off => Replacing'
<1> SUFFICES ASSUME Off PROVE Replacing'
  OBVIOUS
<1>1. DOMAIN bmt' = {} /\ pc' = "off"
  BY DEF Off
<1> QED  BY <1>1 DEF Replacing

LEMMA BlankPages ==
  /\ Erased.index = NO_INDEX /\ Erased.kind = "erased"
  /\ \A x : Garbage(x).index = x /\ Garbage(x).kind = "garbage"
  /\ \A t : Table(t).index = NO_INDEX /\ Table(t).kind = "bmt" /\ Table(t).table = t
  /\ \A v, x : Data(v, x).kind = "data" /\ Data(v, x).val = v
BY DEF Erased, Garbage, Table, Data

LEMMA InitCalm ==
  ASSUME IInv, FewBad, Direct, Placed, init_bmt
  PROVE  FewBad' /\ Direct' /\ Placed'
<1>1. UNCHANGED <<mark, flash, stored>> /\ pc = "off" /\ op'.name = "init"
  BY DEF init_bmt, NoOp
<1>2. FewBad' /\ Direct'
  BY <1>1 DEF FewBad, Direct, Holds
<1>3. Tables = {b \in Pool : HasTable(b)} /\ \A b : HasTable(b)' <=> HasTable(b)
  BY <1>1 DEF Tables, HasTable
<1>4. CASE Tables # {}
  <2> DEFINE h == Highest(Tables)
  <2>1. h \in Tables
    BY <1>4, HighestIs, Blocks DEF Tables
  <2>2. bmt_block_index' = h /\ bmt' = flash[h][0].table /\ pc' = "load"
    BY <1>4 DEF init_bmt
  <2> HIDE DEF h
  <2>3. h \in Pool /\ HasTable(h)
    BY <1>3, <2>1
  <2>4. CASE Blank /\ Replacing
    <3>1. Blank'
      BY <1>1, <1>3, <2>2, <2>3, <2>4 DEF Blank
    <3>2. DOMAIN bmt' = {}
      BY <2>2, <2>3, <2>4 DEF Blank
    <3>3. Replacing'
      BY <1>1, <2>2, <3>2 DEF Replacing
    <3> QED  BY <1>2, <3>1, <3>3 DEF Placed
  <2>5. CASE \E b \in System, m, t \in Pool : Committed(b, m, t)
    <3>1. PICK b \in System, m \in Pool, t \in Pool : Committed(b, m, t)
      BY <2>5
    <3>2. h = t
      BY <2>3, <3>1 DEF Committed
    <3>3. Committed(b, m, t)'
      BY <1>1, <1>3, <2>2, <3>1, <3>2 DEF Committed, Holds
    <3> QED  BY <1>2, <3>3 DEF Placed
  <2> QED  BY <2>4, <2>5 DEF Placed
<1>5. CASE Tables = {}
  <2>1. \A b \in Pool : ~HasTable(b)
    BY <1>3, <1>5
  <2>2. Blank
    BY <2>1 DEF Placed, Committed
  <2>3. bmt' = <<>> /\ bmt_block_index' = 0 /\ pc' = "reconstruct"
    BY <1>5 DEF init_bmt
  <2>4. DOMAIN bmt' = {}
    BY <2>3
  <2>5. Blank' /\ Replacing'
    BY <1>1, <1>3, <2>1, <2>2, <2>3, <2>4 DEF Blank, Replacing
  <2> QED  BY <1>2, <2>5 DEF Placed
<1> QED  BY <1>4, <1>5

LEMMA ReconstructCalm ==
  ASSUME IInv, FewBad, Direct, Placed, reconstruct_bmt
  PROVE  FewBad' /\ Direct' /\ Placed'
<1>1. /\ UNCHANGED <<mark, flash, stored, op, bmt_block_index>> /\ pc = "reconstruct"
      /\ pc' \in {"reconstruct", "write_bmt"} /\ op.name = "init"
  BY DEF reconstruct_bmt, IInv, Steps, Rebuilt
<1>2. FewBad' /\ Direct'
  BY <1>1 DEF FewBad, Direct, Holds
<1>3. Blank /\ Replacing
  BY <1>1 DEF Placed, Committed
<1>4. DOMAIN bmt = {}
  BY <1>1, <1>3 DEF Replacing
<1>5. DOMAIN bmt' = {}
  <2>1. CASE i < bmt_block_count
    <3>1. system_block_count + i \in Pool
      BY <2>1, Counts DEF Pool, IInv, Steps, Memory
    <3>2. flash[system_block_count + i][0].index = NO_INDEX
      BY <1>3, <3>1 DEF Blank
    <3>3. ~(NO_INDEX < system_block_count)
      BY Counts DEF NO_INDEX
    <3>4. ~Candidate(system_block_count + i)
      BY <3>2, <3>3 DEF Candidate
    <3>5. bmt' = bmt
      BY <2>1, <3>4 DEF reconstruct_bmt, Recovered
    <3> QED  BY <1>4, <3>5
  <2>2. CASE ~(i < bmt_block_count)
    BY <1>4, <2>2 DEF reconstruct_bmt
  <2> QED  BY <2>1, <2>2
<1>6. Blank'
  BY <1>1, <1>3 DEF Blank, HasTable
<1>7. Replacing'
  BY <1>1, <1>5 DEF Replacing
<1> QED  BY <1>2, <1>6, <1>7 DEF Placed

LEMMA LoadCalm ==
  ASSUME IInv, FewBad, Direct, Placed, MarkLoaded
  PROVE  FewBad' /\ Direct' /\ Placed'
<1> DEFINE left == {bmt[k].bad_index : k \in {k \in DOMAIN bmt : ~mark[bmt[k].bad_index]}}
<1>1. pc = "load" /\ UNCHANGED <<stored, bmt, bmt_block_index, op>>
  BY DEF MarkLoaded, ram
<1>2. left = {}
  BY <1>1 DEF Placed, Replacing, Committed, Redirects
<1>3. UNCHANGED <<mark, flash>> /\ pc' = "idle"
  BY <1>2 DEF MarkLoaded
<1>4. FewBad' /\ Direct'
  BY <1>1, <1>3 DEF FewBad, Direct, Holds
<1>5. CASE Blank /\ Replacing
  <2>1. Blank' /\ Replacing'
    BY <1>1, <1>3, <1>5 DEF Blank, HasTable, Replacing
  <2> QED  BY <1>4, <2>1 DEF Placed
<1>6. CASE \E b \in System, m, t \in Pool : Committed(b, m, t)
  <2>1. PICK b \in System, m \in Pool, t \in Pool : Committed(b, m, t)
    BY <1>6
  <2>2. Committed(b, m, t)'
    BY <1>1, <1>3, <2>1 DEF Committed, Holds, HasTable
  <2> QED  BY <1>4, <2>2 DEF Placed
<1> QED  BY <1>5, <1>6 DEF Placed

\* The invariant of the steps in which nothing has failed.
CalmOn == IInv /\ FewBad /\ Direct /\ Placed /\ Costly /\ Seated /\ fails = 0
CalmNext == FewBad' /\ Direct' /\ Placed'

\* Without a failure only a marked block is not erased.
LEMMA FailNot == ASSUME fails = 0, MaxFails = 0, fails' = 0 PROVE ~Fail
BY DEF Fail

\* A step of an update that touches one block of the pool at most.
LEMMA PoolStep ==
  ASSUME FewBad, Direct, Blank, pc # "off", UNCHANGED <<mark, stored>>,
         pc' = "off" \/ bmt_block_index' = bmt_block_index, Replacing',
         \A b \in System : flash'[b] = flash[b],
         \A b \in Pool : \/ flash'[b][0] = flash[b][0]
                         \/ flash'[b][0].index = NO_INDEX /\ flash'[b][0].kind # "bmt"
  PROVE  CalmNext
<1>1. FewBad' /\ Direct'
  BY DirectKept DEF FewBad
<1>2. Blank'
  BY BlankKept
<1> QED  BY <1>1, <1>2 DEF CalmNext, Placed

LEMMA ErasedBlock ==
  ASSUME IInv, NEW b \in Pool, NEW c \in {Erased, Garbage(NO_INDEX)},
         flash' = [flash EXCEPT ![b] = [p \in Page |-> c]]
  PROVE  /\ \A d \in System : flash'[d] = flash[d]
         /\ \A d \in Pool : \/ flash'[d][0] = flash[d][0]
                            \/ flash'[d][0].index = NO_INDEX /\ flash'[d][0].kind # "bmt"
         /\ flash'[b][0] = c
<1>1. c.index = NO_INDEX /\ c.kind # "bmt"
  BY BlankPages
<1> QED  BY <1>1, Blocks DEF IInv, Medium, FlashIs

LEMMA ErasePoolCalm == ASSUME CalmOn, MaxFails = 0, fails' = 0, ErasePool PROVE CalmNext
<1> DEFINE left == {b \in Erasable : b >= i}
           b == Lowest(left)
           next == /\ i' = b + 1
                   /\ UNCHANGED <<bmt, bmt_block_index, pool_erased, pc, op, to_index>>
<1>1. /\ pc = "find" \/ (pc = "write_bmt" /\ bmt_block_index = 0)
      /\ pc \notin {"off", "program_bmt"} /\ UNCHANGED stored
  BY DEF ErasePool, Finding
<1>2. Blank /\ Replacing
  BY <1>1 DEF CalmOn, Placed, Committed
<1>3. UNCHANGED <<bmt, bmt_block_index, pc, op, to_index, mark>> => Replacing'
  BY <1>1, <1>2 DEF Replacing
<1>4. CASE left = {}
  <2>1. UNCHANGED <<mark, flash, bmt, bmt_block_index, pc, op, to_index>>
    BY <1>4 DEF ErasePool
  <2> QED  BY <1>1, <1>2, <1>3, <2>1, PoolStep DEF CalmOn
<1>5. CASE left # {}
  <2>1. left \subseteq Pool
    BY DEF Erasable
  <2>2. nand_erase(b, next, mark_block_bad(b) /\ next)
    BY <1>5 DEF ErasePool
  <2>3. b \in left
    <3> HIDE DEF left
    <3> QED  BY <1>5, <2>1, LowestIs, Blocks
  <2>4. b \in Pool /\ ~mark[b]
    <3> HIDE DEF b
    <3> QED  BY <2>1, <2>3 DEF Erasable
  <2> HIDE DEF left, b
  <2>5. ~Fail
    BY FailNot DEF CalmOn
  <2>6. \/ next /\ mark' = mark /\ flash' = [flash EXCEPT ![b] = [p \in Page |-> Erased]]
        \/ Off /\ mark' = mark /\ flash' = [flash EXCEPT ![b] = [p \in Page |-> Garbage(NO_INDEX)]]
    BY <2>2, <2>4, <2>5 DEF nand_erase
  <2>7. CASE next /\ mark' = mark /\ flash' = [flash EXCEPT ![b] = [p \in Page |-> Erased]]
    <3>1. Replacing' /\ bmt_block_index' = bmt_block_index
      BY <1>3, <2>7
    <3> HIDE DEF next
    <3> QED  BY <1>1, <1>2, <2>4, <2>7, <3>1, PoolStep, ErasedBlock DEF CalmOn
  <2>8. CASE Off /\ mark' = mark /\ flash' = [flash EXCEPT ![b] = [p \in Page |-> Garbage(NO_INDEX)]]
    <3>1. Replacing' /\ pc' = "off"
      BY <2>8, OffReplacing DEF Off
    <3> QED  BY <1>1, <1>2, <2>4, <2>8, <3>1, PoolStep, ErasedBlock DEF CalmOn
  <2> HIDE DEF next
  <2> QED  BY <2>6, <2>7, <2>8
<1> QED  BY <1>4, <1>5

LEMMA NothingCalm == ASSUME CalmOn, NothingFound PROVE CalmNext
<1>1. /\ UNCHANGED <<mark, flash, stored>> /\ Gives_up /\ pc # "off"
      /\ pc = "find" \/ (pc = "write_bmt" /\ bmt_block_index = 0)
  BY DEF NothingFound, Finding
<1>2. Blank /\ Replacing
  BY <1>1 DEF CalmOn, Placed, Committed
<1>3. CASE op.name = "write"
  <2>1. Off
    BY <1>1, <1>3 DEF Gives_up
  <2>2. pc' = "off"
    BY <2>1 DEF Off
  <2> QED  BY <1>1, <1>2, <2>1, <2>2, OffReplacing, PoolStep DEF CalmOn
<1>4. CASE op.name # "write"
  <2>1. /\ UNCHANGED <<bmt, bmt_block_index, op, to_index>>
        /\ pc' = IF op.name = "erase" THEN "mark_failed" ELSE "idle"
    BY <1>1, <1>4 DEF Gives_up, ram
  <2>2. DOMAIN bmt = {} /\ (op.name = "erase" => pc = "find")
    BY <1>1, <1>2 DEF Replacing
  <2>3. Replacing'
    BY <1>1, <1>2, <2>1, <2>2 DEF Replacing
  <2> QED  BY <1>1, <1>2, <2>1, <2>3, PoolStep DEF CalmOn
<1> QED  BY <1>3, <1>4

LEMMA FindCalm == ASSUME CalmOn, FindBlock PROVE CalmNext
<1>1. /\ UNCHANGED <<mark, flash, stored, bmt, bmt_block_index, op>> /\ pc = "find"
      /\ pc' = (IF op.name = "write" THEN "migrate" ELSE "update")
  BY DEF FindBlock
<1>2. Blank /\ Replacing
  BY <1>1 DEF CalmOn, Placed, Committed
<1>3. ~mark[to_index']
  <2>1. Available \subseteq Nat /\ Available # {}
    BY Blocks DEF FindBlock, Available
  <2>2. to_index' \in Available
    BY <2>1, LowestIs DEF FindBlock
  <2> QED  BY <2>2 DEF Available
<1>4. Replacing'
  BY <1>1, <1>2, <1>3 DEF Replacing
<1> QED  BY <1>1, <1>2, <1>4, PoolStep DEF CalmOn

LEMMA UpdateCalm == ASSUME CalmOn, UpdateTable PROVE CalmNext
<1> DEFINE e == [bad_index |-> op.error_block, mapped_index |-> to_index]
<1>1. /\ UNCHANGED <<mark, flash, stored, bmt_block_index, op, to_index>>
      /\ pc = "update" /\ pc' = "write_bmt"
  BY DEF UpdateTable
<1>2. Blank /\ Replacing
  BY <1>1 DEF CalmOn, Placed, Committed
<1>3. /\ DOMAIN bmt = {} /\ op.name \in {"erase", "check"} /\ op.block = op.error_block
      /\ mark[op.block] /\ ~mark[to_index]
  BY <1>1, <1>2 DEF Replacing
<1>4. op.error_block \in System /\ to_index \in Pool /\ bmt \in Seq(Entry) /\ bmt_block_index # 0
  BY <1>1, <1>3 DEF CalmOn, IInv, Steps, Memory, Accesses, Target, Seated
<1>5. bmt' = Append(bmt, e) /\ e \in Entry /\ e.bad_index = op.error_block
      /\ e.mapped_index = to_index
  BY <1>4, Blocks DEF UpdateTable, Entry
<1> HIDE DEF e
<1>6. Redirects(bmt', op.error_block, to_index)
  <2>1. /\ \A j \in DOMAIN bmt' : (j \in DOMAIN bmt /\ bmt'[j] = bmt[j]) \/ bmt'[j] = e
        /\ Len(bmt) + 1 \in DOMAIN bmt'
    BY <1>4, <1>5, Appended
  <2> QED  BY <1>3, <1>5, <2>1 DEF Redirects
<1>7. Replacing'
  BY <1>1, <1>3, <1>4, <1>6 DEF Replacing
<1> QED  BY <1>1, <1>2, <1>7, PoolStep DEF CalmOn

LEMMA EraseTableCalm == ASSUME CalmOn, MaxFails = 0, fails' = 0, EraseTable PROVE CalmNext
<1> DEFINE ok == pc' = "program_bmt" /\ UNCHANGED ram
<1>1. pc = "write_bmt" /\ bmt_block_index # 0 /\ UNCHANGED stored /\ bmt_block_index \in Pool
  BY DEF EraseTable, CalmOn, IInv, Steps, Memory
<1>2. Blank /\ Replacing
  BY <1>1 DEF CalmOn, Placed, Committed
<1>3. ~mark[bmt_block_index] /\ ~Fail
  BY <1>1, FailNot DEF CalmOn, Costly
<1>4. \/ /\ ok /\ mark' = mark
         /\ flash' = [flash EXCEPT ![bmt_block_index] = [p \in Page |-> Erased]]
      \/ /\ Off /\ mark' = mark
         /\ flash' = [flash EXCEPT ![bmt_block_index] = [p \in Page |-> Garbage(NO_INDEX)]]
  BY <1>3 DEF EraseTable, nand_erase
<1>5. CASE /\ ok /\ mark' = mark
           /\ flash' = [flash EXCEPT ![bmt_block_index] = [p \in Page |-> Erased]]
  <2>1. flash'[bmt_block_index][0] = Erased
    BY <1>1, <1>5, ErasedBlock DEF CalmOn
  <2>2. Replacing'
    BY <1>1, <1>2, <1>5, <2>1 DEF Replacing, ram
  <2>3. bmt_block_index' = bmt_block_index
    BY <1>5 DEF ram
  <2> QED  BY <1>1, <1>2, <1>5, <2>2, <2>3, PoolStep, ErasedBlock DEF CalmOn
<1>6. CASE /\ Off /\ mark' = mark
           /\ flash' = [flash EXCEPT ![bmt_block_index] = [p \in Page |-> Garbage(NO_INDEX)]]
  <2>1. Replacing' /\ pc' = "off"
    BY <1>6, OffReplacing DEF Off
  <2> QED  BY <1>1, <1>2, <1>6, <2>1, PoolStep, ErasedBlock DEF CalmOn
<1> QED  BY <1>4, <1>5, <1>6

LEMMA FindTableCalm == ASSUME CalmOn, FindTableBlock PROVE CalmNext
<1>1. /\ UNCHANGED <<mark, flash, stored, bmt, op, to_index>> /\ bmt_block_index = 0
      /\ pc = "write_bmt" /\ pc' = "program_bmt"
  BY DEF FindTableBlock
<1>2. Blank /\ Replacing
  BY <1>1 DEF CalmOn, Placed, Committed
<1>3. \A b \in Pool : ~HasTable(b) /\ ~HasTable(b)'
  BY <1>1, <1>2, Blocks DEF Blank, HasTable
<1>4. FewBad' /\ Direct'
  BY <1>1 DEF CalmOn, FewBad, Direct, Holds
<1>5. Blank'
  BY <1>1, <1>2, <1>3 DEF Blank
<1>6. Replacing'
  BY <1>1, <1>2 DEF Replacing
<1> QED  BY <1>4, <1>5, <1>6 DEF CalmNext, Placed

\* What a program leaves in its page, and in all others.
LEMMA Programmed ==
  ASSUME IInv, NEW b \in Block, NEW p \in Page, NEW c, flash' = [flash EXCEPT ![b][p] = c]
  PROVE  /\ flash'[b][p] = c
         /\ \A d \in Block, q \in Page : d # b \/ q # p => flash'[d][q] = flash[d][q]
         /\ \A d \in Block : d # b => flash'[d] = flash[d]
BY DEF IInv, Medium, FlashIs

\* The table is written, or its page lost to a cut.
LEMMA ProgramTableCalm == ASSUME CalmOn, MaxFails = 0, fails' = 0, ProgramTable PROVE CalmNext
<1> DEFINE ok == pc' = (IF op.name = "init" THEN "idle" ELSE "mark_bad") /\ UNCHANGED ram
<1>1. PICK t \in Pool : t = bmt_block_index
  BY DEF ProgramTable, CalmOn, IInv, Steps, Tabled
<1>2. /\ t \in Block /\ t \notin System /\ 0 \in Page /\ pc = "program_bmt"
      /\ UNCHANGED stored /\ bmt_block_index # 0
  BY <1>1, Blocks DEF ProgramTable
<1>3. Blank /\ Replacing
  BY <1>2 DEF CalmOn, Placed, Committed
<1>4. nand_write_page(t, 0, Table(bmt), ok, AnotherBlock)
  BY <1>1 DEF ProgramTable
<1>5. ~Fail
  BY FailNot DEF CalmOn
<1>6. \/ /\ ok /\ mark' = mark
         /\ flash' = [flash EXCEPT ![t][0] = IF @ = Erased THEN Table(bmt) ELSE Garbage(@.index)]
      \/ /\ Off /\ mark' = mark
         /\ \E x \in {NO_INDEX, Table(bmt).index} : flash' = [flash EXCEPT ![t][0] = Garbage(x)]
  <2> HIDE DEF ok
  <2> QED  BY <1>4, <1>5 DEF nand_write_page
<1>7. CASE /\ Off /\ mark' = mark
           /\ \E x \in {NO_INDEX, Table(bmt).index} : flash' = [flash EXCEPT ![t][0] = Garbage(x)]
  <2>1. flash' = [flash EXCEPT ![t][0] = Garbage(NO_INDEX)]
    <3>1. PICK x \in {NO_INDEX, Table(bmt).index} : flash' = [flash EXCEPT ![t][0] = Garbage(x)]
      BY <1>7
    <3>2. Table(bmt).index = NO_INDEX
      BY BlankPages
    <3>3. x = NO_INDEX
      BY <3>2
    <3> QED  BY <3>1, <3>3
  <2>2. /\ \A d \in System : flash'[d] = flash[d]
        /\ \A d \in Pool : \/ flash'[d][0] = flash[d][0]
                           \/ flash'[d][0].index = NO_INDEX /\ flash'[d][0].kind # "bmt"
    <3>1. /\ flash'[t][0] = Garbage(NO_INDEX)
          /\ \A d \in Block : d # t => flash'[d] = flash[d]
      BY <1>2, <2>1 DEF CalmOn, IInv, Medium, FlashIs
    <3> QED  BY <1>2, <3>1, BlankPages, Blocks
  <2>3. Replacing' /\ pc' = "off"
    BY <1>7, OffReplacing DEF Off
  <2> QED  BY <1>2, <1>3, <1>7, <2>2, <2>3, PoolStep DEF CalmOn
<1>8. CASE /\ ok /\ mark' = mark
           /\ flash' = [flash EXCEPT ![t][0] = IF @ = Erased THEN Table(bmt) ELSE Garbage(@.index)]
  <2> DEFINE c == IF flash[t][0] = Erased THEN Table(bmt) ELSE Garbage(flash[t][0].index)
  <2>1. flash' = [flash EXCEPT ![t][0] = c]
    BY <1>2, <1>8 DEF CalmOn, IInv, Medium, FlashIs
  <2>2. c.index = NO_INDEX /\ (c.kind = "bmt" => flash[t][0] = Erased /\ c.table = bmt)
    <3>1. (c = Table(bmt) /\ flash[t][0] = Erased) \/ c = Garbage(flash[t][0].index)
      OBVIOUS
    <3>2. flash[t][0].index = NO_INDEX
      BY <1>1, <1>3 DEF Blank
    <3> HIDE DEF c
    <3> QED  BY <3>1, <3>2, BlankPages
  <2>3. UNCHANGED <<bmt, bmt_block_index, op, to_index>>
    BY <1>8 DEF ram
  <2>4. flash[t][0] = Erased => c.kind = "bmt" /\ c.table = bmt
    BY BlankPages
  <2> HIDE DEF c
  <2>5. /\ flash'[t][0] = c /\ \A d \in Block : d # t => flash'[d] = flash[d]
    BY <1>2, <2>1 DEF CalmOn, IInv, Medium, FlashIs
  <2>6. \A d \in System : flash'[d] = flash[d]
    BY <1>2, <2>5, Blocks
  <2>7. FewBad' /\ Direct'
    BY <1>2, <1>8, <2>6, DirectKept DEF CalmOn, FewBad
  <2>8. \A d \in Pool : HasTable(d)' => d = t
    <3> SUFFICES ASSUME NEW d \in Pool, HasTable(d)', d # t PROVE FALSE
      OBVIOUS
    <3>1. HasTable(d)
      BY <1>2, <1>8, <2>5, Blocks DEF HasTable
    <3> QED  BY <1>1, <1>2, <1>3, <3>1 DEF Blank
  <2>9. CASE op.name = "init"
    <3>1. DOMAIN bmt' = {} /\ pc' = "idle"
      BY <1>2, <1>3, <1>8, <2>3, <2>9 DEF Replacing
    <3>2. Replacing'
      BY <3>1 DEF Replacing
    <3>3. \A d \in Pool : flash'[d][0].index = NO_INDEX
      BY <1>3, <2>2, <2>5, Blocks DEF Blank
    <3>4. \A d \in Pool : HasTable(d)' => DOMAIN flash'[d][0].table = {}
      BY <2>2, <2>3, <2>5, <2>8, <3>1 DEF HasTable
    <3>5. \A d \in System : mark'[d] => \A p \in Page : stored'[d][p] = 0
      BY <1>2, <1>3, <1>8 DEF Blank
    <3>6. Blank'
      BY <1>1, <2>3, <2>8, <3>3, <3>4, <3>5 DEF Blank
    <3> QED  BY <2>7, <3>2, <3>6 DEF CalmNext, Placed
  <2>10. CASE op.name # "init"
    <3>1. /\ op.error_block \in System /\ mark[op.error_block] /\ ~mark[to_index]
          /\ op.name # "write" /\ Redirects(bmt, op.error_block, to_index)
          /\ flash[t][0] = Erased
      BY <1>1, <1>2, <1>3, <2>10 DEF Replacing
    <3>2. PICK b, m : b = op.error_block /\ m = to_index
      OBVIOUS
    <3>3. b \in System /\ m \in Pool /\ m # t
      <4>1. PICK k \in DOMAIN bmt : bmt[k].mapped_index = m
        BY <3>1, <3>2 DEF Redirects
      <4>2. bmt[k] \in Entry
        BY <4>1, Entries DEF CalmOn, IInv, Steps, Memory
      <4>3. bmt[k].mapped_index \in Pool
        BY <4>2 DEF Entry
      <4>4. bmt[k].mapped_index # bmt_block_index
        BY <4>1 DEF CalmOn, IInv, Steps, Disjoint
      <4> QED  BY <1>1, <3>1, <3>2, <4>1, <4>3, <4>4
    <3>4. ~mark'[t] /\ mark'[b] /\ ~mark'[m]
      BY <1>1, <1>2, <1>8, <3>1, <3>2 DEF CalmOn, Costly
    <3>5. HasTable(t)' /\ flash'[t][0].table = bmt
      BY <2>4, <2>5, <3>1, <3>4 DEF HasTable
    <3>6. Holds(b, m)'
      BY <1>2, <1>3, <3>1, <3>2 DEF Blank, Holds
    <3>7. Redirects(bmt, b, m)
      BY <3>1, <3>2
    <3>8. Redirects(bmt', b, m) /\ Redirects(flash'[t][0].table, b, m)
      BY <2>3, <3>5, <3>7
    <3>9. bmt_block_index' = t /\ pc' = "mark_bad" /\ op'.name # "write" /\ op'.error_block = b
      BY <1>1, <1>8, <2>3, <2>10, <3>1, <3>2
    <3>10. Committed(b, m, t)'
      BY <2>8, <3>3, <3>4, <3>5, <3>6, <3>8, <3>9 DEF Committed
    <3> QED  BY <2>7, <3>3, <3>10 DEF CalmNext, Placed
  <2> QED  BY <2>9, <2>10
<1> QED  BY <1>6, <1>7, <1>8

LEMMA MarkBadCalm == ASSUME CalmOn, MarkBad PROVE CalmNext
<1>1. pc = "mark_bad"
  BY DEF MarkBad
<1>2. PICK b \in System, m \in Pool, t \in Pool : Committed(b, m, t)
  BY <1>1 DEF CalmOn, Placed, Replacing
<1>3. op.error_block = b /\ op.name # "write" /\ mark[b] /\ b \in Block
  BY <1>1, <1>2, Blocks DEF Committed
<1>4. /\ UNCHANGED <<bmt, bmt_block_index, stored>> /\ pc' = "idle"
      /\ flash' = [flash EXCEPT ![b][0] = Garbage(@.index)]
      /\ \A c \in Block : mark'[c] <=> mark[c] \/ c = b
  BY <1>3, Marks DEF MarkBad, mark_block_bad, ram, CalmOn, IInv
<1>5. flash' = [flash EXCEPT ![b][0] = Garbage(flash[b][0].index)]
  BY <1>3, <1>4, Blocks DEF CalmOn, IInv, Medium, FlashIs
<1>6. \A d \in Block : d # b => flash'[d] = flash[d]
  BY <1>3, <1>5, Programmed, Blocks DEF CalmOn
<1>7. FewBad' /\ Direct'
  BY <1>3, <1>4, <1>6, DirectKept, Blocks DEF CalmOn, FewBad
<1>8. Committed(b, m, t)'
  BY <1>1, <1>2, <1>3, <1>4, <1>6, Blocks DEF Committed, Holds, HasTable
<1> QED  BY <1>7, <1>8 DEF CalmNext, Placed

LEMMA MarkFailedCalm == ASSUME CalmOn, MarkFailed PROVE CalmNext
<1> DEFINE b == op.block
<1>1. pc = "mark_failed" /\ UNCHANGED <<bmt, bmt_block_index, op, to_index, stored>> /\ pc' = "idle"
  BY DEF MarkFailed, ram
<1>2. Blank /\ Replacing
  BY <1>1 DEF CalmOn, Placed, Committed
<1>3. /\ DOMAIN bmt = {} /\ mark[b] /\ b \in System /\ b \in Block
  BY <1>1, <1>2, Blocks DEF Replacing, CalmOn, IInv, Steps, Memory, Accesses
<1>4. get_mapping_block_index(b) = b
  BY <1>3, MapSelf
<1>5. mark_block_bad(b)
  BY <1>4 DEF MarkFailed
<1> HIDE DEF b
<1>6. \A c \in Block : mark'[c] <=> mark[c]
  BY <1>3, <1>5, Marks DEF CalmOn, IInv
<1>7. flash' = [flash EXCEPT ![b][0] = Garbage(flash[b][0].index)]
  BY <1>3, <1>5, Blocks DEF mark_block_bad, CalmOn, IInv, Medium, FlashIs
<1>8. \A d \in Block : d # b => flash'[d] = flash[d]
  BY <1>3, <1>7, Programmed, Blocks DEF CalmOn
<1>9. FewBad' /\ Direct'
  BY <1>1, <1>3, <1>6, <1>8, DirectKept, Blocks DEF CalmOn, FewBad
<1>10. Blank'
  BY <1>1, <1>2, <1>3, <1>6, <1>8, Blocks DEF Blank, HasTable
<1>11. Replacing'
  BY <1>1, <1>3 DEF Replacing
<1> QED  BY <1>9, <1>10, <1>11 DEF CalmNext, Placed

LEMMA PowerCalm == ASSUME CalmOn, PowerOff \/ PowerCut PROVE CalmNext
<1>1. Off /\ UNCHANGED <<mark, flash, stored>> /\ pc # "off"
  BY DEF PowerOff, PowerCut
<1>2. pc' = "off" /\ Replacing'
  BY <1>1, OffReplacing DEF Off
<1>3. CASE Blank /\ Replacing
  BY <1>1, <1>2, <1>3, PoolStep DEF CalmOn
<1>4. CASE \E b \in System, m, t \in Pool : Committed(b, m, t)
  <2>1. PICK b \in System, m \in Pool, t \in Pool : Committed(b, m, t)
    BY <1>4
  <2>2. Committed(b, m, t)'
    BY <1>1, <1>2, <2>1 DEF Committed, Holds, HasTable
  <2>3. FewBad' /\ Direct'
    BY <1>1 DEF CalmOn, FewBad, Direct, Holds
  <2> QED  BY <2>2, <2>3 DEF CalmNext, Placed
<1> QED  BY <1>3, <1>4 DEF CalmOn, Placed

\* Where an access goes: to the block itself, or to the one replacement.
LEMMA AccessMaps ==
  ASSUME CalmOn, pc = "idle", NEW b \in System
  PROVE  \/ Blank /\ Replacing /\ DOMAIN bmt = {} /\ get_mapping_block_index(b) = b
         \/ \E x \in System, y, z \in Pool :
              /\ Committed(x, y, z)
              /\ get_mapping_block_index(b) = IF b = x THEN y ELSE b
<1>1. CASE Blank /\ Replacing
  <2>1. DOMAIN bmt = {}
    BY <1>1 DEF Replacing
  <2> QED  BY <1>1, <2>1, MapSelf
<1>2. CASE \E x \in System, y, z \in Pool : Committed(x, y, z)
  <2>1. PICK x \in System, y \in Pool, z \in Pool : Committed(x, y, z)
    BY <1>2
  <2>2. Redirects(bmt, x, y)
    BY <2>1 DEF Committed
  <2>3. get_mapping_block_index(x) = y
    BY <2>2, MapTo DEF CalmOn, IInv, Steps, Memory
  <2>4. b # x => get_mapping_block_index(b) = b
    BY <2>2, MapSelf DEF Redirects
  <2> QED  BY <2>1, <2>3, <2>4
<1> QED  BY <1>1, <1>2 DEF CalmOn, Placed

\* A block that is written or erased where its data belong.
LEMMA AccessedCalm ==
  ASSUME CalmOn, pc = "idle", NEW b \in System, NEW m \in Block, m = get_mapping_block_index(b),
         ~mark[m], UNCHANGED mark,
         \A d \in Block : d # m => flash'[d] = flash[d],
         flash'[m][0].index = NO_INDEX \/ m \in System \/ mark[b],
         flash'[m][0].kind = "bmt" => flash'[m][0] = flash[m][0],
         \A c \in System : c # b => stored'[c] = stored[c],
         Holds(b, m) => Holds(b, m)',
         Off \/ (pc' = "idle" /\ UNCHANGED <<bmt, bmt_block_index, op>>)
  PROVE  CalmNext
<1>1. pc' \in {"off", "idle"} /\ (pc' # "off" => UNCHANGED <<bmt, bmt_block_index, op>>)
  BY DEF Off
<1>2. FewBad'
  BY DEF CalmOn, FewBad
<1>3. \A d \in Block : HasTable(d)' => HasTable(d) /\ flash'[d][0] = flash[d][0]
  BY DEF HasTable
<1>4. CASE Blank /\ Replacing /\ DOMAIN bmt = {} /\ m = b
  <2>1. Holds(b, b)'
    BY <1>4 DEF CalmOn, Direct
  <2>2. Direct'
    BY <1>4, <2>1, Blocks DEF CalmOn, Direct, Holds
  <2>3. \A d \in Pool : flash'[d] = flash[d]
    BY <1>4, Blocks
  <2>4. Blank'
    BY <1>1, <1>3, <1>4, <2>3, Blocks DEF Blank
  <2>5. Replacing'
    BY <1>1, <1>4, OffReplacing DEF Replacing
  <2> QED  BY <1>2, <2>2, <2>4, <2>5 DEF CalmNext, Placed
<1>5. ASSUME NEW x \in System, NEW y \in Pool, NEW z \in Pool, Committed(x, y, z),
             m = IF b = x THEN y ELSE b
      PROVE  CalmNext
  <2>1. /\ mark[x] /\ ~mark[y] /\ y # z /\ Holds(x, y) /\ HasTable(z)
        /\ Redirects(flash[z][0].table, x, y) /\ \A c \in Pool : HasTable(c) => c = z
        /\ Redirects(bmt, x, y) /\ bmt_block_index = z
    BY <1>5 DEF Committed
  <2>2. m # z /\ flash'[z] = flash[z]
    BY <1>5, <2>1, Blocks
  <2>3. HasTable(z)'
    BY <2>1, <2>2 DEF HasTable
  <2>4. \A c \in Pool : HasTable(c)' => c = z
    BY <1>3, <2>1, Blocks
  <2>5. Holds(x, y)'
    <3>1. CASE b = x
      BY <1>5, <2>1, <3>1
    <3>2. CASE b # x
      <4>1. y # m /\ flash'[y] = flash[y] /\ stored'[x] = stored[x]
        BY <1>5, <3>2, Blocks
      <4> QED  BY <2>1, <4>1 DEF Holds
    <3> QED  BY <3>1, <3>2
  <2>6. Direct'
    <3> SUFFICES ASSUME NEW c \in System, ~mark[c] PROVE Holds(c, c)'
      BY DEF Direct
    <3>1. Holds(c, c)
      BY DEF CalmOn, Direct
    <3>2. CASE c = b
      BY <1>5, <2>1, <3>1, <3>2
    <3>3. CASE c # b
      <4>1. c # m /\ flash'[c] = flash[c] /\ stored'[c] = stored[c]
        BY <1>5, <3>3, Blocks
      <4> QED  BY <3>1, <4>1 DEF Holds
    <3> QED  BY <3>2, <3>3
  <2>7. Committed(x, y, z)'
    BY <1>1, <2>1, <2>2, <2>3, <2>4, <2>5 DEF Committed
  <2> QED  BY <1>2, <2>6, <2>7 DEF CalmNext, Placed
<1> QED  BY <1>4, <1>5, AccessMaps

\* A block that is marked before anything is stored in it.
LEMMA FailedCalm ==
  ASSUME CalmOn, pc = "idle", NEW name \in {"erase", "check"}, NEW b \in System,
         mark[get_mapping_block_index(b)], Failed(name, b, 0, 0, NO_INDEX),
         UNCHANGED <<mark, flash>>, \A c \in System : c # b => stored'[c] = stored[c],
         stored' = stored \/ \A p \in Page : stored'[b][p] = 0
  PROVE  CalmNext
<1>1. Blank /\ Replacing /\ DOMAIN bmt = {} /\ get_mapping_block_index(b) = b
  <2>1. ASSUME NEW x \in System, NEW y \in Pool, NEW z \in Pool, Committed(x, y, z),
               get_mapping_block_index(b) = IF b = x THEN y ELSE b
        PROVE  FALSE
    <3>1. mark[x] /\ ~mark[y]
      BY <2>1 DEF Committed
    <3>2. b # x /\ mark[b]
      BY <2>1, <3>1
    <3> QED  BY <3>1, <3>2, Blocks DEF CalmOn, FewBad
  <2> QED  BY <2>1, AccessMaps
<1>2. /\ UNCHANGED <<bmt, bmt_block_index>> /\ pc' = "find" /\ op'.name = name
      /\ op'.block = b /\ op'.error_block = b
  BY <1>1 DEF Failed
<1>3. FewBad' /\ Direct'
  BY <1>1 DEF CalmOn, FewBad, Direct, Holds
<1>4. Blank'
  BY <1>1, <1>2 DEF Blank, HasTable
<1>5. Replacing'
  BY <1>1, <1>2 DEF Replacing
<1> QED  BY <1>3, <1>4, <1>5 DEF CalmNext, Placed

LEMMA WriteCalm ==
  ASSUME CalmOn, MaxFails = 0, fails' = 0, NEW b \in System, NEW p \in Page,
         mtk_nand_write_page(b, p)
  PROVE  CalmNext
<1>1. PICK m \in Block : m = get_mapping_block_index(b)
  BY MappingIs DEF CalmOn, IInv, Steps, Memory
<1>2. PICK v, index : v = writes + 1 /\ index = IF m # b THEN b ELSE FAKE_INDEX
  OBVIOUS
<1>3. /\ pc = "idle" /\ ~mark[m] /\ flash[m][p] = Erased /\ ~Fail
  BY <1>1, FailNot DEF mtk_nand_write_page, Writable, CalmOn
<1>4. \/ /\ UNCHANGED <<mark, bmt, bmt_block_index, op>> /\ pc' = "idle"
         /\ flash' = [flash EXCEPT ![m][p] = IF @ = Erased THEN Data(v, index) ELSE Garbage(@.index)]
         /\ stored' = [stored EXCEPT ![b][p] = v]
      \/ /\ Off /\ UNCHANGED <<mark, stored>>
         /\ \E x : flash' = [flash EXCEPT ![m][p] = Garbage(x)]
  <2>1. /\ nand_write_page(m, p, Data(v, index), pc' = "idle" /\ UNCHANGED ram, FALSE)
        /\ IF pc' = "idle" THEN Acknowledge(b, p, v) ELSE UNCHANGED stored
    BY <1>1, <1>2, <1>3 DEF mtk_nand_write_page
  <2>2. Off => pc' # "idle"
    BY DEF Off
  <2> QED  BY <1>3, <2>1, <2>2 DEF nand_write_page, Acknowledge, ram
<1>5. CASE /\ UNCHANGED <<mark, bmt, bmt_block_index, op>> /\ pc' = "idle"
           /\ flash' = [flash EXCEPT ![m][p] = IF @ = Erased THEN Data(v, index) ELSE Garbage(@.index)]
           /\ stored' = [stored EXCEPT ![b][p] = v]
  <2>1. flash' = [flash EXCEPT ![m][p] = Data(v, index)]
    BY <1>3, <1>5 DEF CalmOn, IInv, Medium, FlashIs
  <2>2. /\ flash'[m][p] = Data(v, index) /\ \A d \in Block : d # m => flash'[d] = flash[d]
        /\ \A q \in Page : q # p => flash'[m][q] = flash[m][q]
    BY <2>1 DEF CalmOn, IInv, Medium, FlashIs
  <2>3. /\ stored'[b][p] = v /\ \A c \in System : c # b => stored'[c] = stored[c]
        /\ \A q \in Page : q # p => stored'[b][q] = stored[b][q]
    BY <1>5 DEF CalmOn, IInv, Medium
  <2>4. Holds(b, m) => Holds(b, m)'
    BY <2>2, <2>3, BlankPages DEF Holds
  <2>5. flash'[m][0].kind = "bmt" => flash'[m][0] = flash[m][0]
    BY <2>2, BlankPages, Blocks
  <2>6. m \in System \/ mark[b]
    BY <1>1, <1>3, AccessMaps DEF Committed
  <2> QED  BY <1>1, <1>3, <1>5, <2>2, <2>3, <2>4, <2>5, <2>6, AccessedCalm
<1>6. CASE /\ Off /\ UNCHANGED <<mark, stored>>
           /\ \E x : flash' = [flash EXCEPT ![m][p] = Garbage(x)]
  <2>1. PICK x : flash' = [flash EXCEPT ![m][p] = Garbage(x)]
    BY <1>6
  <2>2. /\ flash'[m][p] = Garbage(x) /\ \A d \in Block : d # m => flash'[d] = flash[d]
        /\ \A q \in Page : q # p => flash'[m][q] = flash[m][q]
    BY <2>1 DEF CalmOn, IInv, Medium, FlashIs
  <2>3. Holds(b, m) => Holds(b, m)'
    BY <1>3, <1>6, <2>2, BlankPages DEF Holds
  <2>4. flash'[m][0].kind = "bmt" => flash'[m][0] = flash[m][0]
    BY <2>2, BlankPages, Blocks
  <2>5. m \in System \/ mark[b]
    BY <1>1, <1>3, AccessMaps DEF Committed
  <2> QED  BY <1>1, <1>3, <1>6, <2>2, <2>3, <2>4, <2>5, AccessedCalm
<1> QED  BY <1>4, <1>5, <1>6

LEMMA EraseCalm ==
  ASSUME CalmOn, MaxFails = 0, fails' = 0, NEW b \in System, mtk_nand_erase(b)
  PROVE  CalmNext
<1>1. PICK m \in Block : m = get_mapping_block_index(b)
  BY MappingIs DEF CalmOn, IInv, Steps, Memory
<1>2. pc = "idle" /\ ~Fail /\ stored' = [stored EXCEPT ![b] = [p \in Page |-> 0]]
  BY FailNot DEF mtk_nand_erase, CalmOn
<1>3. (\A c \in System : c # b => stored'[c] = stored[c]) /\ \A p \in Page : stored'[b][p] = 0
  BY <1>2 DEF CalmOn, IInv, Medium
<1>4. \/ /\ ~mark[m] /\ UNCHANGED <<mark, bmt, bmt_block_index, op>> /\ pc' = "idle"
         /\ flash' = [flash EXCEPT ![m] = [p \in Page |-> Erased]]
      \/ mark[m] /\ Failed("erase", b, 0, 0, NO_INDEX) /\ UNCHANGED <<mark, flash>>
      \/ /\ ~mark[m] /\ Off /\ UNCHANGED mark
         /\ flash' = [flash EXCEPT ![m] = [p \in Page |-> Garbage(NO_INDEX)]]
  BY <1>1, <1>2 DEF mtk_nand_erase, nand_erase, ram
<1>5. CASE mark[m] /\ Failed("erase", b, 0, 0, NO_INDEX) /\ UNCHANGED <<mark, flash>>
  BY <1>1, <1>2, <1>3, <1>5, FailedCalm
<1>6. ASSUME NEW c \in {Erased, Garbage(NO_INDEX)}, ~mark[m], UNCHANGED mark,
             flash' = [flash EXCEPT ![m] = [p \in Page |-> c]],
             Off \/ (pc' = "idle" /\ UNCHANGED <<bmt, bmt_block_index, op>>)
      PROVE  CalmNext
  <2>1. flash'[m][0] = c /\ \A d \in Block : d # m => flash'[d] = flash[d]
    BY <1>6, Blocks DEF CalmOn, IInv, Medium, FlashIs
  <2>2. c.kind # "bmt" /\ c.index = NO_INDEX
    BY BlankPages
  <2>3. Holds(b, m)'
    BY <1>3 DEF Holds
  <2> QED  BY <1>1, <1>2, <1>3, <1>6, <2>1, <2>2, <2>3, AccessedCalm
<1> QED  BY <1>4, <1>5, <1>6

\* Only a failing operation counts as a failure.
LEMMA FailsMoves == ASSUME [Next]_vars PROVE fails' = fails \/ Fail
<1>1. CASE UNCHANGED vars
  BY <1>1 DEF vars, faults
<1>2. CASE Driver
  <2> USE DEF faults, Cut, nand_erase, nand_write_page
  <2>1. init_bmt \/ reconstruct_bmt \/ MarkLoaded => fails' = fails
    BY DEF init_bmt, reconstruct_bmt, MarkLoaded
  <2>2. NothingFound \/ FindBlock \/ UpdateTable \/ FindTableBlock \/ MarkBad \/ MarkFailed
          => fails' = fails
    BY DEF NothingFound, FindBlock, UpdateTable, FindTableBlock, MarkBad, MarkFailed
  <2>3. ErasePool => fails' = fails \/ Fail
    BY DEF ErasePool
  <2>4. MigrateErrorPage \/ MigrateNextPage => fails' = fails \/ Fail
    BY DEF MigrateErrorPage, MigrateNextPage
  <2>5. EraseTable \/ ProgramTable => fails' = fails \/ Fail
    BY DEF EraseTable, ProgramTable
  <2> QED  BY <1>2, <2>1, <2>2, <2>3, <2>4, <2>5 DEF Driver
<1>3. CASE Access
  BY <1>3 DEF Access, mtk_nand_write_page, mtk_nand_erase, nand_block_bad, faults, Cut, nand_erase,
              nand_write_page
<1>4. CASE PowerOff \/ PowerCut
  BY <1>4 DEF PowerOff, PowerCut, faults, Cut
<1> QED  BY <1>1, <1>2, <1>3, <1>4 DEF Next

\* Without a failure nothing migrates.
LEMMA MigratesNot == ASSUME CalmOn, MigrateErrorPage \/ MigrateNextPage PROVE FALSE
BY DEF CalmOn, Placed, Replacing, Committed, MigrateErrorPage, MigrateNextPage

LEMMA CalmKept ==
  ASSUME IInv, Known, Calm, MaxFails = 0, [Next]_vars, Known'
  PROVE  Calm'
<1> SUFFICES ASSUME fails' = 0 PROVE FewBad' /\ Direct' /\ Placed'
  BY DEF Calm
<1>1. fails = 0
  BY FailsMoves, FailCounts DEF Known
<1>2. CalmOn
  BY <1>1 DEF CalmOn, Known, Calm
<1>3. CASE UNCHANGED vars
  <2>1. UNCHANGED <<mark, flash, stored, bmt, bmt_block_index, to_index, op, pc>>
    BY <1>3 DEF vars, ram
  <2>2. \A b, m, t : Committed(b, m, t) => Committed(b, m, t)'
    BY <2>1 DEF Committed, Holds, HasTable
  <2>3. Blank /\ Replacing => Blank' /\ Replacing'
    BY <2>1 DEF Blank, HasTable, Replacing
  <2>4. FewBad' /\ Direct'
    BY <1>2, <2>1 DEF CalmOn, FewBad, Direct, Holds
  <2> QED  BY <1>2, <2>2, <2>3, <2>4 DEF CalmOn, Placed
<1>4. CASE Driver
  <2>1. init_bmt \/ reconstruct_bmt \/ MarkLoaded => CalmNext
    BY <1>2, InitCalm, ReconstructCalm, LoadCalm DEF CalmOn, CalmNext
  <2>2. CalmNext
    BY <1>2, <1>4, <2>1, ErasePoolCalm, NothingCalm, MigratesNot, FindCalm, UpdateCalm,
       EraseTableCalm, FindTableCalm, ProgramTableCalm, MarkBadCalm, MarkFailedCalm DEF Driver
  <2> QED  BY <2>2 DEF CalmNext
<1>5. CASE Access
  <2>1. PICK b \in System : (\E p \in Page : mtk_nand_write_page(b, p)) \/ mtk_nand_erase(b)
                           \/ nand_block_bad(b)
    BY <1>5 DEF Access
  <2>2. nand_block_bad(b) => CalmNext
    BY <1>2, FailedCalm DEF nand_block_bad
  <2>3. CalmNext
    BY <1>2, <2>1, <2>2, WriteCalm, EraseCalm
  <2> QED  BY <2>3 DEF CalmNext
<1>6. CASE PowerOff \/ PowerCut
  BY <1>2, <1>6, PowerCalm DEF CalmNext
<1> QED  BY <1>3, <1>4, <1>5, <1>6 DEF Next

\* "should be power lost last time": power cuts alone, however many and whenever
\* they come, lose nothing that a completed write has stored.
THEOREM CutsLoseNothing ==
  ASSUME MaxFails = 0
  PROVE  Spec => []Durable
<1>1. Init => Calm
  <2> SUFFICES ASSUME Init PROVE FewBad /\ Direct /\ Blank /\ Replacing
    BY DEF Calm, Placed
  <2>1. /\ DOMAIN bmt = {} /\ pc = "off" /\ stored = [b \in System |-> [p \in Page |-> 0]]
        /\ flash = [b \in Block |-> [p \in Page |-> IF p = 0 /\ mark[b] THEN Garbage(NO_INDEX)
                                                                    ELSE Erased]]
    BY DEF Init
  <2>2. FewBad
    BY DEF Init, FewBad
  <2>3. \A b \in Pool : flash[b][0].index = NO_INDEX /\ flash[b][0].kind # "bmt"
    <3> SUFFICES ASSUME NEW b \in Pool PROVE flash[b][0].index = NO_INDEX /\ flash[b][0].kind # "bmt"
      OBVIOUS
    <3>1. flash[b][0] = Erased \/ flash[b][0] = Garbage(NO_INDEX)
      BY <2>1, Blocks
    <3> QED  BY <3>1, BlankPages
  <2>4. Blank
    BY <2>1, <2>3, Blocks DEF Blank, HasTable
  <2>5. Direct /\ Replacing
    BY <2>1 DEF Direct, Holds, Replacing
  <2> QED  BY <2>2, <2>4, <2>5
<1>2. IInv /\ Known /\ Calm /\ [Next]_vars /\ Known' => Calm'
  BY CalmKept
<1>3. IInv /\ Known /\ Calm => Durable
  <2> SUFFICES ASSUME IInv, Known, Calm, pc = "idle", fails <= MaxFails,
                      NEW b \in System, NEW p \in Page, stored[b][p] # 0
               PROVE  /\ flash[get_mapping_block_index(b)][p].kind = "data"
                      /\ flash[get_mapping_block_index(b)][p].val = stored[b][p]
    BY DEF Durable
  <2>1. CalmOn
    BY DEF CalmOn, Known, Calm
  <2>2. Holds(b, get_mapping_block_index(b))
    <3>1. CASE Blank /\ get_mapping_block_index(b) = b
      BY <2>1, <3>1 DEF Blank, Direct, CalmOn
    <3>2. ASSUME NEW x \in System, NEW y \in Pool, NEW z \in Pool, Committed(x, y, z),
                 get_mapping_block_index(b) = IF b = x THEN y ELSE b
          PROVE  Holds(b, get_mapping_block_index(b))
      <4>1. b # x => ~mark[b]
        BY <2>1, <3>2, Blocks DEF Committed, CalmOn, FewBad
      <4> QED  BY <2>1, <3>2, <4>1 DEF Committed, CalmOn, Direct
    <3> QED  BY <2>1, <3>1, <3>2, AccessMaps
  <2> QED  BY <2>2 DEF Holds
<1>4. Spec => []Known
  BY AlwaysKnown
<1> QED  BY Invariance, <1>1, <1>2, <1>3, <1>4, PTL DEF Spec

-----------------------------------------------------------------------------
(* What Durable rests on as long as power is never cut and at most one     *)
(* operation fails: where the data of every block are, whether the table   *)
(* is in memory, on flash, or to be rebuilt from the index of its pages.   *)

\* get_mapping_block_index, of any table.
MapIn(t, b) == IF \E k \in DOMAIN t : t[k].bad_index = b
               THEN t[FirstEntry(t, "bad_index", b)].mapped_index ELSE b
Empty(b) == \A p \in Page : stored[b][p] = 0
Clean(m) == \A p \in Page : flash[m][p] = Erased
\* The index that the pages of b carry in block m.
Own(b, m) == IF m = b THEN FAKE_INDEX ELSE b
\* Block m was written for b alone, from its first page on.
Tidy(b, m) == /\ \A p \in Page : \/ flash[m][p] = Erased
                                 \/ /\ flash[m][p].kind \in {"data", "garbage"}
                                    /\ flash[m][p].index = Own(b, m)
              /\ flash[m][0] = Erased => Clean(m)
InPlace(b, m) == /\ Holds(b, m)
                 /\ IF mark[m] THEN Empty(b) ELSE Tidy(b, m)
AllIn(t) == \A b \in System : InPlace(b, MapIn(t, b))
\* What the rebuilding of the table takes for the replacement of b.
Indexed(c, b) == ~mark[c] /\ flash[c][0].index = b
Single(t) == \A c \in Pool, b \in System : Indexed(c, b) => c = MapIn(t, b)
\* No block is left but c.
Full(t, c) == \A d \in Pool : d = c \/ mark[d] \/ IsMapped(t, d)
AllMarked(t) == \A k \in DOMAIN t : mark[t[k].bad_index]

\* The table redirects the block of the access already, and what it was redirected
\* to before, or its own block, is not marked yet.
Relieved == pc \in {"write_bmt", "program_bmt", "mark_bad"} /\ op.name # "init"

\* The table in memory.
Loaded == pc \notin {"off", "reconstruct"} =>
  /\ AllIn(bmt)
  /\ \A c \in Pool, b \in System : Indexed(c, b) =>
       \/ c = MapIn(bmt, b)
       \/ pc \in {"copy", "update"} /\ c = to_index
       \/ Relieved /\ c = op.error_block
  /\ bmt_block_index = system_block_count => Full(bmt, bmt_block_index)
  /\ pc = "load" => AllMarked(bmt)
\* The table on flash, without one in memory and with it.
Saved(c) == LET t == flash[c][0].table IN
  /\ \A d \in Pool : HasTable(d) => d = c
  /\ AllIn(t) /\ Single(t) /\ AllMarked(t)
  /\ c = system_block_count => Full(t, c)
Written == \A c \in Pool : HasTable(c) =>
  IF pc = "off" THEN Saved(c)
  ELSE /\ c = bmt_block_index
       /\ pc \notin {"write_bmt", "program_bmt"} => flash[c][0].table = bmt
\* The table to be rebuilt.
Rebuildable == pc \in {"off", "reconstruct"} => \A b \in System :
  /\ ~mark[b] => InPlace(b, b) /\ \A c \in Pool : ~Indexed(c, b)
  /\ mark[b] /\ (\A c \in Pool : ~Indexed(c, b)) => Empty(b)
  /\ \A c \in Pool : Indexed(c, b) => InPlace(b, c) /\ \A d \in Pool : Indexed(d, b) => d = c
Rebuilding == pc = "reconstruct" =>
  /\ \A k \in DOMAIN bmt : Indexed(bmt[k].mapped_index, bmt[k].bad_index)
  /\ \A c \in Pool : c < system_block_count + i /\ Candidate(c) => IsMapped(bmt, c)
  /\ ~pool_erased
\* The blocks that may be picked from the pool are erased.
Swept == pc \notin {"off", "reconstruct"} =>
  /\ pool_erased => \A c \in Available : \/ Clean(c)
                                         \/ pc \in {"copy", "update"} /\ c = to_index
                                         \/ Relieved /\ c = op.error_block
  /\ Finding /\ ~pool_erased => \A c \in Erasable : c < i => Clean(c)
\* The access that update_bmt works for.
Working ==
  /\ pc \in {"find", "migrate", "copy", "update"} => op.error_block = MapIn(bmt, op.block)
  /\ Mending \/ pc = "mark_failed" =>
       IF op.name # "write" THEN Empty(op.block)
       ELSE stored[op.block][op.error_page] = 0 /\ ~mark[op.error_block]
  /\ pc = "mark_failed" => op.name # "write"
  /\ pc \in {"find", "migrate", "copy"} /\ op.name = "write" =>
       /\ flash[op.error_block][op.error_page] # Erased
       /\ pc # "copy" => op.spare = Own(op.block, op.error_block)
  /\ Relieved => /\ \A b \in System : MapIn(bmt, b) # op.error_block
                 /\ op.name = "write" =>
                      LET m == MapIn(bmt, op.block) IN
                      /\ ~mark[m] /\ flash[m][op.error_page].kind = "data"
                      /\ flash[m][op.error_page].val = op.val
\* The replacement that a migration fills.
Filling ==
  /\ pc \in {"migrate", "copy", "update"} => ~mark[to_index]
  /\ pc = "migrate" => Clean(to_index)
  /\ pc = "copy" =>
       /\ flash[to_index][op.error_page] = Data(op.val, op.block)
       /\ \A p \in Page : p # op.error_page =>
            LET from == flash[op.error_block][p] IN
            flash[to_index][p] = IF from = Erased \/ p >= i THEN Erased
                                 ELSE [from EXCEPT !.index = op.block]
  /\ pc = "update" =>
       /\ Holds(op.block, to_index) /\ Tidy(op.block, to_index)
       /\ op.name = "write" => /\ flash[to_index][op.error_page].kind = "data"
                               /\ flash[to_index][op.error_page].val = op.val
Sound == Loaded /\ Written /\ Rebuildable /\ Rebuilding /\ Swept /\ Working /\ Filling

\* The invariant as the steps need it, and the step that has to keep it.
SoundOn == IInv /\ Registered /\ Costly /\ Seated /\ Sound /\ fails \in Nat /\ fails <= MaxFails
AtMostOne == MaxFails <= 1 /\ MaxCuts = 0 /\ cuts = 0 /\ fails' <= MaxFails

\* What fails is the first to fail.
LEMMA OneFailure ==
  ASSUME SoundOn, AtMostOne
  PROVE  ~Cut /\ (Fail => fails = 0)
<1>1. ~Cut
  BY DEF Cut, AtMostOne
<1>2. Fail => fails = 0
  BY FailCounts DEF SoundOn, AtMostOne
<1> QED  BY <1>1, <1>2

\* A block is redirected into the pool, or stays its own.
LEMMA MapInIs ==
  ASSUME NEW t \in Seq(Entry), NEW b \in System
  PROVE  /\ MapIn(t, b) \in Block
         /\ \/ MapIn(t, b) = b /\ \A k \in DOMAIN t : t[k].bad_index # b
            \/ MapIn(t, b) \in Pool /\ \E k \in DOMAIN t : /\ t[k].bad_index = b
                                                           /\ t[k].mapped_index = MapIn(t, b)
<1>1. CASE \E k \in DOMAIN t : t[k].bad_index = b
  <2> DEFINE at == FirstEntry(t, "bad_index", b)
  <2>1. at \in DOMAIN t /\ t[at].bad_index = b
    BY <1>1, FirstIs
  <2>2. MapIn(t, b) = t[at].mapped_index
    BY <1>1 DEF MapIn
  <2> HIDE DEF at
  <2>3. t[at] \in Entry
    BY <2>1
  <2> QED  BY <2>1, <2>2, <2>3, Blocks DEF Entry
<1>2. CASE ~\E k \in DOMAIN t : t[k].bad_index = b
  BY <1>2, Blocks DEF MapIn
<1> QED  BY <1>1, <1>2

\* Where the table in memory sends the accesses.
LEMMA Mapping ==
  ASSUME IInv
  PROVE  /\ \A b \in System :
              /\ get_mapping_block_index(b) = MapIn(bmt, b)
              /\ MapIn(bmt, b) \in Block
              /\ \/ MapIn(bmt, b) = b /\ \A k \in DOMAIN bmt : bmt[k].bad_index # b
                 \/ MapIn(bmt, b) \in Pool /\ \E k \in DOMAIN bmt :
                      bmt[k].bad_index = b /\ bmt[k].mapped_index = MapIn(bmt, b)
              /\ bmt_block_index # 0 => MapIn(bmt, b) # bmt_block_index
              /\ \A c \in Pool : ~IsMapped(bmt, c) => MapIn(bmt, b) # c
         /\ \A b, d \in System : MapIn(bmt, b) = MapIn(bmt, d) => b = d
<1>1. bmt \in Seq(Entry)
  BY DEF IInv, Steps, Memory
<1>2. \A b \in System :
        /\ get_mapping_block_index(b) = MapIn(bmt, b)
        /\ MapIn(bmt, b) \in Block
        /\ \/ MapIn(bmt, b) = b /\ \A k \in DOMAIN bmt : bmt[k].bad_index # b
           \/ MapIn(bmt, b) \in Pool /\ \E k \in DOMAIN bmt :
                bmt[k].bad_index = b /\ bmt[k].mapped_index = MapIn(bmt, b)
  BY <1>1, MapInIs DEF get_mapping_block_index, MapIn
<1>3. ASSUME NEW b \in System PROVE bmt_block_index # 0 => MapIn(bmt, b) # bmt_block_index
  BY <1>2, MappingApart
<1>4. \A b \in System : \A c \in Pool : ~IsMapped(bmt, c) => MapIn(bmt, b) # c
  BY <1>2, Blocks DEF IsMapped
<1>5. ASSUME NEW b \in System, NEW d \in System, MapIn(bmt, b) = MapIn(bmt, d) PROVE b = d
  <2>1. CASE MapIn(bmt, b) = b \/ MapIn(bmt, d) = d
    BY <1>2, <1>5, <2>1, Blocks
  <2>2. CASE MapIn(bmt, b) \in Pool /\ MapIn(bmt, d) \in Pool
    <3>1. PICK k \in DOMAIN bmt : bmt[k].bad_index = b /\ bmt[k].mapped_index = MapIn(bmt, b)
      BY <1>2, <2>2, Blocks
    <3>2. PICK j \in DOMAIN bmt : bmt[j].bad_index = d /\ bmt[j].mapped_index = MapIn(bmt, d)
      BY <1>2, <2>2, Blocks
    <3>3. j = k
      BY <1>5, <3>1, <3>2 DEF IInv, Steps, Disjoint
    <3> QED  BY <3>1, <3>2, <3>3
  <2> QED  BY <1>2, <2>1, <2>2
<1> QED  BY <1>2, <1>3, <1>4, <1>5

LEMMA PagesAre ==
  ASSUME IInv, NEW b \in Block, NEW p \in Page
  PROVE  /\ flash[b][p] \in Content /\ flash[b][p].index \in Nat
         /\ flash[b][p].table \in Seq(Entry) /\ mark[b] \in BOOLEAN
BY DEF IInv, Medium, FlashIs, Content

\* Nothing but block x changes.
Touches(x) == \A d \in Block : d # x => flash'[d] = flash[d] /\ mark'[d] = mark[d]

LEMMA MarkedIs ==
  ASSUME IInv, NEW b \in Block, mark_block_bad(b)
  PROVE  /\ Touches(b) /\ flash'[b][0] = Garbage(flash[b][0].index)
         /\ \A c \in Block : mark'[c] <=> mark[c] \/ c = b
         /\ \A p \in Page : p # 0 => flash'[b][p] = flash[b][p]
<1>1. flash' = [flash EXCEPT ![b][0] = Garbage(flash[b][0].index)]
  BY Blocks DEF mark_block_bad, IInv, Medium, FlashIs
<1>2. /\ flash'[b][0] = Garbage(flash[b][0].index)
      /\ \A d \in Block, q \in Page : d # b \/ q # 0 => flash'[d][q] = flash[d][q]
      /\ \A d \in Block : d # b => flash'[d] = flash[d]
  BY <1>1, Blocks DEF IInv, Medium, FlashIs
<1>3. \A c \in Block : mark'[c] <=> mark[c] \/ c = b
  BY Marks DEF IInv
<1>4. \A c \in Block : c # b => mark'[c] = mark[c]
  BY DEF mark_block_bad, IInv, Medium
<1> QED  BY <1>2, <1>3, <1>4 DEF Touches

\* The data of a block stay where the flash of its block is left alone.
LEMMA InPlaceKept ==
  ASSUME NEW b \in System, NEW m \in Block, InPlace(b, m), flash'[m] = flash[m],
         mark'[m] = mark[m], stored'[b] = stored[b]
  PROVE  InPlace(b, m)'
BY DEF InPlace, Holds, Empty, Tidy, Clean

LEMMA AllInNext ==
  ASSUME NEW t, \A b \in System : \A m : m = MapIn(t, b) => InPlace(b, m)'
  PROVE  AllIn(t)'
BY DEF AllIn, InPlace, Holds, Empty, Tidy, Clean

LEMMA AllInKept ==
  ASSUME NEW t \in Seq(Entry), AllIn(t), UNCHANGED stored, NEW x, Touches(x),
         \A b \in System : MapIn(t, b) # x
  PROVE  AllIn(t)'
<1>1. ASSUME NEW b \in System, NEW m, m = MapIn(t, b) PROVE InPlace(b, m)'
  <2>1. m \in Block /\ m # x
    BY <1>1, MapInIs
  <2>2. InPlace(b, m)
    BY <1>1 DEF AllIn
  <2> QED  BY <2>1, <2>2, InPlaceKept DEF Touches
<1> QED  BY <1>1, AllInNext

\* What the flash says of itself.
LEMMA Still ==
  ASSUME UNCHANGED <<mark, flash, stored>>
  PROVE  /\ \A t : AllIn(t)' <=> AllIn(t)
         /\ \A t : Single(t)' <=> Single(t)
         /\ \A t : AllMarked(t)' <=> AllMarked(t)
         /\ \A t, c : Full(t, c)' <=> Full(t, c)
         /\ \A c : HasTable(c)' <=> HasTable(c)
         /\ \A c, b : Indexed(c, b)' <=> Indexed(c, b)
         /\ \A b, m : InPlace(b, m)' <=> InPlace(b, m)
         /\ \A b : Empty(b)' <=> Empty(b)
         /\ \A c : Clean(c)' <=> Clean(c)
         /\ \A c : Candidate(c)' <=> Candidate(c)
<1> USE DEF InPlace, Holds, Empty, Tidy, Clean, Indexed, HasTable
<1>1. /\ \A t : AllIn(t)' <=> AllIn(t)
      /\ \A b, m : InPlace(b, m)' <=> InPlace(b, m)
  BY DEF AllIn
<1>2. /\ \A t : Single(t)' <=> Single(t)
      /\ \A t : AllMarked(t)' <=> AllMarked(t)
      /\ \A t, c : Full(t, c)' <=> Full(t, c)
  BY DEF Single, AllMarked, Full
<1>3. /\ \A c : HasTable(c)' <=> HasTable(c)
      /\ \A c, b : Indexed(c, b)' <=> Indexed(c, b)
      /\ \A b : Empty(b)' <=> Empty(b)
      /\ \A c : Clean(c)' <=> Clean(c)
      /\ \A c : Candidate(c)' <=> Candidate(c)
  BY DEF Candidate
<1> QED  BY <1>1, <1>2, <1>3

\* Power goes between two accesses, or with an assertion.
LEMMA OffSound ==
  ASSUME SoundOn, pc \in {"idle", "find"}, Off, UNCHANGED <<mark, flash, stored>>
  PROVE  Sound'
<1>1. /\ AllIn(bmt) /\ Single(bmt)
      /\ bmt_block_index = system_block_count => Full(bmt, bmt_block_index)
  BY DEF SoundOn, Sound, Loaded, Single, Relieved
<1>2. AllMarked(bmt)
  BY DEF SoundOn, Registered, AllMarked
<1>3. pc' = "off" /\ op'.name = "none"
  BY DEF Off, NoOp
<1>4. Written'
  <2> SUFFICES ASSUME NEW c \in Pool, HasTable(c)' PROVE Saved(c)'
    BY <1>3 DEF Written
  <2>1. c = bmt_block_index /\ flash[c][0].table = bmt /\ \A d \in Pool : HasTable(d) => d = c
    BY Still DEF SoundOn, Sound, Written
  <2>2. Saved(c)
    BY <1>1, <1>2, <2>1 DEF Saved
  <2> QED  BY <2>2, Still DEF Saved
<1>5. Rebuildable'
  <2> SUFFICES ASSUME NEW b \in System
               PROVE  /\ ~mark[b] => InPlace(b, b) /\ \A c \in Pool : ~Indexed(c, b)
                      /\ mark[b] /\ (\A c \in Pool : ~Indexed(c, b)) => Empty(b)
                      /\ \A c \in Pool : Indexed(c, b) =>
                           InPlace(b, c) /\ \A d \in Pool : Indexed(d, b) => d = c
    BY Still DEF Rebuildable
  <2> DEFINE m == MapIn(bmt, b)
  <2>1. InPlace(b, m) /\ \A c \in Pool : Indexed(c, b) => c = m
    BY <1>1 DEF AllIn, Single
  <2>2. /\ m \in Block
        /\ \/ m = b /\ b \notin Pool
           \/ m \in Pool /\ m # b /\ mark[b]
    BY <1>2, Mapping, Blocks DEF SoundOn, AllMarked
  <2> HIDE DEF m
  <2>3. ASSUME mark[b], \A c \in Pool : ~Indexed(c, b) PROVE Empty(b)
    <3>1. CASE mark[m]
      BY <2>1, <3>1 DEF InPlace
    <3>2. CASE ~mark[m]
      <4>1. m # b /\ m \in Pool /\ Tidy(b, m) /\ Holds(b, m) /\ ~Indexed(m, b)
        BY <2>1, <2>2, <2>3, <3>2 DEF InPlace
      <4>2. Clean(m)
        BY <3>2, <4>1, Blocks DEF Tidy, Own, Indexed
      <4> QED  BY <4>1, <4>2, BlankPages DEF Clean, Holds, Empty
    <3> QED  BY <3>1, <3>2
  <2> QED  BY <2>1, <2>2, <2>3
<1> QED  BY <1>3, <1>4, <1>5 DEF Sound, Loaded, Rebuilding, Swept, Working, Filling, Mending, Relieved

\* The table found on flash is the one last written.
LEMMA InitSound == ASSUME SoundOn, init_bmt PROVE Sound'
<1>1. /\ UNCHANGED <<mark, flash, stored>> /\ pc = "off" /\ op'.name = "init"
      /\ ~pool_erased' /\ i' = 0
  BY DEF init_bmt, NoOp
<1>2. Tables = {b \in Pool : HasTable(b)}
  BY DEF Tables, HasTable
<1>3. CASE Tables # {}
  <2> DEFINE h == Highest(Tables)
  <2>1. h \in Tables
    BY <1>3, HighestIs, Blocks DEF Tables
  <2>2. bmt_block_index' = h /\ bmt' = flash[h][0].table /\ pc' = "load"
    BY <1>3 DEF init_bmt
  <2> HIDE DEF h
  <2>3. h \in Pool /\ HasTable(h) /\ Saved(h)
    BY <1>1, <1>2, <2>1 DEF SoundOn, Sound, Written
  <2>4. Loaded'
    <3>1. AllIn(bmt') /\ Single(bmt') /\ AllMarked(bmt')
          /\ (bmt_block_index' = system_block_count => Full(bmt', bmt_block_index'))
      BY <2>2, <2>3 DEF Saved
    <3>2. \A t, c : /\ AllIn(t) => AllIn(t)'
                    /\ Single(t) => Single(t)'
                    /\ AllMarked(t) => AllMarked(t)'
                    /\ Full(t, c) => Full(t, c)'
      BY <1>1, Still
    <3> QED  BY <1>1, <2>2, <3>1, <3>2 DEF Loaded, AllIn, Single, AllMarked, Full
  <2>5. Written'
    BY <1>1, <2>2, <2>3 DEF Written, Saved, HasTable
  <2> QED  BY <1>1, <2>2, <2>4, <2>5 DEF Sound, Rebuildable, Rebuilding, Swept, Finding, Working,
                                      Filling, Mending, Relieved
<1>4. CASE Tables = {}
  <2>1. bmt' = <<>> /\ bmt_block_index' = 0 /\ pc' = "reconstruct"
    BY <1>4 DEF init_bmt
  <2>2. DOMAIN bmt' = {} /\ \A c \in Pool : ~(c < system_block_count + 0)
    BY <2>1, Counts DEF Pool
  <2>3. Written'
    BY <1>1, <1>2, <1>4, Still DEF Written
  <2>4. Rebuildable'
    BY <1>1, Still DEF SoundOn, Sound, Rebuildable
  <2>5. Rebuilding'
    BY <1>1, <2>2 DEF Rebuilding
  <2> QED  BY <1>1, <2>1, <2>3, <2>4, <2>5 DEF Sound, Loaded, Swept, Working, Filling, Mending, Relieved
<1> QED  BY <1>3, <1>4

\* Each index read from a page 0 restores the entry of its block.
LEMMA ReconstructSound == ASSUME SoundOn, reconstruct_bmt PROVE Sound'
<1>1. /\ UNCHANGED <<mark, flash, stored, op, bmt_block_index, pool_erased>> /\ pc = "reconstruct"
      /\ bmt \in Seq(Entry) /\ i \in Nat /\ op.name = "init" /\ bmt_block_index = 0
  BY DEF reconstruct_bmt, SoundOn, IInv, Steps, Rebuilt, Memory
<1>2. /\ \A k \in DOMAIN bmt : Indexed(bmt[k].mapped_index, bmt[k].bad_index)
      /\ \A c \in Pool : c < system_block_count + i /\ Candidate(c) => IsMapped(bmt, c)
      /\ ~pool_erased /\ Rebuildable /\ \A c \in Pool : ~HasTable(c)
  BY <1>1, Blocks DEF SoundOn, Sound, Rebuilding, Written
<1>3. CASE i < bmt_block_count
  <2> DEFINE c == system_block_count + i
             bad == flash[c][0].index
             e == [bad_index |-> bad, mapped_index |-> c]
  <2>1. /\ pc' = "reconstruct" /\ i' = i + 1 /\ bmt' = Recovered(bmt, c)
        /\ c \in Pool /\ c \in Block /\ \A d \in Pool : d < system_block_count + (i + 1) => d < c \/ d = c
    BY <1>1, <1>3, Counts, Blocks DEF reconstruct_bmt, Pool
  <2>2. CASE ~Candidate(c)
    <3>1. bmt' = bmt
      BY <2>1, <2>2 DEF Recovered
    <3>2. Rebuilding'
      BY <1>1, <1>2, <2>1, <2>2, <3>1, Still DEF Rebuilding, IsMapped
    <3>3. Written' /\ Rebuildable'
      BY <1>1, <1>2, <2>1, Still DEF Written, Rebuildable
    <3> QED  BY <1>1, <2>1, <3>2, <3>3 DEF Sound, Loaded, Swept, Working, Filling, Mending, Relieved
  <2>3. CASE Candidate(c)
    <3>1. bad \in System /\ Indexed(c, bad)
      <4>1. bad \in Nat
        BY <2>1, PagesAre, Blocks DEF SoundOn
      <4> QED  BY <2>3, <4>1, Blocks DEF Candidate, Indexed
    <3>2. ~IsMapped(bmt, bad)
      BY <3>1, Entries, Blocks DEF SoundOn, IsMapped
    <3>3. bmt' = Append(bmt, e) /\ e \in Entry /\ e.bad_index = bad /\ e.mapped_index = c
      BY <2>1, <2>3, <3>1, <3>2 DEF Recovered, Entry
    <3> HIDE DEF e, bad
    <3>4. /\ bmt' \in Seq(Entry) /\ DOMAIN bmt \subseteq DOMAIN bmt'
          /\ \A j \in DOMAIN bmt' : (j \in DOMAIN bmt /\ bmt'[j] = bmt[j]) \/ bmt'[j] = e
          /\ \A j \in DOMAIN bmt : bmt'[j] = bmt[j]
          /\ \E j \in DOMAIN bmt' : bmt'[j] = e
      BY <1>1, <3>3, Appended
    <3> HIDE DEF c
    <3>5. \A k \in DOMAIN bmt' : Indexed(bmt'[k].mapped_index, bmt'[k].bad_index)
      BY <1>2, <3>1, <3>3, <3>4
    <3>6. \A d \in Pool : d < system_block_count + (i + 1) /\ Candidate(d) => IsMapped(bmt', d)
      <4> SUFFICES ASSUME NEW d \in Pool, d < system_block_count + (i + 1), Candidate(d)
                   PROVE  IsMapped(bmt', d)
        OBVIOUS
      <4>1. CASE d = c
        BY <3>3, <3>4, <4>1 DEF IsMapped
      <4>2. CASE d # c
        <5>1. IsMapped(bmt, d)
          BY <1>2, <2>1, <4>2 DEF c
        <5> QED  BY <3>4, <5>1 DEF IsMapped
      <4> QED  BY <4>1, <4>2
    <3>7. \A x, b : Indexed(x, b)' <=> Indexed(x, b)
      BY <1>1 DEF Indexed
    <3>8. \A x : Candidate(x)' <=> Candidate(x)
      BY <1>1 DEF Candidate
    <3>9. Rebuilding'
      BY <1>1, <1>2, <2>1, <3>5, <3>6, <3>7, <3>8 DEF Rebuilding
    <3>10. Written' /\ Rebuildable'
      BY <1>1, <1>2, <2>1, Still DEF Written, Rebuildable
    <3> QED  BY <1>1, <2>1, <3>9, <3>10 DEF Sound, Loaded, Swept, Working, Filling, Mending, Relieved
  <2> QED  BY <2>2, <2>3
<1>4. CASE ~(i < bmt_block_count)
  <2>1. /\ pc' = "write_bmt" /\ i' = 0 /\ bmt' = bmt
        /\ \A c \in Pool : c < system_block_count + i
    BY <1>1, <1>4, Counts DEF reconstruct_bmt, Pool
  <2>2. \A c \in Pool, b \in System : Indexed(c, b) => c = MapIn(bmt, b) /\ mark[b]
    <3> SUFFICES ASSUME NEW c \in Pool, NEW b \in System, Indexed(c, b)
                 PROVE  c = MapIn(bmt, b) /\ mark[b]
      OBVIOUS
    <3>1. mark[b] /\ \A d \in Pool : Indexed(d, b) => d = c
      BY <1>1, <1>2 DEF Rebuildable
    <3>2. Candidate(c)
      BY <3>1, Blocks DEF Candidate, Indexed
    <3>3. PICK k \in DOMAIN bmt : bmt[k].mapped_index = c
      BY <1>2, <2>1, <3>2 DEF IsMapped
    <3>4. bmt[k].bad_index = b
      BY <1>2, <3>3 DEF Indexed
    <3>5. PICK j \in DOMAIN bmt : bmt[j].bad_index = b /\ bmt[j].mapped_index = MapIn(bmt, b)
      BY <1>1, <3>4, MapInIs
    <3>6. Indexed(MapIn(bmt, b), b) /\ MapIn(bmt, b) \in Pool
      BY <1>2, <3>5, Entries DEF SoundOn
    <3> QED  BY <3>1, <3>6
  <2>3. AllIn(bmt)
    <3> SUFFICES ASSUME NEW b \in System PROVE InPlace(b, MapIn(bmt, b))
      BY DEF AllIn
    <3>1. CASE \E k \in DOMAIN bmt : bmt[k].bad_index = b
      <4>1. PICK j \in DOMAIN bmt : bmt[j].bad_index = b /\ bmt[j].mapped_index = MapIn(bmt, b)
        BY <1>1, <3>1, MapInIs
      <4>2. Indexed(MapIn(bmt, b), b) /\ MapIn(bmt, b) \in Pool
        BY <1>2, <4>1, Entries DEF SoundOn
      <4> QED  BY <1>1, <1>2, <4>2 DEF Rebuildable
    <3>2. CASE ~\E k \in DOMAIN bmt : bmt[k].bad_index = b
      <4>1. MapIn(bmt, b) = b
        BY <1>1, <3>2, MapInIs
      <4>2. \A c \in Pool : ~Indexed(c, b)
        BY <2>2, <4>1, Blocks
      <4>3. IF mark[b] THEN Empty(b) ELSE InPlace(b, b)
        BY <1>1, <1>2, <4>2 DEF Rebuildable
      <4> QED  BY <4>1, <4>3 DEF InPlace, Holds, Empty
    <3> QED  BY <3>1, <3>2
  <2>4. Loaded'
    <3>1. AllIn(bmt)' /\ \A c, b : Indexed(c, b)' <=> Indexed(c, b)
      BY <1>1, <2>1, <2>3, Still
    <3> QED  BY <1>1, <2>1, <2>2, <3>1, Counts DEF Loaded
  <2>5. Written' /\ Swept'
    <3>1. \A c : c \in Erasable' => c \in Nat
      BY Blocks DEF Erasable
    <3> QED  BY <1>1, <1>2, <2>1, <3>1, Still DEF Written, Swept
  <2> QED  BY <1>1, <2>1, <2>4, <2>5 DEF Sound, Rebuildable, Rebuilding, Working, Filling,
                                         Mending, Relieved
<1> QED  BY <1>3, <1>4

LEMMA LoadSound == ASSUME SoundOn, MarkLoaded PROVE Sound'
<1> DEFINE left == {bmt[k].bad_index : k \in {k \in DOMAIN bmt : ~mark[bmt[k].bad_index]}}
<1>1. /\ pc = "load" /\ UNCHANGED <<stored, bmt, bmt_block_index, op, pool_erased>>
      /\ left = {}
  BY DEF MarkLoaded, ram, SoundOn, Sound, Loaded, AllMarked
<1>2. UNCHANGED <<mark, flash>> /\ pc' = "idle"
  BY <1>1 DEF MarkLoaded
<1>3. Loaded'
  <2>1. AllIn(bmt)' /\ \A c, b : Indexed(c, b)' <=> Indexed(c, b)
    BY <1>1, <1>2, Still DEF SoundOn, Sound, Loaded
  <2> QED  BY <1>1, <1>2, <2>1 DEF SoundOn, Sound, Loaded, Full, Relieved
<1>4. Written'
  BY <1>1, <1>2 DEF SoundOn, Sound, Written, HasTable
<1>5. Swept'
  BY <1>1, <1>2 DEF SoundOn, Sound, Swept, Available, IsMapped, Clean, Finding, Relieved
<1> QED  BY <1>1, <1>2, <1>3, <1>4, <1>5 DEF Sound, Rebuildable, Rebuilding, Working, Filling,
                                             Mending, Relieved

\* A block is erased that no access goes to and no table is in.
LEMMA ErasePoolSound == ASSUME SoundOn, AtMostOne, ErasePool PROVE Sound'
<1> DEFINE left == {b \in Erasable : b >= i}
           low == Lowest(left)
           next == /\ i' = low + 1
                   /\ UNCHANGED <<bmt, bmt_block_index, pool_erased, pc, op, to_index>>
<1>1. /\ pc = "find" \/ (pc = "write_bmt" /\ bmt_block_index = 0)
      /\ UNCHANGED stored /\ ~pool_erased /\ bmt \in Seq(Entry) /\ i \in Nat
  BY DEF ErasePool, Finding, SoundOn, IInv, Steps, Memory
<1>2. Loaded /\ Written /\ Swept /\ Working
  BY DEF SoundOn, Sound
<1>3. \A c \in Erasable : c < i => Clean(c)
  BY <1>1, <1>2 DEF Swept, Finding
<1>4. CASE left = {}
  <2>1. /\ UNCHANGED <<mark, flash, bmt, bmt_block_index, pc, op, to_index>>
        /\ pool_erased' = TRUE
    BY <1>4 DEF ErasePool
  <2>2. \A c \in Available : Clean(c)
    <3> SUFFICES ASSUME NEW c \in Available PROVE Clean(c)
      OBVIOUS
    <3>1. bmt_block_index # system_block_count
      BY <1>1, <1>2 DEF Loaded, Full, Available
    <3>2. c \in Erasable
      BY <3>1 DEF Available, Erasable
    <3>3. c \in Nat /\ ~(c >= i)
      BY <1>4, <3>2, Blocks DEF Available
    <3>4. c < i
      BY <1>1, <3>3
    <3> QED  BY <1>3, <3>2, <3>4
  <2>3. Swept'
    BY <1>1, <2>1, <2>2 DEF Swept, Available, IsMapped, Clean
  <2>4. Loaded'
    <3>1. AllIn(bmt)' /\ \A c, d : Indexed(c, d)' <=> Indexed(c, d)
      BY <1>1, <1>2, <2>1, Still DEF Loaded
    <3> QED  BY <1>1, <1>2, <2>1, <3>1 DEF Loaded, Full, Relieved
  <2>5. Written'
    BY <1>1, <1>2, <2>1 DEF Written, HasTable
  <2>6. Working'
    BY <1>1, <1>2, <2>1 DEF Working, Mending, Relieved, Empty
  <2> QED  BY <1>1, <2>1, <2>3, <2>4, <2>5, <2>6 DEF Sound, Rebuildable, Rebuilding, Filling
<1>5. CASE left # {}
  <2>1. left \subseteq Pool /\ left \subseteq Nat
    BY Blocks DEF Erasable
  <2>2. nand_erase(low, next, mark_block_bad(low) /\ next)
    BY <1>5 DEF ErasePool
  <2>3. low \in left /\ \A c \in left : low <= c
    <3> HIDE DEF left
    <3> QED  BY <1>5, <2>1, LowestIs
  <2>4. low \in Pool /\ low \in Block /\ ~mark[low] /\ ~IsMapped(bmt, low)
    <3> HIDE DEF low
    <3> QED  BY <2>1, <2>3, Blocks DEF Erasable
  <2>5. ASSUME NEW c \in Erasable, c < low PROVE c < i
    <3> HIDE DEF low
    <3>1. c \in Nat /\ low \in Nat
      BY <2>4, Blocks DEF Erasable
    <3>2. c \notin left
      BY <2>3, <2>5, <3>1
    <3> QED  BY <1>1, <3>1, <3>2
  <2> HIDE DEF left, low
  <2>6. PICK b \in Pool :
          /\ b \in Block /\ ~mark[b] /\ ~IsMapped(bmt, b) /\ \A c \in Erasable : c < b => c < i
          /\ i' = b + 1 /\ UNCHANGED <<bmt, bmt_block_index, pool_erased, pc, op, to_index>>
          /\ \/ mark' = mark /\ flash' = [flash EXCEPT ![b] = [p \in Page |-> Erased]]
             \/ mark_block_bad(b) /\ fails = 0
    BY <2>2, <2>4, <2>5, OneFailure DEF nand_erase
  <2>7. /\ i' = b + 1 /\ ~pool_erased'
        /\ UNCHANGED <<bmt, bmt_block_index, pc, op, to_index>>
    BY <1>1, <2>6
  <2>8. /\ Touches(b) /\ (flash'[b][0].index = NO_INDEX \/ mark'[b])
        /\ flash'[b][0].kind # "bmt" /\ \A c \in Block : mark[c] => mark'[c]
        /\ ~mark'[b] => Clean(b)'
    <3>1. CASE mark' = mark /\ flash' = [flash EXCEPT ![b] = [p \in Page |-> Erased]]
      <4>1. \A p \in Page : flash'[b][p] = Erased
        BY <2>6, <3>1 DEF SoundOn, IInv, Medium, FlashIs
      <4>2. Touches(b)
        BY <2>6, <3>1 DEF SoundOn, IInv, Medium, FlashIs, Touches
      <4>3. flash'[b][0] = Erased /\ Clean(b)'
        BY <4>1, Blocks DEF Clean
      <4> QED  BY <3>1, <4>2, <4>3, BlankPages
    <3>2. CASE mark_block_bad(b)
      <4>1. /\ Touches(b) /\ flash'[b][0] = Garbage(flash[b][0].index)
            /\ \A c \in Block : mark'[c] <=> mark[c] \/ c = b
        BY <2>6, <3>2, MarkedIs DEF SoundOn
      <4> QED  BY <2>6, <4>1, BlankPages
    <3> QED  BY <2>6, <3>1, <3>2
  <2>9. \A d \in System : MapIn(bmt, d) # b
    BY <2>6, Mapping DEF SoundOn
  <2>10. AllIn(bmt)'
    BY <1>1, <1>2, <2>7, <2>8, <2>9, AllInKept DEF Loaded
  <2>11. \A c \in Pool, d \in System : Indexed(c, d)' => Indexed(c, d)
    <3>1. \A d \in System : d # NO_INDEX
      BY Counts, Blocks DEF NO_INDEX, System
    <3> QED  BY <2>8, <3>1, Blocks DEF Indexed, Touches
  <2>12. Loaded'
    BY <1>1, <1>2, <2>7, <2>8, <2>10, <2>11, Blocks DEF Loaded, Full, Relieved
  <2>13. Written'
    <3>1. \A c \in Pool : HasTable(c)' => HasTable(c) /\ flash'[c] = flash[c]
      BY <2>8, Blocks DEF HasTable, Touches
    <3> QED  BY <1>1, <1>2, <2>7, <3>1 DEF Written
  <2>14. Swept'
    <3> SUFFICES ASSUME NEW c \in Erasable', c < b + 1 PROVE Clean(c)'
      BY <2>7 DEF Swept
    <3>1. c \in Pool /\ ~mark'[c] /\ c \in Erasable
      <4>1. bmt_block_index # system_block_count /\ c \in Pool /\ ~mark'[c] /\ ~IsMapped(bmt, c)
        BY <2>7 DEF Erasable, IsMapped
      <4>2. ~mark[c]
        BY <2>8, <4>1, Blocks
      <4> QED  BY <4>1, <4>2 DEF Erasable
    <3>2. CASE c = b
      BY <2>8, <3>1, <3>2
    <3>3. CASE c # b
      <4>1. Clean(c)
        BY <1>3, <2>6, <3>1, <3>3, Blocks
      <4> QED  BY <2>8, <3>1, <3>3, <4>1, Blocks DEF Clean, Touches
    <3> QED  BY <3>2, <3>3
  <2>15. Working'
    <3>1. op.name = "write" => mark'[op.error_block] = mark[op.error_block]
      <4> SUFFICES ASSUME op.name = "write", mark'[op.error_block] # mark[op.error_block] PROVE FALSE
        OBVIOUS
      <4>1. Pending
        BY <1>1, <1>2 DEF Working, Pending, Mending
      <4>2. mark' = mark
        BY <2>6, <4>1 DEF SoundOn, Costly
      <4> QED  BY <4>2
    <3>2. op.block \in System /\ MapIn(bmt, op.block) \in Block /\ op.error_block \in Block
      BY Entries, Mapping DEF SoundOn
    <3> QED  BY <1>1, <1>2, <2>7, <2>8, <2>9, <3>1, <3>2 DEF Working, Mending, Relieved, Empty, Touches
  <2> QED  BY <1>1, <2>7, <2>12, <2>13, <2>14, <2>15 DEF Sound, Rebuildable, Rebuilding, Filling
<1> QED  BY <1>4, <1>5

LEMMA NothingSound == ASSUME SoundOn, NothingFound PROVE Sound'
<1>1. /\ UNCHANGED <<mark, flash, stored>> /\ Gives_up /\ pool_erased /\ Available = {}
      /\ pc = "find" \/ (pc = "write_bmt" /\ bmt_block_index = 0)
  BY DEF NothingFound, Finding
<1>2. Loaded /\ Written /\ Working
  BY DEF SoundOn, Sound
<1>3. Mending /\ ~mark[op.error_block] => pc = "find"
  BY <1>1 DEF SoundOn, Seated, Pending
<1>4. CASE op.name = "write"
  <2>1. Off
    BY <1>1, <1>4 DEF Gives_up
  <2>2. Mending
    BY <1>1, <1>4 DEF Mending
  <2>3. pc = "find"
    BY <1>2, <1>3, <1>4, <2>2 DEF Working
  <2> QED  BY <1>1, <2>1, <2>3, OffSound
<1>5. CASE op.name # "write"
  <2>1. /\ UNCHANGED <<bmt, bmt_block_index, pool_erased, op, to_index, i>>
        /\ pc' = IF op.name = "erase" THEN "mark_failed" ELSE "idle"
    BY <1>1, <1>5 DEF Gives_up, ram
  <2>2. Loaded'
    <3>1. \A c \in Pool, b \in System : Indexed(c, b) => c = MapIn(bmt, b)
      BY <1>1, <1>2, <1>3 DEF Loaded, Relieved, Mending, Indexed
    <3>2. AllIn(bmt)' /\ \A c, b : Indexed(c, b)' <=> Indexed(c, b)
      BY <1>1, <1>2, <2>1, Still DEF Loaded
    <3> QED  BY <1>1, <1>2, <2>1, <3>1, <3>2 DEF Loaded, Full
  <2>3. Written'
    BY <1>1, <1>2, <2>1, Blocks DEF Written, HasTable
  <2>4. Swept'
    BY <1>1, <2>1 DEF Swept, Available, IsMapped, Finding
  <2>5. Working'
    BY <1>1, <1>2, <1>5, <2>1 DEF Working, Mending, Relieved, Empty
  <2> QED  BY <1>1, <2>1, <2>2, <2>3, <2>4, <2>5 DEF Sound, Rebuildable, Rebuilding, Filling
<1> QED  BY <1>4, <1>5

LEMMA FindSound == ASSUME SoundOn, FindBlock PROVE Sound'
<1>1. /\ UNCHANGED <<mark, flash, stored, bmt, bmt_block_index, op, pool_erased>> /\ pc = "find"
      /\ pc' = (IF op.name = "write" THEN "migrate" ELSE "update") /\ pool_erased
      /\ op.name # "init"
  BY DEF FindBlock, SoundOn, Costly
<1>2. Loaded /\ Written /\ Swept /\ Working
  BY DEF SoundOn, Sound
<1>3. to_index' \in Available
  <2>1. Available # {} /\ Available \subseteq Nat /\ to_index' = Lowest(Available)
    BY Blocks DEF FindBlock, Available
  <2> QED  BY <2>1, LowestIs
<1>4. PICK m \in Pool : /\ m = to_index' /\ ~mark[m] /\ ~IsMapped(bmt, m) /\ Clean(m)
  BY <1>1, <1>2, <1>3 DEF Swept, Available, Relieved
<1>5. Loaded'
  <2>1. AllIn(bmt)' /\ \A c, b : Indexed(c, b)' <=> Indexed(c, b)
    BY <1>1, <1>2, Still DEF Loaded
  <2> QED  BY <1>1, <1>2, <2>1 DEF Loaded, Full, Relieved
<1>6. Written'
  BY <1>1, <1>2 DEF Written, HasTable
<1>7. Swept'
  <2>1. \A c \in Available' : Clean(c)'
    BY <1>1, <1>2 DEF Swept, Available, IsMapped, Clean, Relieved
  <2> QED  BY <1>1, <2>1 DEF Swept
<1>8. Working'
  BY <1>1, <1>2 DEF Working, Mending, Relieved, Empty
<1>9. Filling'
  <2>1. Mending /\ op.block \in System /\ m # op.block
    BY <1>1, Entries, Blocks DEF Mending, SoundOn
  <2>2. op.name # "write" => Holds(op.block, m) /\ Tidy(op.block, m)
    BY <1>2, <1>4, <2>1, Blocks DEF Working, Empty, Holds, Tidy, Clean
  <2> QED  BY <1>1, <1>4, <2>2 DEF Filling, Clean, Holds, Tidy
<1> QED  BY <1>1, <1>5, <1>6, <1>7, <1>8, <1>9 DEF Sound, Rebuildable, Rebuilding

\* A page of the block that a migration fills.
LEMMA FilledStep ==
  ASSUME SoundOn, pc \in {"migrate", "copy"}, pc' = "copy", NEW p \in Page, NEW content \in Content,
         flash[to_index][p] = Erased, content.kind \in {"data", "garbage"},
         flash' = [flash EXCEPT ![to_index][p] = IF @ = Erased THEN content ELSE Garbage(@.index)],
         UNCHANGED <<mark, stored, bmt, bmt_block_index, pool_erased, op, to_index>>
  PROVE  /\ Loaded' /\ Written' /\ Swept' /\ Working'
         /\ flash'[to_index][p] = content /\ Touches(to_index)
         /\ \A q \in Page : q # p => flash'[to_index][q] = flash[to_index][q]
<1>1. PICK m \in Pool : m = to_index /\ ~IsMapped(bmt, m) /\ m # bmt_block_index /\ m \in Block
  BY Blocks DEF SoundOn, IInv, Steps, Target
<1>2. flash' = [flash EXCEPT ![m][p] = content]
  BY <1>1 DEF SoundOn, IInv, Medium, FlashIs
<1>3. /\ flash'[m][p] = content /\ Touches(m)
      /\ \A q \in Page : q # p => flash'[m][q] = flash[m][q]
  BY <1>1, <1>2 DEF SoundOn, IInv, Medium, FlashIs, Touches
<1>4. Loaded /\ Written /\ Swept /\ Working /\ op.name # "init"
  BY DEF SoundOn, Sound, Costly
<1>5. bmt \in Seq(Entry) /\ \A b \in System : MapIn(bmt, b) # m /\ MapIn(bmt, b) \in Block
  BY <1>1, Mapping DEF SoundOn, IInv, Steps, Memory
<1>6. AllIn(bmt)'
  BY <1>3, <1>4, <1>5, AllInKept DEF Loaded
<1>7. \A c \in Pool : \A b : c # m => (Indexed(c, b)' <=> Indexed(c, b))
  BY <1>3, Blocks DEF Touches, Indexed
<1>8. Loaded'
  BY <1>1, <1>4, <1>6, <1>7 DEF Loaded, Full, Relieved
<1>9. Written'
  <2>1. \A c \in Pool : HasTable(c)' => HasTable(c) /\ flash'[c][0] = flash[c][0]
    BY <1>1, <1>3, Blocks DEF HasTable, Touches
  <2> QED  BY <1>4, <2>1 DEF Written
<1>10. Swept'
  <2>1. \A c \in Available' : c = m \/ (c \in Available /\ flash'[c] = flash[c])
    BY <1>3, Blocks DEF Available, IsMapped, Touches
  <2> QED  BY <1>1, <1>4, <2>1 DEF Swept, Finding, Relieved, Clean
<1>11. Working'
  <2>1. op.error_block \in Block /\ op.error_block # m
    BY <1>4, <1>5, Entries DEF Working, SoundOn
  <2>2. flash'[op.error_block] = flash[op.error_block]
    BY <1>3, <2>1 DEF Touches
  <2> QED  BY <1>4, <2>2 DEF Working, Mending, Relieved, Empty
<1> QED  BY <1>1, <1>3, <1>8, <1>9, <1>10, <1>11

\* The index that pages are moved with is that of the block.
LEMMA MovedIndex ==
  ASSUME IInv, NEW b \in System, NEW m, m = MapIn(bmt, b)
  PROVE  IF m < system_block_count THEN m = b ELSE Own(b, m) = b
<1>1. m \in Nat /\ m \in Block /\ (m = b \/ m \in Pool)
  BY Mapping, Blocks
<1>2. m < system_block_count => m = b
  BY <1>1, Blocks
<1>3. ~(m < system_block_count) => m # b
  BY Blocks
<1> QED  BY <1>2, <1>3 DEF Own

LEMMA ErrorPageSound == ASSUME SoundOn, AtMostOne, MigrateErrorPage PROVE Sound'
<1> DEFINE index == IF op.error_block < system_block_count THEN op.error_block ELSE op.spare
           content == Data(op.val, index)
           ok == /\ pc' = "copy" /\ i' = 0
                 /\ UNCHANGED <<bmt, bmt_block_index, pool_erased, op, to_index>>
<1>1. pc = "migrate" /\ op.name = "write" /\ fails # 0 /\ UNCHANGED stored
  BY DEF MigrateErrorPage, SoundOn, Costly
<1>2. /\ op \in Accesses /\ op.error_block \in Block /\ op.block \in System /\ op.error_page \in Page
      /\ to_index \in Pool
  BY <1>1, Entries DEF SoundOn, IInv, Steps, Memory, Accesses, Target
<1>3. op.error_block = MapIn(bmt, op.block) /\ op.spare = Own(op.block, op.error_block)
  BY <1>1 DEF SoundOn, Sound, Working
<1>4. index = op.block
  BY <1>2, <1>3, MovedIndex DEF SoundOn
<1>5. /\ content = Data(op.val, op.block) /\ content \in Content /\ content.kind = "data"
      /\ flash[to_index][op.error_page] = Erased
  <2>1. content = Data(op.val, op.block)
    BY <1>4
  <2>2. op.val \in 0..MaxWrites /\ op.block \in Nat
    BY <1>2, Blocks DEF Accesses
  <2>3. flash[to_index][op.error_page] = Erased
    BY <1>1, <1>2 DEF SoundOn, Sound, Filling, Clean
  <2> HIDE DEF content
  <2> QED  BY <2>1, <2>2, <2>3, KindsOfPage, BlankPages
<1>6. /\ ok /\ UNCHANGED mark
      /\ flash' = [flash EXCEPT ![to_index][op.error_page] =
                     IF @ = Erased THEN content ELSE Garbage(@.index)]
  <2>1. nand_write_page(to_index, op.error_page, content, ok, Retry(to_index, op.error_page))
    BY DEF MigrateErrorPage
  <2> HIDE DEF ok, content
  <2> QED  BY <1>1, <2>1, OneFailure DEF nand_write_page
<1> HIDE DEF index, content
<1>7. /\ Loaded' /\ Written' /\ Swept' /\ Working'
      /\ flash'[to_index][op.error_page] = content /\ Touches(to_index)
      /\ \A q \in Page : q # op.error_page => flash'[to_index][q] = flash[to_index][q]
  BY <1>1, <1>2, <1>5, <1>6, FilledStep
<1>8. Filling'
  <2>1. ~mark[to_index] /\ Clean(to_index)
    BY <1>1 DEF SoundOn, Sound, Filling
  <2>2. \A p \in Page : p # op.error_page => flash'[to_index][p] = Erased
    BY <1>7, <2>1 DEF Clean
  <2>3. \A p \in Page : p >= 0
    BY DEF Page
  <2> QED  BY <1>5, <1>6, <1>7, <2>1, <2>2, <2>3 DEF Filling
<1> QED  BY <1>6, <1>7, <1>8 DEF Sound, Rebuildable, Rebuilding

\* One page more is moved, or the migration is complete.
LEMMA NextPageSound == ASSUME SoundOn, AtMostOne, MigrateNextPage PROVE Sound'
<1> DEFINE left == {p \in Page : p >= i /\ p # op.error_page
                                 /\ flash[op.error_block][p].index # NO_INDEX}
<1>1. pc = "copy" /\ op.name = "write" /\ fails # 0 /\ UNCHANGED stored
  BY DEF MigrateNextPage, SoundOn, Costly
<1>2. /\ op.error_block \in Block /\ op.block \in System /\ op.error_page \in Page
      /\ to_index \in Pool /\ to_index \in Block /\ i \in Nat /\ to_index # op.block
  BY <1>1, Entries, Blocks DEF SoundOn, IInv, Steps, Memory, Accesses, Target
<1>3. /\ op.error_block = MapIn(bmt, op.block)
      /\ stored[op.block][op.error_page] = 0 /\ ~mark[op.error_block]
      /\ flash[op.error_block][op.error_page] # Erased
  BY <1>1 DEF SoundOn, Sound, Working, Mending
<1>4. Holds(op.block, op.error_block) /\ Tidy(op.block, op.error_block)
  BY <1>1, <1>2, <1>3 DEF SoundOn, Sound, Loaded, AllIn, InPlace
<1>5. /\ ~mark[to_index] /\ flash[to_index][op.error_page] = Data(op.val, op.block)
      /\ \A p \in Page : p # op.error_page =>
           flash[to_index][p] = IF flash[op.error_block][p] = Erased \/ p >= i THEN Erased
                                ELSE [flash[op.error_block][p] EXCEPT !.index = op.block]
  BY <1>1 DEF SoundOn, Sound, Filling
\* A page in use has the index of its block.
<1>6. \A p \in Page : flash[op.error_block][p].index # NO_INDEX <=> flash[op.error_block][p] # Erased
  <2>1. Own(op.block, op.error_block) # NO_INDEX
    BY <1>2, Counts DEF Own, FAKE_INDEX, NO_INDEX, System
  <2> QED  BY <1>4, <2>1, BlankPages DEF Tidy
<1>7. CASE left = {}
  <2>1. pc' = "update" /\ UNCHANGED <<mark, flash, bmt, bmt_block_index, pool_erased, op, to_index, i>>
    BY <1>7 DEF MigrateNextPage, ram
  <2>2. Loaded' /\ Written' /\ Swept' /\ Working'
    <3>1. AllIn(bmt)' /\ \A c, b : Indexed(c, b)' <=> Indexed(c, b)
      BY <1>1, <2>1, Still DEF SoundOn, Sound, Loaded
    <3>2. Loaded'
      BY <1>1, <2>1, <3>1 DEF SoundOn, Sound, Loaded, Full, Relieved
    <3>3. Written'
      BY <1>1, <2>1 DEF SoundOn, Sound, Written, HasTable
    <3>4. Swept'
      BY <1>1, <2>1 DEF SoundOn, Sound, Swept, Available, IsMapped, Clean, Finding, Relieved
    <3>5. Working'
      BY <1>1, <2>1 DEF SoundOn, Sound, Working, Mending, Relieved, Empty
    <3> QED  BY <3>2, <3>3, <3>4, <3>5
  <2>3. ASSUME NEW p \in Page, p # op.error_page
        PROVE  flash[to_index][p] = IF flash[op.error_block][p] = Erased THEN Erased
                                    ELSE [flash[op.error_block][p] EXCEPT !.index = op.block]
    <3>1. flash[op.error_block][p] # Erased => ~(p >= i)
      BY <1>6, <1>7, <2>3
    <3> QED  BY <1>5, <2>3, <3>1
  <2>4. ASSUME NEW p \in Page, p # op.error_page, flash[op.error_block][p] # Erased
        PROVE  /\ flash[to_index][p].index = op.block
               /\ flash[to_index][p].kind = flash[op.error_block][p].kind
               /\ flash[to_index][p].val = flash[op.error_block][p].val
    <3>1. PICK from \in Content : from = flash[op.error_block][p]
      BY <1>2, PagesAre DEF SoundOn
    <3>2. flash[to_index][p] = [from EXCEPT !.index = op.block]
      BY <2>3, <2>4, <3>1
    <3> QED  BY <3>1, <3>2 DEF Content
  <2>5. Holds(op.block, to_index)
    <3> SUFFICES ASSUME NEW p \in Page, stored[op.block][p] # 0
                 PROVE  flash[to_index][p].kind = "data" /\ flash[to_index][p].val = stored[op.block][p]
      BY DEF Holds
    <3>1. p # op.error_page /\ flash[op.error_block][p].kind = "data"
          /\ flash[op.error_block][p].val = stored[op.block][p]
      BY <1>3, <1>4 DEF Holds
    <3> QED  BY <2>4, <3>1, BlankPages
  <2>6. Tidy(op.block, to_index)
    <3>1. ASSUME NEW p \in Page
          PROVE  \/ flash[to_index][p] = Erased
                 \/ flash[to_index][p].kind \in {"data", "garbage"} /\ flash[to_index][p].index = op.block
      <4>1. CASE p = op.error_page
        BY <1>5, <4>1 DEF Data
      <4>2. CASE p # op.error_page
        BY <1>4, <2>3, <2>4, <4>2 DEF Tidy
      <4> QED  BY <4>1, <4>2
    <3>2. flash[to_index][0] # Erased
      <4>1. CASE op.error_page = 0
        BY <1>5, <4>1, BlankPages
      <4>2. CASE op.error_page # 0
        <5>1. flash[op.error_block][0] # Erased
          BY <1>2, <1>3, <1>4 DEF Tidy, Clean
        <5>2. flash[to_index][0].index = op.block
          BY <2>4, <4>2, <5>1, Blocks
        <5>3. op.block # NO_INDEX
          BY <1>2, Counts DEF NO_INDEX, System
        <5> QED  BY <5>2, <5>3, BlankPages
      <4> QED  BY <4>1, <4>2
    <3> QED  BY <1>2, <3>1, <3>2 DEF Tidy, Own
  <2>7. flash[to_index][op.error_page].kind = "data" /\ flash[to_index][op.error_page].val = op.val
    BY <1>5, BlankPages
  <2>8. Filling'
    BY <1>1, <1>5, <2>1, <2>5, <2>6, <2>7 DEF Filling, Holds, Tidy, Clean
  <2> QED  BY <2>1, <2>2, <2>8 DEF Sound, Rebuildable, Rebuilding
<1>8. CASE left # {}
  <2> DEFINE p == Lowest(left)
             from == flash[op.error_block][p]
             index == IF op.error_block < system_block_count THEN op.error_block ELSE from.index
             content == [from EXCEPT !.index = index]
             ok == /\ i' = p + 1
                   /\ UNCHANGED <<bmt, bmt_block_index, pool_erased, pc, op, to_index>>
  <2>1. p \in left /\ \A q \in left : p <= q
    <3>1. left \subseteq Nat
      BY DEF Page
    <3> HIDE DEF left
    <3> QED  BY <1>8, <3>1, LowestIs
  <2>2. nand_write_page(to_index, p, content, ok, Retry(to_index, p))
    BY <1>8 DEF MigrateNextPage
  <2> HIDE DEF p
  <2>3. /\ p \in Page /\ p >= i /\ p # op.error_page /\ from # Erased
        /\ from.kind \in {"data", "garbage"} /\ from.index = Own(op.block, op.error_block)
    BY <1>4, <1>6, <2>1 DEF Tidy
  <2>4. /\ content = [from EXCEPT !.index = op.block] /\ content \in Content
        /\ content.kind = from.kind
    <3>1. index = op.block
      <4> HIDE DEF from
      <4> QED  BY <1>2, <1>3, <2>3, MovedIndex DEF SoundOn
    <3>2. from \in Content /\ op.block \in Nat
      BY <1>2, <2>3, PagesAre, Blocks DEF SoundOn
    <3> HIDE DEF index, from
    <3> QED  BY <3>1, <3>2 DEF Content
  <2>5. flash[to_index][p] = Erased
    BY <1>5, <2>3
  <2>6. /\ ok /\ UNCHANGED mark
        /\ flash' = [flash EXCEPT ![to_index][p] = IF @ = Erased THEN content ELSE Garbage(@.index)]
    <3> HIDE DEF ok, content
    <3> QED  BY <1>1, <2>2, OneFailure DEF nand_write_page
  <2>7. PICK r \in Page : r = p
    BY <2>3
  <2>8. PICK c \in Content : c = content
    BY <2>4
  <2>9. /\ Loaded' /\ Written' /\ Swept' /\ Working'
        /\ flash'[to_index][r] = c /\ Touches(to_index)
        /\ \A q \in Page : q # r => flash'[to_index][q] = flash[to_index][q]
    <3>1. c.kind \in {"data", "garbage"} /\ flash[to_index][r] = Erased
      BY <2>3, <2>4, <2>5, <2>7, <2>8
    <3>2. flash' = [flash EXCEPT ![to_index][r] = IF @ = Erased THEN c ELSE Garbage(@.index)]
      BY <2>6, <2>7, <2>8
    <3> QED  BY <1>1, <2>6, <3>1, <3>2, FilledStep
  <2>10. Filling'
    <3> SUFFICES /\ ~mark'[to_index] /\ flash'[to_index][op.error_page] = Data(op.val, op.block)
                 /\ \A q \in Page : q # op.error_page =>
                      flash'[to_index][q] =
                        IF flash'[op.error_block][q] = Erased \/ q >= i' THEN Erased
                        ELSE [flash'[op.error_block][q] EXCEPT !.index = op.block]
      BY <1>1, <2>6 DEF Filling
    <3>1. op.error_block # to_index
      BY <1>1, <1>2, <1>3, Mapping DEF SoundOn, IInv, Steps, Target
    <3>2. flash'[op.error_block] = flash[op.error_block]
      BY <1>2, <2>9, <3>1 DEF Touches
    <3>3. ASSUME NEW q \in Page, q # op.error_page
          PROVE  flash'[to_index][q] = IF flash[op.error_block][q] = Erased \/ q >= r + 1 THEN Erased
                                       ELSE [flash[op.error_block][q] EXCEPT !.index = op.block]
      <4>1. CASE q = r
        <5>1. ~(q >= r + 1)
          BY <4>1 DEF Page
        <5> QED  BY <2>3, <2>4, <2>7, <2>8, <2>9, <4>1, <5>1
      <4>2. CASE q # r
        <5>1. q \in Nat /\ r \in Nat
          BY DEF Page
        <5>2. flash'[to_index][q] = flash[to_index][q]
          BY <2>9, <4>2
        <5>3. q \in left => q >= r
          BY <2>1, <2>7
        <5>4. flash[op.error_block][q] # Erased => (q >= i <=> q >= r + 1)
          <6>1. flash[op.error_block][q] # Erased /\ q >= i => q >= r
            BY <1>6, <3>3, <5>3
          <6>2. r >= i
            BY <2>3, <2>7
          <6> QED  BY <1>2, <4>2, <5>1, <6>1, <6>2
        <5> QED  BY <1>5, <3>3, <5>2, <5>4
      <4> QED  BY <4>1, <4>2
    <3>4. flash'[to_index][op.error_page] = flash[to_index][op.error_page]
      BY <1>2, <2>3, <2>7, <2>9
    <3>5. i' = r + 1
      BY <2>6, <2>7
    <3> QED  BY <1>5, <2>6, <3>2, <3>3, <3>4, <3>5
  <2> QED  BY <1>1, <2>6, <2>9, <2>10 DEF Sound, Rebuildable, Rebuilding
<1> QED  BY <1>7, <1>8

LEMMA SameFirst ==
  ASSUME NEW t \in Seq(Entry), NEW r \in Seq(Entry), NEW b, DOMAIN t \subseteq DOMAIN r,
         \A j \in DOMAIN t : r[j].bad_index = t[j].bad_index,
         \E k \in DOMAIN t : t[k].bad_index = b
  PROVE  FirstEntry(r, "bad_index", b) = FirstEntry(t, "bad_index", b)
<1>1. PICK k \in DOMAIN t : /\ k = FirstEntry(t, "bad_index", b) /\ t[k].bad_index = b
                            /\ \A j \in 1..(k - 1) : t[j].bad_index # b
  BY FirstIs
<1>2. PICK x \in DOMAIN r : /\ x = FirstEntry(r, "bad_index", b) /\ r[x].bad_index = b
                            /\ \A j \in 1..(x - 1) : r[j].bad_index # b
  <2>1. \E j \in DOMAIN r : r[j].bad_index = b
    OBVIOUS
  <2> QED  BY <2>1, FirstIs
<1>3. k \in Nat /\ x \in Nat /\ k >= 1 /\ x >= 1 /\ (x < k => x \in DOMAIN t)
  OBVIOUS
<1>4. ~(x < k)
  BY <1>1, <1>2, <1>3
<1>5. ~(k < x)
  BY <1>1, <1>2, <1>3
<1> QED  BY <1>1, <1>2, <1>3, <1>4, <1>5

\* update_bmt redirects the block of the access, and no other.
LEMMA UpdatedMap ==
  ASSUME IInv, UpdateTable, op.error_block = MapIn(bmt, op.block)
  PROVE  /\ \A b \in System :
              MapIn(bmt', b) = IF b = op.block THEN to_index ELSE MapIn(bmt, b)
         /\ \A c : IsMapped(bmt', c) <=> c = to_index \/ (IsMapped(bmt, c) /\ c # op.error_block)
<1> DEFINE o == op.block
           m == to_index
           e == op.error_block
           at == FirstEntry(bmt, "mapped_index", e)
           entry == [bad_index |-> e, mapped_index |-> m]
<1>1. /\ bmt \in Seq(Entry) /\ m \in Pool /\ ~IsMapped(bmt, m) /\ o \in System /\ e \in Block
  BY Entries DEF UpdateTable, IInv, Steps, Memory, Target
<1>2. \/ e = o /\ e < system_block_count /\ \A k \in DOMAIN bmt : bmt[k].bad_index # o
      \/ /\ e \in Pool /\ ~(e < system_block_count)
         /\ \E k \in DOMAIN bmt : bmt[k].bad_index = o /\ bmt[k].mapped_index = e
  <2>1. \/ e = o /\ \A k \in DOMAIN bmt : bmt[k].bad_index # o
        \/ e \in Pool /\ \E k \in DOMAIN bmt : bmt[k].bad_index = o /\ bmt[k].mapped_index = e
    BY <1>1, Mapping
  <2> QED  BY <1>1, <2>1, Blocks
<1>3. CASE e = o /\ e < system_block_count /\ \A k \in DOMAIN bmt : bmt[k].bad_index # o
  <2>1. bmt' = Append(bmt, entry)
    BY <1>3 DEF UpdateTable
  <2>2. entry \in Entry /\ entry.bad_index = o /\ entry.mapped_index = m
    BY <1>1, <1>3 DEF Entry
  <2> HIDE DEF entry
  <2>3. /\ bmt' \in Seq(Entry) /\ DOMAIN bmt \subseteq DOMAIN bmt'
        /\ \A j \in DOMAIN bmt' : \/ j \in DOMAIN bmt /\ bmt'[j] = bmt[j]
                                  \/ j \notin DOMAIN bmt /\ bmt'[j] = entry
        /\ \E j \in DOMAIN bmt' : bmt'[j] = entry
    BY <1>1, <2>1, <2>2, Appended
  <2>4. ASSUME NEW b \in System
        PROVE  MapIn(bmt', b) = IF b = o THEN m ELSE MapIn(bmt, b)
    <3>1. CASE b = o
      <4>1. PICK k \in DOMAIN bmt' : bmt'[k].bad_index = o /\ bmt'[k].mapped_index = MapIn(bmt', b)
        BY <2>2, <2>3, <3>1, MapInIs
      <4> QED  BY <1>3, <2>2, <2>3, <3>1, <4>1
    <3>2. CASE b # o /\ \E k \in DOMAIN bmt : bmt[k].bad_index = b
      <4>1. PICK k \in DOMAIN bmt : k = FirstEntry(bmt, "bad_index", b)
        BY <1>1, <3>2, FirstIs
      <4>2. bmt'[k] = bmt[k]
        BY <2>3
      <4>3. FirstEntry(bmt', "bad_index", b) = k
        BY <1>1, <2>3, <3>2, <4>1, SameFirst
      <4>4. \E j \in DOMAIN bmt' : bmt'[j].bad_index = b
        BY <2>3, <3>2
      <4> QED  BY <3>2, <4>1, <4>2, <4>3, <4>4 DEF MapIn
    <3>3. CASE b # o /\ ~\E k \in DOMAIN bmt : bmt[k].bad_index = b
      BY <2>2, <2>3, <3>3 DEF MapIn
    <3> QED  BY <3>1, <3>2, <3>3
  <2>5. \A c : IsMapped(bmt', c) <=> c = m \/ (IsMapped(bmt, c) /\ c # e)
    <3>1. ~IsMapped(bmt, e)
      BY <1>1, <1>3, Entries, Blocks DEF IsMapped
    <3> QED  BY <2>2, <2>3, <3>1 DEF IsMapped
  <2> QED  BY <2>4, <2>5
<1>4. CASE /\ e \in Pool /\ ~(e < system_block_count)
           /\ \E k \in DOMAIN bmt : bmt[k].bad_index = o /\ bmt[k].mapped_index = e
  <2>1. PICK k \in DOMAIN bmt : bmt[k].bad_index = o /\ bmt[k].mapped_index = e
    BY <1>4
  <2>2. \A j \in DOMAIN bmt : bmt[j].mapped_index = e => j = k
    BY <2>1 DEF IInv, Steps, Disjoint
  <2>3. at = k
    <3>1. \A j \in 1..(k - 1) : bmt[j].mapped_index # e
      <4>1. \A j \in 1..(k - 1) : j \in DOMAIN bmt /\ j # k
        BY <1>1
      <4> QED  BY <2>2, <4>1
    <3> QED  BY <2>1, <2>2, <3>1 DEF FirstEntry
  <2>4. bmt' = Moved(bmt, k, m)
    BY <1>4, <2>1, <2>3 DEF UpdateTable, Moved, IsMapped
  <2>5. /\ bmt' \in Seq(Entry) /\ DOMAIN bmt' = DOMAIN bmt
        /\ \A j \in DOMAIN bmt : /\ bmt'[j].mapped_index = IF j = k THEN m ELSE bmt[j].mapped_index
                                 /\ bmt'[j].bad_index = bmt[j].bad_index
    BY <1>1, <2>4, Replaced
  <2>6. ASSUME NEW b \in System
        PROVE  MapIn(bmt', b) = IF b = o THEN m ELSE MapIn(bmt, b)
    <3>1. CASE \E j \in DOMAIN bmt : bmt[j].bad_index = b
      <4>1. PICK j \in DOMAIN bmt : j = FirstEntry(bmt, "bad_index", b) /\ bmt[j].bad_index = b
        BY <1>1, <3>1, FirstIs
      <4>2. FirstEntry(bmt', "bad_index", b) = j
        BY <1>1, <2>5, <3>1, <4>1, SameFirst
      <4>3. MapIn(bmt, b) = bmt[j].mapped_index /\ MapIn(bmt', b) = bmt'[j].mapped_index
        BY <2>5, <4>1, <4>2 DEF MapIn
      <4>4. b = o => j = k
        BY <2>2, <4>3
      <4>5. b # o => j # k
        BY <2>1, <4>1
      <4> QED  BY <2>5, <4>3, <4>4, <4>5
    <3>2. CASE ~\E j \in DOMAIN bmt : bmt[j].bad_index = b
      BY <2>1, <2>5, <3>2 DEF MapIn
    <3> QED  BY <3>1, <3>2
  <2>7. \A c : IsMapped(bmt', c) <=> c = m \/ (IsMapped(bmt, c) /\ c # e)
    BY <2>1, <2>2, <2>5 DEF IsMapped
  <2> QED  BY <2>6, <2>7
<1> QED  BY <1>2, <1>3, <1>4

LEMMA UpdateSound == ASSUME SoundOn, UpdateTable PROVE Sound'
<1>1. /\ pc = "update" /\ pc' = "write_bmt" /\ op.name # "init" /\ bmt_block_index # 0
      /\ UNCHANGED <<mark, flash, bmt_block_index, pool_erased, op, to_index, stored>>
  BY DEF UpdateTable, SoundOn, Costly, Seated
<1>2. PICK m \in Pool : m = to_index /\ ~IsMapped(bmt, m) /\ m # bmt_block_index /\ ~mark[m]
  BY <1>1 DEF SoundOn, IInv, Steps, Target, Sound, Filling
<1>3. PICK o \in System, e \in Block : o = op.block /\ e = op.error_block /\ e = MapIn(bmt, o)
  BY <1>1, Entries DEF SoundOn, Sound, Working
<1>4. /\ \A b \in System : MapIn(bmt', b) = IF b = o THEN m ELSE MapIn(bmt, b)
      /\ \A c : IsMapped(bmt', c) <=> c = m \/ (IsMapped(bmt, c) /\ c # e)
  BY <1>2, <1>3, UpdatedMap DEF SoundOn
<1>5. /\ Loaded /\ Written /\ Swept /\ Working
      /\ Holds(o, m) /\ Tidy(o, m) /\ m # o /\ m \in Block
  BY <1>1, <1>2, <1>3, Blocks DEF SoundOn, Sound, Filling
<1>6. \A b \in System : MapIn(bmt', b) # e
  <2>1. m # e
    BY <1>2, <1>3, Mapping DEF SoundOn
  <2>2. \A b \in System : b # o => MapIn(bmt, b) # e
    BY <1>3, Mapping DEF SoundOn
  <2> QED  BY <1>4, <2>1, <2>2
<1>7. AllIn(bmt')
  <2>1. ASSUME NEW b \in System PROVE InPlace(b, MapIn(bmt', b))
    BY <1>1, <1>2, <1>4, <1>5 DEF Loaded, AllIn, InPlace
  <2> QED  BY <2>1 DEF AllIn
<1>8. ASSUME NEW c \in Pool, NEW b \in System, Indexed(c, b), c # MapIn(bmt', b)
      PROVE  c = e
  <2>1. CASE c = MapIn(bmt, b)
    BY <1>3, <1>4, <1>8, <2>1
  <2>2. CASE c # MapIn(bmt, b)
    <3>1. c = m
      BY <1>1, <1>2, <1>5, <1>8, <2>2 DEF Loaded, Relieved
    <3>2. flash[m][0].index \in {NO_INDEX, o}
      BY <1>5, BlankPages, Blocks DEF Tidy, Own
    <3>3. b # NO_INDEX
      BY Counts DEF NO_INDEX, System
    <3> QED  BY <1>4, <1>8, <3>1, <3>2, <3>3 DEF Indexed
  <2> QED  BY <2>1, <2>2
<1>9. Loaded'
  <2>1. bmt_block_index # system_block_count
    BY <1>1, <1>2, <1>5 DEF Loaded, Full
  <2>2. \A c, b : Indexed(c, b)' <=> Indexed(c, b)
    BY <1>1 DEF Indexed
  <2>3. \A c \in Pool, b \in System : Indexed(c, b)' => c = MapIn(bmt', b) \/ c = e
    BY <1>8, <2>2
  <2>4. \A t : AllIn(t) => AllIn(t)'
    BY <1>1, Still
  <2> QED  BY <1>1, <1>3, <1>7, <2>1, <2>3, <2>4 DEF Loaded, AllIn, Relieved
<1>10. Written'
  BY <1>1, <1>5 DEF Written, HasTable
<1>11. Swept'
  <2>1. \A c \in Available' : (c \in Available /\ c # m) \/ c = e
    BY <1>1, <1>4 DEF Available
  <2> QED  BY <1>1, <1>2, <1>3, <1>5, <2>1 DEF Swept, Relieved, Finding, Clean
<1>12. Working'
  <2>1. op.name = "write" => /\ flash[m][op.error_page].kind = "data"
                             /\ flash[m][op.error_page].val = op.val
    BY <1>1, <1>2 DEF SoundOn, Sound, Filling
  <2>2. MapIn(bmt', o) = m
    BY <1>4
  <2> QED  BY <1>1, <1>2, <1>3, <1>5, <1>6, <2>1, <2>2 DEF Working, Mending, Relieved, Empty
<1> QED  BY <1>1, <1>9, <1>10, <1>11, <1>12 DEF Sound, Rebuildable, Rebuilding, Filling

\* The block of the table is written or erased, which no access goes to.
LEMMA TableStep ==
  ASSUME SoundOn, pc \in {"write_bmt", "program_bmt"}, NEW x \in Pool, x = bmt_block_index,
         Touches(x), UNCHANGED <<stored, bmt, op>>, mark[x] => mark'[x],
         \A b \in System : Indexed(x, b)' => Indexed(x, b)
  PROVE  /\ AllIn(bmt)' /\ x \in Block /\ \A b \in System : MapIn(bmt, b) # x /\ MapIn(bmt, b) \in Block
         /\ \A c \in Pool, b \in System : Indexed(c, b)' => Indexed(c, b)
         /\ \A c \in Pool : HasTable(c)' => c = x
         /\ \A c \in Pool : mark[c] => mark'[c]
         /\ \A c \in Block : c # x => flash'[c] = flash[c] /\ mark'[c] = mark[c]
<1>1. x \in Block /\ x # 0 /\ bmt \in Seq(Entry)
  BY Blocks DEF SoundOn, IInv, Steps, Memory
<1>2. \A b \in System : MapIn(bmt, b) # x /\ MapIn(bmt, b) \in Block
  BY <1>1, Mapping DEF SoundOn
<1>3. AllIn(bmt)'
  BY <1>1, <1>2, AllInKept DEF SoundOn, Sound, Loaded
<1>4. \A c \in Block : c # x => flash'[c] = flash[c] /\ mark'[c] = mark[c]
  BY DEF Touches
<1>5. \A c \in Pool, b \in System : Indexed(c, b)' => Indexed(c, b)
  BY <1>4, Blocks DEF Indexed
<1>6. \A c \in Pool : HasTable(c)' => c = x
  <2>1. \A c \in Pool : HasTable(c) => c = x
    BY DEF SoundOn, Sound, Written
  <2> QED  BY <1>4, <2>1, Blocks DEF HasTable
<1>7. \A c \in Pool : mark[c] => mark'[c]
  BY <1>4, Blocks
<1> QED  BY <1>1, <1>2, <1>3, <1>4, <1>5, <1>6, <1>7

\* The block of the table failed: another takes the same table.
LEMMA AnotherSound ==
  ASSUME SoundOn, AnotherBlock, pc \in {"write_bmt", "program_bmt"}, bmt_block_index \in Pool,
         fails = 0 \/ mark[bmt_block_index], UNCHANGED stored
  PROVE  Sound'
<1>1. PICK x \in Pool : x = bmt_block_index /\ x \in Block /\ x # 0
  BY Blocks
<1>2. /\ mark_block_bad(x) /\ bmt_block_index' = 0 /\ pc' = "write_bmt" /\ i' = 0
      /\ UNCHANGED <<bmt, pool_erased, op, to_index>>
  BY <1>1 DEF AnotherBlock
<1>3. /\ Touches(x) /\ flash'[x][0] = Garbage(flash[x][0].index)
      /\ \A c \in Block : mark'[c] <=> mark[c] \/ c = x
  BY <1>1, <1>2, MarkedIs DEF SoundOn
<1>4. Loaded /\ Written /\ Swept /\ Working
  BY DEF SoundOn, Sound
<1>5. mark'[x] /\ \A b : ~Indexed(x, b)' /\ ~HasTable(x)'
  BY <1>1, <1>3 DEF Indexed, HasTable
<1>6. /\ AllIn(bmt)' /\ \A b \in System : MapIn(bmt, b) # x /\ MapIn(bmt, b) \in Block
      /\ \A c \in Pool, b \in System : Indexed(c, b)' => Indexed(c, b)
      /\ \A c \in Pool : HasTable(c)' => c = x
      /\ \A c \in Block : c # x => flash'[c] = flash[c] /\ mark'[c] = mark[c]
  BY <1>1, <1>2, <1>3, <1>5, TableStep
<1>7. op.name # "init" => op.name # "write"
  <2> SUFFICES ASSUME op.name = "write" PROVE FALSE
    OBVIOUS
  <2>1. Pending
    BY <1>4 DEF Working, Pending, Mending
  <2> QED  BY <1>1, <2>1 DEF SoundOn, Costly, Seated
<1>8. Loaded'
  BY <1>2, <1>4, <1>6, Counts DEF Loaded, Relieved
<1>9. Written'
  BY <1>5, <1>6 DEF Written
<1>10. Swept'
  <2>1. \A c \in Available' : c \in Available /\ flash'[c] = flash[c]
    BY <1>1, <1>2, <1>3, <1>6, Blocks DEF Available, IsMapped
  <2>2. \A c \in Erasable' : ~(c < 0)
    <3>1. \A c \in Erasable' : c \in Nat
      BY Blocks DEF Erasable
    <3> QED  BY <3>1
  <2> QED  BY <1>2, <1>4, <2>1, <2>2 DEF Swept, Relieved, Clean
<1>11. Working'
  BY <1>2, <1>4, <1>7 DEF Working, Mending, Relieved, Empty
<1> QED  BY <1>2, <1>8, <1>9, <1>10, <1>11 DEF Sound, Rebuildable, Rebuilding, Filling

LEMMA EraseTableSound == ASSUME SoundOn, AtMostOne, EraseTable PROVE Sound'
<1> DEFINE ok == pc' = "program_bmt" /\ UNCHANGED ram
<1>1. PICK x \in Pool : x = bmt_block_index /\ x \in Block /\ x # 0
  BY Entries DEF EraseTable, SoundOn
<1>2. pc = "write_bmt" /\ UNCHANGED stored /\ nand_erase(x, ok, AnotherBlock)
  BY <1>1 DEF EraseTable
<1>3. \/ ok /\ mark' = mark /\ flash' = [flash EXCEPT ![x] = [p \in Page |-> Erased]]
      \/ AnotherBlock /\ (fails = 0 \/ mark[x])
  <2> HIDE DEF ok
  <2> QED  BY <1>2, OneFailure DEF nand_erase
<1>4. CASE AnotherBlock /\ (fails = 0 \/ mark[x])
  BY <1>1, <1>2, <1>4, AnotherSound
<1>5. CASE ok /\ mark' = mark /\ flash' = [flash EXCEPT ![x] = [p \in Page |-> Erased]]
  <2>1. Touches(x) /\ flash'[x][0] = Erased
    BY <1>1, <1>5, Blocks DEF Touches, SoundOn, IInv, Medium, FlashIs
  <2>2. UNCHANGED <<bmt, bmt_block_index, pool_erased, op, to_index>> /\ pc' = "program_bmt"
    BY <1>5 DEF ram
  <2>3. (\A b \in System : ~Indexed(x, b)') /\ ~HasTable(x)'
    <3>1. \A b \in System : b # NO_INDEX
      BY Counts DEF NO_INDEX, System
    <3> QED  BY <2>1, <3>1, BlankPages DEF Indexed, HasTable
  <2>4. /\ AllIn(bmt)' /\ \A b \in System : MapIn(bmt, b) # x /\ MapIn(bmt, b) \in Block
        /\ \A c \in Pool, b \in System : Indexed(c, b)' => Indexed(c, b)
        /\ \A c \in Pool : HasTable(c)' => c = x
        /\ \A c \in Block : c # x => flash'[c] = flash[c] /\ mark'[c] = mark[c]
    BY <1>1, <1>2, <1>5, <2>1, <2>2, <2>3, TableStep
  <2>5. Loaded /\ Swept /\ Working
    BY DEF SoundOn, Sound
  <2>6. Loaded'
    BY <1>2, <1>5, <2>2, <2>4, <2>5 DEF Loaded, Full, Relieved
  <2>7. Written'
    BY <2>3, <2>4 DEF Written
  <2>8. Swept'
    <3>1. \A c \in Available' : c \in Available /\ flash'[c] = flash[c]
      BY <1>1, <1>5, <2>2, <2>4, Blocks DEF Available, IsMapped
    <3> QED  BY <1>2, <2>2, <2>5, <3>1 DEF Swept, Relieved, Clean, Finding
  <2>9. Working'
    <3>1. op.block \in System
      BY Entries DEF SoundOn
    <3> QED  BY <1>2, <1>5, <2>2, <2>4, <2>5, <3>1 DEF Working, Mending, Relieved, Empty
  <2> QED  BY <2>2, <2>6, <2>7, <2>8, <2>9 DEF Sound, Rebuildable, Rebuilding, Filling
<1> QED  BY <1>3, <1>4, <1>5

LEMMA FindTableSound == ASSUME SoundOn, FindTableBlock PROVE Sound'
<1>1. /\ pc = "write_bmt" /\ pc' = "program_bmt" /\ bmt_block_index = 0 /\ Available # {}
      /\ bmt_block_index' = Highest(Available)
      /\ UNCHANGED <<mark, flash, bmt, pool_erased, op, to_index, stored>> /\ pool_erased
  BY DEF FindTableBlock
<1>2. Loaded /\ Written /\ Swept /\ Working
  BY DEF SoundOn, Sound
<1>3. /\ Highest(Available) \in Available
      /\ \A c \in Available : c <= Highest(Available)
  BY <1>1, HighestIs, Blocks DEF Available
<1>4. Loaded'
  <2>1. AllIn(bmt)' /\ \A c, b : Indexed(c, b)' <=> Indexed(c, b)
    BY <1>1, <1>2, Still DEF Loaded
  <2>2. Highest(Available) = system_block_count => Full(bmt, system_block_count)
    <3> SUFFICES ASSUME Highest(Available) = system_block_count, NEW d \in Pool,
                        d # system_block_count
                 PROVE  mark[d] \/ IsMapped(bmt, d)
      BY DEF Full
    <3>1. ~(d <= system_block_count) /\ d # 0
      BY Counts DEF Pool
    <3> QED  BY <1>1, <1>3, <3>1 DEF Available
  <2> QED  BY <1>1, <1>2, <2>1, <2>2 DEF Loaded, Full, Relieved
<1>5. Written'
  BY <1>1, <1>2, Blocks DEF Written, HasTable
<1>6. Swept'
  <2>1. \A c \in Available' : c \in Available
    BY <1>1, Blocks DEF Available, IsMapped
  <2> QED  BY <1>1, <1>2, <2>1 DEF Swept, Relieved, Clean, Finding
<1>7. Working'
  BY <1>1, <1>2 DEF Working, Mending, Relieved, Empty
<1> QED  BY <1>1, <1>4, <1>5, <1>6, <1>7 DEF Sound, Rebuildable, Rebuilding, Filling

LEMMA ProgramTableSound == ASSUME SoundOn, AtMostOne, ProgramTable PROVE Sound'
<1> DEFINE ok == pc' = (IF op.name = "init" THEN "idle" ELSE "mark_bad") /\ UNCHANGED ram
<1>1. PICK x \in Pool : x = bmt_block_index /\ x \in Block /\ x # 0
  BY Blocks DEF ProgramTable, SoundOn, IInv, Steps, Tabled
<1>2. pc = "program_bmt" /\ UNCHANGED stored /\ nand_write_page(x, 0, Table(bmt), ok, AnotherBlock)
  BY <1>1 DEF ProgramTable
<1>3. \/ /\ ok /\ mark' = mark
         /\ flash' = [flash EXCEPT ![x][0] = IF @ = Erased THEN Table(bmt) ELSE Garbage(@.index)]
      \/ AnotherBlock /\ fails = 0
  <2> HIDE DEF ok
  <2> QED  BY <1>2, OneFailure DEF nand_write_page
<1>4. CASE AnotherBlock /\ fails = 0
  BY <1>1, <1>2, <1>4, AnotherSound
<1>5. CASE /\ ok /\ mark' = mark
           /\ flash' = [flash EXCEPT ![x][0] = IF @ = Erased THEN Table(bmt) ELSE Garbage(@.index)]
  <2>1. PICK c : /\ c = IF flash[x][0] = Erased THEN Table(bmt) ELSE Garbage(flash[x][0].index)
                 /\ flash' = [flash EXCEPT ![x][0] = c]
    BY <1>1, <1>5, Blocks DEF SoundOn, IInv, Medium, FlashIs
  <2>2. Touches(x) /\ flash'[x][0] = c
    BY <1>1, <1>5, <2>1, Blocks DEF Touches, SoundOn, IInv, Medium, FlashIs
  <2>3. /\ UNCHANGED <<bmt, bmt_block_index, pool_erased, op, to_index>>
        /\ pc' = IF op.name = "init" THEN "idle" ELSE "mark_bad"
    BY <1>5 DEF ram
  <2>4. c.index = flash[x][0].index /\ (c.kind = "bmt" => c.table = bmt)
    BY <2>1, BlankPages
  <2>5. \A b \in System : Indexed(x, b)' => Indexed(x, b)
    BY <1>5, <2>2, <2>4 DEF Indexed
  <2>6. /\ AllIn(bmt)' /\ \A b \in System : MapIn(bmt, b) # x /\ MapIn(bmt, b) \in Block
        /\ \A d \in Pool, b \in System : Indexed(d, b)' => Indexed(d, b)
        /\ \A d \in Pool : HasTable(d)' => d = x
        /\ \A d \in Block : d # x => flash'[d] = flash[d] /\ mark'[d] = mark[d]
    BY <1>1, <1>2, <1>5, <2>2, <2>3, <2>5, TableStep
  <2>7. Loaded /\ Swept /\ Working
    BY DEF SoundOn, Sound
  <2>8. Loaded'
    BY <1>2, <1>5, <2>3, <2>6, <2>7 DEF Loaded, Full, Relieved
  <2>9. Written'
    BY <1>1, <2>2, <2>3, <2>4, <2>6 DEF Written, HasTable
  <2>10. Swept'
    <3>1. \A d \in Available' : d \in Available /\ flash'[d] = flash[d]
      BY <1>1, <1>5, <2>3, <2>6, Blocks DEF Available, IsMapped
    <3> QED  BY <1>2, <2>3, <2>7, <3>1 DEF Swept, Relieved, Clean, Finding
  <2>11. Working'
    <3>1. op.block \in System
      BY Entries DEF SoundOn
    <3> QED  BY <1>2, <1>5, <2>3, <2>6, <2>7, <3>1 DEF Working, Mending, Relieved, Empty
  <2> QED  BY <2>3, <2>8, <2>9, <2>10, <2>11 DEF Sound, Rebuildable, Rebuilding, Filling
<1> QED  BY <1>3, <1>4, <1>5

\* A block is marked that nothing is stored in, or no longer.
LEMMA GivenUp ==
  ASSUME SoundOn, pc \in {"mark_bad", "mark_failed"}, pc' = "idle", NEW x \in Block,
         mark_block_bad(x), UNCHANGED ram, AllIn(bmt)',
         pc = "mark_bad" => x = op.error_block
  PROVE  Sound'
<1>1. /\ Touches(x) /\ flash'[x][0] = Garbage(flash[x][0].index)
      /\ \A c \in Block : mark'[c] <=> mark[c] \/ c = x
  BY MarkedIs DEF SoundOn
<1>2. /\ UNCHANGED <<bmt, bmt_block_index, pool_erased, op, to_index>>
      /\ Loaded /\ Written /\ Swept /\ Working
  BY DEF ram, SoundOn, Sound
<1>3. \A c \in Block : c # x => flash'[c] = flash[c] /\ mark'[c] = mark[c]
  BY <1>1 DEF Touches
<1>4. Loaded'
  <2>1. \A c \in Pool, b \in System : Indexed(c, b)' => Indexed(c, b) /\ c # x
    BY <1>1, <1>3, Blocks DEF Indexed
  <2>2. \A c \in Pool : mark[c] => mark'[c]
    BY <1>1, Blocks
  <2> QED  BY <1>2, <2>1, <2>2 DEF Loaded, Full, Relieved
<1>5. Written'
  <2>1. \A c \in Pool : HasTable(c)' => HasTable(c) /\ flash'[c] = flash[c]
    BY <1>1, <1>3, Blocks DEF HasTable
  <2> QED  BY <1>2, <2>1 DEF Written
<1>6. Swept'
  <2>1. \A c \in Available' : c \in Available /\ c # x /\ flash'[c] = flash[c]
    BY <1>1, <1>2, <1>3, Blocks DEF Available, IsMapped
  <2> QED  BY <1>2, <2>1 DEF Swept, Relieved, Clean, Finding
<1> QED  BY <1>4, <1>5, <1>6 DEF Sound, Rebuildable, Rebuilding, Filling, Working, Mending, Relieved

LEMMA MarkBadSound == ASSUME SoundOn, MarkBad PROVE Sound'
<1>1. PICK x \in Block : x = op.error_block
  BY Entries DEF SoundOn
<1>2. /\ pc = "mark_bad" /\ pc' = "idle" /\ mark_block_bad(x) /\ UNCHANGED ram
      /\ op.block \in System /\ op.error_page \in Page
  BY <1>1, Entries DEF MarkBad, SoundOn, IInv, Steps, Memory, Accesses
<1>3. Relieved /\ Mending
  BY <1>2 DEF SoundOn, IInv, Steps, Tabled, Relieved, Mending
<1>4. Touches(x) /\ \A c \in Block : mark'[c] <=> mark[c] \/ c = x
  BY <1>2, MarkedIs DEF SoundOn
<1>5. AllIn(bmt)'
  <2>1. ASSUME NEW b \in System, NEW m, m = MapIn(bmt, b) PROVE InPlace(b, m)'
    <3>1. /\ m \in Block /\ m # x /\ InPlace(b, m)
          /\ flash'[m] = flash[m] /\ mark'[m] = mark[m]
      BY <1>1, <1>3, <1>4, <2>1, Mapping DEF SoundOn, Sound, Loaded, Working, AllIn, Touches, Relieved
    <3>2. CASE stored'[b] = stored[b]
      BY <3>1, <3>2, InPlaceKept
    <3>3. CASE op.name = "write" /\ b = op.block
                  /\ stored' = [stored EXCEPT ![op.block][op.error_page] = op.val]
      <4>1. ~mark[m] /\ flash[m][op.error_page].kind = "data" /\ flash[m][op.error_page].val = op.val
        BY <1>3, <2>1, <3>3 DEF SoundOn, Sound, Working
      <4>2. \A p \in Page : stored'[b][p] = IF p = op.error_page THEN op.val ELSE stored[b][p]
        BY <1>2, <3>3 DEF SoundOn, IInv, Medium
      <4>3. Holds(b, m)'
        BY <3>1, <4>1, <4>2 DEF InPlace, Holds
      <4> QED  BY <3>1, <4>1, <4>3 DEF InPlace, Tidy, Clean
    <3>4. \/ stored'[b] = stored[b]
          \/ /\ op.name = "write" /\ b = op.block
             /\ stored' = [stored EXCEPT ![op.block][op.error_page] = op.val]
      BY <1>2 DEF MarkBad, Acknowledge, SoundOn, IInv, Medium
    <3> QED  BY <3>2, <3>3, <3>4
  <2>2. \A b \in System : \A m : m = MapIn(bmt, b) => InPlace(b, m)'
    BY <2>1
  <2>3. UNCHANGED bmt
    BY <1>2 DEF ram
  <2> QED  BY <2>2, <2>3, AllInNext DEF AllIn
<1> QED  BY <1>1, <1>2, <1>5, GivenUp

LEMMA MarkFailedSound == ASSUME SoundOn, MarkFailed PROVE Sound'
<1>1. PICK o \in System, x \in Block : o = op.block /\ x = MapIn(bmt, o)
                                       /\ x = get_mapping_block_index(op.block)
  BY Entries, Mapping DEF SoundOn
<1>2. pc = "mark_failed" /\ pc' = "idle" /\ mark_block_bad(x) /\ UNCHANGED <<ram, stored>>
  BY <1>1 DEF MarkFailed
<1>3. Touches(x) /\ flash'[x][0] = Garbage(flash[x][0].index)
      /\ \A c \in Block : mark'[c] <=> mark[c] \/ c = x
  BY <1>2, MarkedIs DEF SoundOn
<1>4. Empty(o)
  BY <1>1, <1>2 DEF SoundOn, Sound, Working
<1>5. AllIn(bmt)'
  <2>1. ASSUME NEW b \in System, NEW m, m = MapIn(bmt, b) PROVE InPlace(b, m)'
    <3>1. m \in Block /\ InPlace(b, m) /\ (m = x => b = o)
      BY <1>1, <1>2, <2>1, Mapping DEF SoundOn, Sound, Loaded, AllIn
    <3>2. CASE m # x
      BY <1>2, <1>3, <3>1, <3>2, InPlaceKept DEF Touches
    <3>3. CASE m = x
      <4>1. mark'[m] /\ Empty(b)'
        BY <1>2, <1>3, <1>4, <3>1, <3>3 DEF Empty
      <4> QED  BY <4>1 DEF InPlace, Holds, Empty
    <3> QED  BY <3>2, <3>3
  <2>2. \A b \in System : \A m : m = MapIn(bmt, b) => InPlace(b, m)'
    BY <2>1
  <2>3. UNCHANGED bmt
    BY <1>2 DEF ram
  <2> QED  BY <2>2, <2>3, AllInNext DEF AllIn
<1> QED  BY <1>2, <1>5, GivenUp

\* An access reaches the block of b, and what it leaves there belongs to b.
LEMMA AccessStep ==
  ASSUME SoundOn, pc = "idle", NEW b \in System, NEW m \in Block, m = MapIn(bmt, b),
         UNCHANGED <<mark, bmt, bmt_block_index, pool_erased>>,
         \A d \in Block : d # m => flash'[d] = flash[d],
         \A d \in System : d # b => stored'[d] = stored[d], InPlace(b, m)',
         \A d \in System : Indexed(m, d)' => Indexed(m, d) \/ d = b,
         flash'[m][0].kind = "bmt" => flash[m][0].kind = "bmt",
         pc' \in {"idle", "find"}, pc' = "find" => i' = 0
  PROVE  Loaded' /\ Written' /\ Swept'
<1>1. Loaded /\ Written /\ Swept /\ Touches(m)
  BY DEF SoundOn, Sound, Touches
<1>2. AllIn(bmt)'
  <2>1. ASSUME NEW d \in System, NEW x, x = MapIn(bmt, d) PROVE InPlace(d, x)'
    <3>1. CASE d = b
      BY <2>1, <3>1
    <3>2. CASE d # b
      <4>1. x \in Block /\ x # m /\ InPlace(d, x)
        BY <1>1, <2>1, <3>2, Mapping DEF SoundOn, Loaded, AllIn
      <4> QED  BY <3>2, <4>1, InPlaceKept
    <3> QED  BY <3>1, <3>2
  <2>2. \A d \in System : \A x : x = MapIn(bmt, d) => InPlace(d, x)'
    BY <2>1
  <2> QED  BY <2>2, AllInNext DEF AllIn
<1>3. Loaded'
  <2>1. \A c \in Pool, d \in System : Indexed(c, d)' => c = MapIn(bmt, d)
    <3> SUFFICES ASSUME NEW c \in Pool, NEW d \in System, Indexed(c, d)' PROVE c = MapIn(bmt, d)
      OBVIOUS
    <3>1. CASE c # m
      <4>1. Indexed(c, d)
        BY <3>1, Blocks DEF Indexed
      <4> QED  BY <1>1, <4>1 DEF Loaded, Relieved
    <3>2. CASE c = m
      BY <1>1, <3>2 DEF Loaded, Relieved
    <3> QED  BY <3>1, <3>2
  <2> QED  BY <1>1, <1>2, <2>1 DEF Loaded, Full
<1>4. Written'
  <2>1. \A c \in Pool : HasTable(c)' => c # m
    <3> SUFFICES ASSUME m \in Pool, HasTable(m)' PROVE FALSE
      OBVIOUS
    <3>1. HasTable(m)
      BY DEF HasTable
    <3>2. m = bmt_block_index /\ m # 0
      BY <1>1, <3>1, Blocks DEF Written
    <3> QED  BY <3>2, Mapping DEF SoundOn
  <2>2. \A c \in Pool : HasTable(c)' => HasTable(c) /\ flash'[c] = flash[c]
    BY <2>1, Blocks DEF HasTable
  <2> QED  BY <1>1, <2>2 DEF Written
<1>5. Swept'
  <2>1. \A c \in Available' : c \in Available /\ flash'[c] = flash[c]
    <3> SUFFICES ASSUME NEW c \in Available' PROVE c \in Available /\ flash'[c] = flash[c]
      OBVIOUS
    <3>1. c \in Available /\ c \in Pool /\ ~IsMapped(bmt, c)
      BY DEF Available, IsMapped
    <3>2. c # m
      BY <3>1, Mapping DEF SoundOn
    <3> QED  BY <3>1, <3>2, Blocks
  <2>2. \A c \in Erasable' : ~(c < 0)
    <3>1. \A c \in Erasable' : c \in Nat
      BY Blocks DEF Erasable
    <3> QED  BY <3>1
  <2> QED  BY <1>1, <2>1, <2>2 DEF Swept, Relieved, Clean, Finding
<1> QED  BY <1>3, <1>4, <1>5

\* The access has ended, or update_bmt takes it up.
LEMMA AccessEnds ==
  ASSUME Loaded' /\ Written' /\ Swept', pc' = "idle"
  PROVE  Sound'
BY DEF Sound, Rebuildable, Rebuilding, Working, Filling, Mending, Relieved

\* The access has failed, and update_bmt looks for a replacement.
LEMMA AccessFails ==
  ASSUME SoundOn, Loaded' /\ Written' /\ Swept', NEW name \in {"write", "erase", "check"},
         NEW b \in System, NEW m \in Block, m = MapIn(bmt, b), NEW p \in Page, NEW v, NEW spare,
         Failed(name, b, p, v, spare),
         IF name = "write"
         THEN /\ stored'[b][p] = 0 /\ ~mark'[m] /\ flash'[m][p] # Erased /\ spare = Own(b, m)
         ELSE Empty(b)'
  PROVE  Sound'
<1>1. /\ pc' = "find" /\ UNCHANGED bmt
      /\ op' = [name |-> name, block |-> b, error_block |-> m, error_page |-> p, val |-> v,
                spare |-> spare]
  BY Mapping DEF Failed, SoundOn
<1>2. Working'
  BY <1>1 DEF Working, Mending, Relieved, Empty, Own
<1> QED  BY <1>1, <1>2 DEF Sound, Rebuildable, Rebuilding, Filling

LEMMA WriteSound ==
  ASSUME SoundOn, AtMostOne, NEW b \in System, NEW p \in Page, mtk_nand_write_page(b, p)
  PROVE  Sound'
<1>1. PICK m \in Block : m = get_mapping_block_index(b) /\ m = MapIn(bmt, b)
  BY Mapping DEF SoundOn
<1>2. PICK v, index : v = writes + 1 /\ index = IF m # b THEN b ELSE FAKE_INDEX
  OBVIOUS
<1>3. /\ pc = "idle" /\ ~mark[m] /\ flash[m][p] = Erased
      /\ \A q \in Page : q < p => flash[m][q].kind # "erased"
      /\ index = Own(b, m) /\ v # 0
  <2>1. v # 0
    BY <1>2 DEF SoundOn, IInv, Medium
  <2> QED  BY <1>1, <1>2, <2>1 DEF mtk_nand_write_page, Writable, Own
<1>4. \/ /\ UNCHANGED <<mark, bmt, bmt_block_index, pool_erased>> /\ pc' = "idle"
         /\ flash' = [flash EXCEPT ![m][p] = IF @ = Erased THEN Data(v, index) ELSE Garbage(@.index)]
         /\ stored' = [stored EXCEPT ![b][p] = v]
      \/ /\ UNCHANGED <<mark, stored>> /\ Failed("write", b, p, v, index)
         /\ flash' = [flash EXCEPT ![m][p] = Garbage(index)]
  BY <1>1, <1>2, OneFailure DEF mtk_nand_write_page, nand_write_page, Acknowledge, ram
<1>5. InPlace(b, m) /\ Holds(b, m) /\ Tidy(b, m) /\ Loaded
  BY <1>1, <1>3 DEF SoundOn, Sound, Loaded, AllIn, InPlace
<1>6. ASSUME NEW c, c.kind \in {"data", "garbage"}, c.index = Own(b, m), UNCHANGED mark,
             flash'[m][p] = c, \A d \in Block : d # m => flash'[d] = flash[d],
             \A q \in Page : q # p => flash'[m][q] = flash[m][q],
             \A d \in System : d # b => stored'[d] = stored[d],
             Holds(b, m)', UNCHANGED <<bmt, bmt_block_index, pool_erased>>,
             pc' \in {"idle", "find"}, pc' = "find" => i' = 0
      PROVE  Loaded' /\ Written' /\ Swept'
  <2>1. /\ flash'[m][p] = c /\ \A d \in Block : d # m => flash'[d] = flash[d]
        /\ \A q \in Page : q # p => flash'[m][q] = flash[m][q]
    BY <1>6
  <2>2. flash'[m][0] # Erased
    <3>1. CASE p = 0
      BY <1>6, <2>1, <3>1, BlankPages
    <3>2. CASE p # 0
      <4>1. 0 \in Page /\ 0 < p
        BY <3>2, Blocks DEF Page
      <4> QED  BY <1>3, <2>1, <4>1, BlankPages
    <3> QED  BY <3>1, <3>2
  <2>3. Tidy(b, m)'
    <3>1. ASSUME NEW q \in Page
          PROVE  \/ flash'[m][q] = Erased
                 \/ flash'[m][q].kind \in {"data", "garbage"} /\ flash'[m][q].index = Own(b, m)
      BY <1>5, <1>6, <2>1 DEF Tidy
    <3> QED  BY <2>2, <3>1 DEF Tidy
  <2>4. InPlace(b, m)'
    BY <1>3, <1>6, <2>3 DEF InPlace
  <2>5. \A d \in System : Indexed(m, d)' => Indexed(m, d) \/ d = b
    <3>1. flash'[m][0] = flash[m][0] \/ flash'[m][0] = c
      BY <2>1, Blocks
    <3>2. \A d \in System : d = Own(b, m) => d = b
      BY Counts DEF Own, FAKE_INDEX, System
    <3> QED  BY <1>6, <3>1, <3>2 DEF Indexed
  <2>6. flash'[m][0].kind = "bmt" => flash[m][0].kind = "bmt"
    BY <1>6, <2>1, Blocks
  <2> QED  BY <1>1, <1>3, <1>6, <2>1, <2>4, <2>5, <2>6, AccessStep
<1>7. CASE /\ UNCHANGED <<mark, bmt, bmt_block_index, pool_erased>> /\ pc' = "idle"
           /\ flash' = [flash EXCEPT ![m][p] = IF @ = Erased THEN Data(v, index) ELSE Garbage(@.index)]
           /\ stored' = [stored EXCEPT ![b][p] = v]
  <2>1. flash' = [flash EXCEPT ![m][p] = Data(v, index)]
    BY <1>3, <1>7 DEF SoundOn, IInv, Medium, FlashIs
  <2>2. /\ stored'[b][p] = v /\ \A d \in System : d # b => stored'[d] = stored[d]
        /\ \A q \in Page : q # p => stored'[b][q] = stored[b][q]
    BY <1>7 DEF SoundOn, IInv, Medium
  <2>3. /\ flash'[m][p] = Data(v, index) /\ \A d \in Block : d # m => flash'[d] = flash[d]
        /\ \A q \in Page : q # p => flash'[m][q] = flash[m][q]
    BY <2>1 DEF SoundOn, IInv, Medium, FlashIs
  <2>4. Holds(b, m)'
    BY <1>5, <2>2, <2>3, BlankPages DEF Holds
  <2>5. Data(v, index).kind = "data" /\ Data(v, index).index = Own(b, m)
    BY <1>3 DEF Data
  <2>6. Loaded' /\ Written' /\ Swept'
    BY <1>6, <1>7, <2>2, <2>3, <2>4, <2>5
  <2> QED  BY <1>7, <2>6, AccessEnds
<1>8. CASE /\ UNCHANGED <<mark, stored>> /\ Failed("write", b, p, v, index)
           /\ flash' = [flash EXCEPT ![m][p] = Garbage(index)]
  <2>1. /\ UNCHANGED <<bmt, bmt_block_index, pool_erased>> /\ pc' = "find" /\ i' = 0
    BY <1>8 DEF Failed
  <2>2. stored[b][p] = 0
    BY <1>3, <1>5, BlankPages DEF Holds
  <2>3. /\ flash'[m][p] = Garbage(index) /\ \A d \in Block : d # m => flash'[d] = flash[d]
        /\ \A q \in Page : q # p => flash'[m][q] = flash[m][q]
    BY <1>8 DEF SoundOn, IInv, Medium, FlashIs
  <2>4. Holds(b, m)'
    BY <1>5, <1>8, <2>2, <2>3 DEF Holds
  <2>5. Garbage(index).kind = "garbage" /\ Garbage(index).index = Own(b, m)
    BY <1>3 DEF Garbage
  <2>6. Loaded' /\ Written' /\ Swept'
    BY <1>6, <1>8, <2>1, <2>3, <2>4, <2>5
  <2>7. flash'[m][p] # Erased /\ ~mark'[m] /\ stored'[b][p] = 0
    BY <1>3, <1>8, <2>2, <2>3, BlankPages DEF Garbage
  <2> QED  BY <1>1, <1>3, <1>8, <2>6, <2>7, AccessFails
<1> QED  BY <1>4, <1>7, <1>8

LEMMA EraseSound ==
  ASSUME SoundOn, AtMostOne, NEW b \in System, mtk_nand_erase(b)
  PROVE  Sound'
<1>1. PICK m \in Block : m = get_mapping_block_index(b) /\ m = MapIn(bmt, b)
  BY Mapping DEF SoundOn
<1>2. pc = "idle" /\ stored' = [stored EXCEPT ![b] = [p \in Page |-> 0]]
  BY DEF mtk_nand_erase
<1>3. (\A d \in System : d # b => stored'[d] = stored[d]) /\ Empty(b)'
  BY <1>2 DEF SoundOn, IInv, Medium, Empty
<1>4. \/ /\ ~mark[m] /\ UNCHANGED <<mark, bmt, bmt_block_index, pool_erased>> /\ pc' = "idle"
         /\ flash' = [flash EXCEPT ![m] = [p \in Page |-> Erased]]
      \/ Failed("erase", b, 0, 0, NO_INDEX) /\ UNCHANGED <<mark, flash>>
  BY <1>1, <1>2, OneFailure DEF mtk_nand_erase, nand_erase, ram
<1>5. Holds(b, m)' /\ InPlace(b, m)
  BY <1>1, <1>2, <1>3 DEF Empty, Holds, SoundOn, Sound, Loaded, AllIn
<1>6. CASE /\ ~mark[m] /\ UNCHANGED <<mark, bmt, bmt_block_index, pool_erased>> /\ pc' = "idle"
           /\ flash' = [flash EXCEPT ![m] = [p \in Page |-> Erased]]
  <2>1. /\ \A d \in Block : d # m => flash'[d] = flash[d]
        /\ Clean(m)'
    BY <1>6 DEF SoundOn, IInv, Medium, FlashIs, Clean
  <2>2. InPlace(b, m)'
    BY <1>5, <1>6, <2>1 DEF InPlace, Tidy, Clean
  <2>3. flash'[m][0] = Erased
    BY <2>1, Blocks DEF Clean
  <2>4. \A d \in System : ~Indexed(m, d)'
    <3>1. \A d \in System : d # NO_INDEX
      BY Counts DEF NO_INDEX, System
    <3> QED  BY <2>3, <3>1, BlankPages DEF Indexed
  <2>5. flash'[m][0].kind # "bmt"
    BY <2>3, BlankPages
  <2> QED  BY <1>1, <1>2, <1>3, <1>6, <2>1, <2>2, <2>4, <2>5, AccessStep, AccessEnds
<1>7. CASE Failed("erase", b, 0, 0, NO_INDEX) /\ UNCHANGED <<mark, flash>>
  <2>1. /\ UNCHANGED <<bmt, bmt_block_index, pool_erased>> /\ pc' = "find" /\ i' = 0
    BY <1>7 DEF Failed
  <2>2. InPlace(b, m)'
    BY <1>3, <1>5, <1>7 DEF InPlace, Tidy, Clean
  <2>3. \A d : Indexed(m, d)' <=> Indexed(m, d)
    BY <1>7 DEF Indexed
  <2>4. Loaded' /\ Written' /\ Swept'
    BY <1>1, <1>2, <1>3, <1>7, <2>1, <2>2, <2>3, AccessStep
  <2> QED  BY <1>1, <1>3, <1>7, <2>4, AccessFails, Blocks
<1> QED  BY <1>4, <1>6, <1>7

LEMMA CheckSound ==
  ASSUME SoundOn, NEW b \in System, nand_block_bad(b)
  PROVE  Sound'
<1>1. PICK m \in Block : m = get_mapping_block_index(b) /\ m = MapIn(bmt, b)
  BY Mapping DEF SoundOn
<1>2. /\ pc = "idle" /\ mark[m] /\ Failed("check", b, 0, 0, NO_INDEX)
      /\ UNCHANGED <<mark, flash, stored>>
  BY <1>1 DEF nand_block_bad
<1>3. /\ UNCHANGED <<bmt, bmt_block_index, pool_erased>> /\ pc' = "find" /\ i' = 0
  BY <1>2 DEF Failed
<1>4. InPlace(b, m) /\ Empty(b)
  BY <1>1, <1>2 DEF SoundOn, Sound, Loaded, AllIn, InPlace
<1>5. InPlace(b, m)' /\ Empty(b)' /\ \A d : Indexed(m, d)' <=> Indexed(m, d)
  BY <1>2, <1>4, Still
<1>6. Loaded' /\ Written' /\ Swept'
  BY <1>1, <1>2, <1>3, <1>5, AccessStep
<1> QED  BY <1>1, <1>2, <1>5, <1>6, AccessFails, Blocks

LEMMA InitiallySound == ASSUME Init PROVE Sound
<1>1. /\ pc = "off" /\ op = NoOp /\ mark \in [Block -> BOOLEAN]
      /\ stored = [b \in System |-> [p \in Page |-> 0]]
      /\ flash = [b \in Block |-> [p \in Page |-> IF p = 0 /\ mark[b] THEN Garbage(NO_INDEX)
                                                                  ELSE Erased]]
  BY DEF Init
<1>2. \A b \in Block, p \in Page : /\ flash[b][p].index = NO_INDEX /\ flash[b][p].kind # "bmt"
                                   /\ ~mark[b] => flash[b][p] = Erased
  <2> SUFFICES ASSUME NEW b \in Block, NEW p \in Page
               PROVE  /\ flash[b][p].index = NO_INDEX /\ flash[b][p].kind # "bmt"
                      /\ ~mark[b] => flash[b][p] = Erased
    OBVIOUS
  <2>1. flash[b][p] = Erased \/ (mark[b] /\ flash[b][p] = Garbage(NO_INDEX))
    BY <1>1
  <2> QED  BY <2>1, BlankPages
<1>3. /\ \A c \in Pool, b \in System : ~Indexed(c, b)
      /\ \A c \in Pool : ~HasTable(c)
  <2>1. \A b \in System : b # NO_INDEX
    BY Counts DEF System, NO_INDEX
  <2> QED  BY <1>2, <2>1, Blocks DEF Indexed, HasTable
<1>4. \A b \in System : Empty(b) /\ (~mark[b] => InPlace(b, b))
  <2>1. \A b \in System : Empty(b)
    BY <1>1 DEF Empty
  <2>2. \A b \in System : ~mark[b] => Tidy(b, b)
    BY <1>2, Blocks DEF Tidy, Clean
  <2> QED  BY <2>1, <2>2 DEF InPlace, Holds, Empty
<1>5. Loaded /\ Written /\ Rebuildable /\ Rebuilding
  BY <1>1, <1>3, <1>4 DEF Loaded, Written, Rebuildable, Rebuilding
<1>6. Swept /\ Working /\ Filling
  BY <1>1 DEF Swept, Working, Filling, Mending, Relieved
<1> QED  BY <1>5, <1>6 DEF Sound

LEMMA StillSound == ASSUME Sound, UNCHANGED vars PROVE Sound'
<1>1. UNCHANGED <<mark, flash, stored, bmt, bmt_block_index, pool_erased, pc, op, to_index, i>>
  BY DEF vars, ram
<1>2. Loaded' /\ Written'
  BY <1>1 DEF Sound, Loaded, Written, Saved, AllIn, InPlace, Holds, Tidy, Clean, Empty, Indexed,
              Relieved, Full, AllMarked, Single, HasTable, IsMapped
<1>3. Rebuildable' /\ Rebuilding'
  BY <1>1 DEF Sound, Rebuildable, Rebuilding, InPlace, Holds, Tidy, Clean, Empty, Indexed,
              Candidate, IsMapped
<1>4. Swept'
  BY <1>1 DEF Sound, Swept, Available, Erasable, Clean, Relieved, Finding, IsMapped
<1>5. Working' /\ Filling'
  BY <1>1 DEF Sound, Working, Filling, Relieved, Mending, Empty, Clean, Holds, Tidy
<1> QED  BY <1>2, <1>3, <1>4, <1>5 DEF Sound

LEMMA SoundKept ==
  ASSUME IInv, Known, fails <= MaxFails => Sound, MaxFails <= 1, MaxCuts = 0, cuts = 0, [Next]_vars
  PROVE  fails' <= MaxFails => Sound'
<1> SUFFICES ASSUME fails' <= MaxFails PROVE Sound'
  OBVIOUS
<1>1. fails <= MaxFails
  <2>1. fails \in Nat /\ MaxFails \in Nat
    BY ConstantsAssumption DEF Known, ConstantsAssumption
  <2>2. Fail => fails <= MaxFails
    BY <2>1 DEF Fail
  <2> QED  BY <2>2, FailsMoves
<1>2. SoundOn /\ AtMostOne
  BY <1>1 DEF SoundOn, AtMostOne, Known
<1>3. CASE UNCHANGED vars
  BY <1>2, <1>3, StillSound DEF SoundOn
<1>4. CASE Driver
  BY <1>2, <1>4, InitSound, ReconstructSound, LoadSound, ErasePoolSound, NothingSound, FindSound,
     ErrorPageSound, NextPageSound, UpdateSound, EraseTableSound, FindTableSound,
     ProgramTableSound, MarkBadSound, MarkFailedSound DEF Driver
<1>5. CASE Access
  <2>1. PICK b \in System : (\E p \in Page : mtk_nand_write_page(b, p)) \/ mtk_nand_erase(b)
                           \/ nand_block_bad(b)
    BY <1>5 DEF Access
  <2> QED  BY <1>2, <2>1, WriteSound, EraseSound, CheckSound
<1>6. CASE PowerOff \/ PowerCut
  <2>1. pc = "idle" /\ Off /\ UNCHANGED <<mark, flash, stored>>
    BY <1>2, <1>6, OneFailure DEF PowerOff, PowerCut
  <2> QED  BY <1>2, <2>1, OffSound
<1> QED  BY <1>3, <1>4, <1>5, <1>6 DEF Next

\* Only a cut counts as a cut.
LEMMA NoCuts == ASSUME MaxCuts = 0 PROVE Spec => [](cuts = 0)
<1>1. Init => cuts = 0
  BY DEF Init
<1>2. cuts = 0 /\ [Next]_vars => (cuts = 0)'
  <2> SUFFICES ASSUME cuts = 0, [Next]_vars PROVE cuts' = 0
    OBVIOUS
  <2>1. ~Cut /\ (Fail => cuts' = cuts)
    BY DEF Cut, Fail
  <2>2. CASE UNCHANGED vars
    BY <2>2 DEF vars, faults
  <2>3. CASE Driver
    <3> USE DEF faults, nand_erase, nand_write_page
    <3>1. init_bmt \/ reconstruct_bmt \/ MarkLoaded => cuts' = cuts
      BY DEF init_bmt, reconstruct_bmt, MarkLoaded
    <3>2. NothingFound \/ FindBlock \/ UpdateTable \/ FindTableBlock \/ MarkBad \/ MarkFailed
            => cuts' = cuts
      BY DEF NothingFound, FindBlock, UpdateTable, FindTableBlock, MarkBad, MarkFailed
    <3>3. ErasePool \/ MigrateErrorPage \/ MigrateNextPage => cuts' = cuts
      BY <2>1 DEF ErasePool, MigrateErrorPage, MigrateNextPage
    <3>4. EraseTable \/ ProgramTable => cuts' = cuts
      BY <2>1 DEF EraseTable, ProgramTable
    <3> QED  BY <2>3, <3>1, <3>2, <3>3, <3>4 DEF Driver
  <2>4. CASE Access
    BY <2>1, <2>4 DEF Access, mtk_nand_write_page, mtk_nand_erase, nand_block_bad, faults,
                      nand_erase, nand_write_page
  <2>5. CASE PowerOff \/ PowerCut
    BY <2>1, <2>5 DEF PowerOff, PowerCut, faults
  <2> QED  BY <2>2, <2>3, <2>4, <2>5 DEF Next
<1> QED  BY <1>1, <1>2, PTL DEF Spec

\* A block that fails once is replaced with nothing lost: the access that failed,
\* whichever it is and wherever in update_bmt, and every reboot after it, from the
\* table on flash or from the indices of the pages, leave each page as the last
\* completed write stored it, as long as power is not cut in the middle.
THEOREM OneFailureLosesNothing ==
  ASSUME MaxFails <= 1, MaxCuts = 0
  PROVE  Spec => []Durable
<1>1. Init => (fails <= MaxFails => Sound)
  BY InitiallySound
<1>2. /\ IInv /\ Known /\ (fails <= MaxFails => Sound) /\ cuts = 0 /\ [Next]_vars
      => (fails <= MaxFails => Sound)'
  BY SoundKept
<1>3. IInv /\ (fails <= MaxFails => Sound) => Durable
  <2> SUFFICES ASSUME IInv, Sound, pc = "idle", NEW b \in System, NEW p \in Page,
                      stored[b][p] # 0
               PROVE  /\ flash[get_mapping_block_index(b)][p].kind = "data"
                      /\ flash[get_mapping_block_index(b)][p].val = stored[b][p]
    BY DEF Durable
  <2>1. Holds(b, MapIn(bmt, b))
    BY DEF Sound, Loaded, AllIn, InPlace
  <2> QED  BY <2>1, Mapping DEF Holds
<1>4. Spec => []Known
  BY AlwaysKnown
<1>5. Spec => [](cuts = 0)
  BY NoCuts
<1> QED  BY Invariance, <1>1, <1>2, <1>3, <1>4, <1>5, PTL DEF Spec
================================================================================
