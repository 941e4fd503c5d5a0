------------------------------- MODULE Mblock --------------------------------
(***************************************************************************)
(* The memory map the preloader hands to the next stages                   *)
(* (common/mblock): the DRAM ranks become free blocks, and each firmware   *)
(* region is carved out of the highest block it fits in.                   *)
(*                                                                         *)
(* VERSION 1 is mblock.c (mt6735), which knows the rank of a request and   *)
(* keeps no record of what it gave away (reserved is then a history        *)
(* variable); VERSION 2 is mblock_v2.c (mt6739), which passes the reserved *)
(* regions on to the kernel.                                               *)
(*                                                                         *)
(* Addresses and sizes are u64 in the code.  RequestsAssumption states why *)
(* the sums and differences below never wrap.                              *)
(***************************************************************************)
EXTENDS Integers, Sequences

CONSTANTS VERSION,
          PAGE,                    \* 0x1000
          ranks,                   \* orig_dram_info: start and size of each rank
          CUSTOM_CONFIG_MAX_DRAM_SIZE,
          MBLOCK_NUM_MAX, MBLOCK_RESERVED_NUM_MAX,
          Requests,                \* what the boot stages ask for
          MaxRequests              \* bound: number of requests in a boot

VARIABLES mblock,             \* mblock[0 .. mblock_num - 1], counted from 1
          reserved,           \* reserved[0 .. reserved_num - 1]
          lca_reserved_mem,   \* DRAM beyond the configured maximum
          rank_num,           \* orig_dram_info.rank_num
          requests,           \* calls so far
          answer              \* the last request and what it got

map == <<mblock, lca_reserved_mem, rank_num>>
mblock_vars == <<map, reserved, requests, answer>>

mblock_num == Len(mblock)
reserved_num == Len(reserved)

Rank == 1..Len(ranks)
End(block) == block.start + block.size
Covers(block, a) == block.start <= a /\ a < End(block)

rank_info == [start : Nat, size : Nat \ {0}]
mblock_t == [start : Nat, size : Nat, rank : 0..3]
reserved_t == [start : Nat, size : Nat, mapping : Nat]

\* Ranks lie one after the other, from a base no request is larger than.
RanksAssumption ==
  /\ ranks \in Seq(rank_info)
  /\ Len(ranks) \in 1..4
  /\ \A i \in Rank : i > 1 => ranks[i].start = End(ranks[i - 1])

RequestsAssumption ==
  \A r \in Requests :
    /\ r.size \in Nat \ {0} /\ r.size <= ranks[1].start
    /\ r.align \in Nat
    /\ r.limit \in Nat /\ r.size <= r.limit
    /\ r.rank \in {"RANK0", "RANKMAX"}
    /\ r.mapping \in Nat
    /\ r.name \in {"short", "too long"}

ASSUME MblockAssumption ==
  /\ VERSION \in {1, 2}
  /\ PAGE \in Nat \ {0}
  /\ RanksAssumption
  /\ CUSTOM_CONFIG_MAX_DRAM_SIZE \in Nat \ {0}
  /\ MBLOCK_NUM_MAX \in Nat /\ MBLOCK_NUM_MAX > Len(ranks)
  /\ MBLOCK_RESERVED_NUM_MAX \in Nat \ {0}
  /\ RequestsAssumption
  /\ MaxRequests \in Nat

-----------------------------------------------------------------------------
(* setup_mblock_info                                                       *)

\* The DRAM below rank i; the ranks are adjacent.
Below(i) == ranks[i].start - ranks[1].start
TotalDram == End(ranks[Len(ranks)]) - ranks[1].start

Smaller(x, y) == IF x <= y THEN x ELSE y

\* What the configured maximum leaves of rank i.
Usable(i) == Smaller(ranks[i].size, CUSTOM_CONFIG_MAX_DRAM_SIZE - Below(i))

\* A rank of which nothing is left gets no block.
UsableRanks == CHOOSE n \in Rank :
  \A i \in Rank : i <= n <=> Below(i) < CUSTOM_CONFIG_MAX_DRAM_SIZE

setup_mblock_info ==
  /\ mblock = [i \in 1..UsableRanks |->
                 [start |-> ranks[i].start, size |-> Usable(i), rank |-> i - 1]]
  /\ lca_reserved_mem =
       IF TotalDram > CUSTOM_CONFIG_MAX_DRAM_SIZE
       THEN [start |-> ranks[1].start + CUSTOM_CONFIG_MAX_DRAM_SIZE,
             size |-> TotalDram - CUSTOM_CONFIG_MAX_DRAM_SIZE]
       ELSE [start |-> 0, size |-> 0]
  /\ rank_num = IF /\ VERSION = 2 /\ Len(ranks) > 1
                   /\ CUSTOM_CONFIG_MAX_DRAM_SIZE <= ranks[1].size
                THEN Len(ranks) - 1 ELSE Len(ranks)

MblockInit ==
  /\ setup_mblock_info
  /\ reserved = <<>>
  /\ requests = 0
  /\ answer = [got |-> 0]

-----------------------------------------------------------------------------
(* mblock_reserve and mblock_reserve_ext                                   *)

\* An alignment below a page, other than none, is masked to zero, and
\* ~(align - 1) then clears every bit of the address.
Align(r) == IF r.align = 0 THEN PAGE ELSE r.align - (r.align % PAGE)
AlignedDown(a, align) == IF align = 0 THEN 0 ELSE a - (a % align)

Top(b, r) == Smaller(r.limit, End(b))

\* Where r would go in block b.
AddressIn(b, r) == AlignedDown(Top(b, r) - r.size, Align(r))

AllowedRank(b, r) == VERSION = 1 /\ r.rank = "RANK0" => b.rank = 0

Fits(b, r) ==
  /\ AddressIn(b, r) + r.size <= End(b)
  /\ b.start <= AddressIn(b, r)
  /\ AddressIn(b, r) + r.size <= r.limit
  /\ AllowedRank(b, r)

Candidates(r) == {i \in 1..mblock_num : Fits(mblock[i], r)}

\* Mutant: the lowest block wins.
LowestTarget(t, r) == \A j \in Candidates(r) : End(mblock[t]) <= End(mblock[j])
\* The search ends on the first of the blocks that end highest.
IsTarget(t, r) == \A j \in Candidates(r) :
  \/ End(mblock[j]) < End(mblock[t])
  \/ End(mblock[j]) = End(mblock[t]) /\ t <= j

\* Mutant: mblock.c without its check.
RefusedNever(r) == FALSE
\* The two checks before the search.  In mblock_v2.c the conditional operator
\* takes the whole disjunction for its condition.
Refused(r) ==
  IF VERSION = 1 THEN mblock_num = MBLOCK_NUM_MAX
  ELSE IF \/ mblock_num >= MBLOCK_NUM_MAX - 1
          \/ reserved_num >= MBLOCK_RESERVED_NUM_MAX - 1
          \/ r.mapping > 1
          \/ r.name \in {"short", "too long"}
       THEN r.name = "too long" ELSE TRUE

\* What the code reads as reserved[reserved_num].start: setup_mblock_info zeroed
\* the array, and behind it in boot_arg_t (mt6739 platform.h:258) lies
\* orig_dram_info, which begins with rank_num.
NextStart == IF reserved_num < MBLOCK_RESERVED_NUM_MAX THEN 0 ELSE rank_num
\* Mutant: mblock_v2.c without its "sanity check".
SlotTakenNever == FALSE
SlotTaken == VERSION = 2 /\ NextStart # 0

\* Mutant: the block keeps the part that was given away.
LowerKeepsSize(b, addr) == b
Lower(b, addr) == [b EXCEPT !.size = addr - b.start]
Upper(b, addr, r) == [b EXCEPT !.start = addr + r.size, !.size = End(b) - (addr + r.size)]

\* The blocks with another one after position t.
InsertedAfter(t, block) == [i \in 1..mblock_num + 1 |->
  IF i <= t THEN mblock[i] ELSE IF i = t + 1 THEN block ELSE mblock[i - 1]]

\* Mutant: the part above is forgotten when the block is cut in two.
SplitLosesUpper(t, addr, r) ==
  mblock' = [mblock EXCEPT ![t] = IF addr = @.start THEN Upper(@, addr, r) ELSE Lower(@, addr)]
\* The block is cut below, above, or in two.
Split(t, addr, r) ==
  LET b == mblock[t] IN
  mblock' =
    IF addr = b.start THEN [mblock EXCEPT ![t] = Upper(b, addr, r)]
    ELSE IF addr + r.size = End(b) THEN [mblock EXCEPT ![t] = Lower(b, addr)]
    ELSE [InsertedAfter(t, Upper(b, addr, r)) EXCEPT ![t] = Lower(b, addr)]

Given(addr, r) == [start |-> addr, size |-> r.size, mapping |-> r.mapping]

Grant(r) ==
  /\ ~Refused(r) /\ ~SlotTaken
  /\ \E t \in Candidates(r) :
       LET addr == AddressIn(mblock[t], r) IN
       /\ IsTarget(t, r)
       /\ reserved' = Append(reserved, Given(addr, r))
       /\ Split(t, addr, r)
       /\ answer' = [got |-> addr, request |-> r]

Deny(r) ==
  /\ Candidates(r) = {} \/ Refused(r) \/ SlotTaken
  /\ answer' = [got |-> 0, request |-> r]
  /\ UNCHANGED <<mblock, reserved>>

\* The model ends with the first insertion beyond mblock[], which overwrites
\* mblock_magic, mblock_version and reserved_num.
mblock_reserve(r) ==
  /\ requests < MaxRequests
  /\ mblock_num <= MBLOCK_NUM_MAX
  /\ requests' = requests + 1
  /\ Grant(r) \/ Deny(r)
  /\ UNCHANGED <<lca_reserved_mem, rank_num>>

MblockNext == \E r \in Requests : mblock_reserve(r)

MblockSpec == MblockInit /\ [][MblockNext]_mblock_vars

-----------------------------------------------------------------------------
(* Properties.                                                             *)

Address == ranks[1].start .. End(ranks[Len(ranks)])

MblockTypeOK ==
  /\ mblock \in Seq(mblock_t)
  /\ reserved \in Seq(reserved_t)
  /\ lca_reserved_mem \in [start : Nat, size : Nat]
  /\ rank_num \in 1..4
  /\ requests \in 0..MaxRequests

\* The list stays sorted, across three ways to split and one insertion: a block
\* lies wholly below the next.
Sorted == \A i, j \in 1..mblock_num : i < j => End(mblock[i]) <= mblock[j].start

IsFree(a) == \E i \in 1..mblock_num : Covers(mblock[i], a)
IsReserved(a) == \E j \in 1..reserved_num : Covers(reserved[j], a)
InDram(a) == \E i \in Rank : Covers(ranks[i], a)

\* No memory is lost and none is invented: what is not free has been
\* given away, or lies beyond the configured maximum.
Conserved ==
  \A a \in Address :
    InDram(a) <=> (IsFree(a) \/ IsReserved(a) \/ Covers(lca_reserved_mem, a))

\* No two firmware regions overlap, and nothing handed out is still listed as
\* free or lies beyond the configured maximum.
Exclusive ==
  /\ \A i, j \in 1..reserved_num : \A a \in Address :
       Covers(reserved[i], a) /\ Covers(reserved[j], a) => i = j
  /\ \A a \in Address : ~(IsFree(a) /\ IsReserved(a))
  /\ \A a \in Address : Covers(lca_reserved_mem, a) => ~IsFree(a) /\ ~IsReserved(a)

\* A block does not leave its rank, although blocks are moved and cut.
RankIsRight == \A i \in 1..mblock_num :
  /\ ranks[mblock[i].rank + 1].start <= mblock[i].start
  /\ End(mblock[i]) <= End(ranks[mblock[i].rank + 1])

\* An address at which r could have been placed: aligned, under the limit, free
\* before the call, within one rank, and rank 0 if asked.
Possible(a, r) ==
  /\ AlignedDown(a, Align(r)) = a
  /\ a + r.size <= r.limit
  /\ \E k \in Rank :
       /\ VERSION = 1 /\ r.rank = "RANK0" => k = 1
       /\ \A x \in a..(a + r.size - 1) : Covers(ranks[k], x) /\ IsFree(x)

\* "It returns as high address as possible" (mblock_reserve), and fails only if
\* there is none or one of the checks stops it.
HighestPossible ==
  [][LET r == answer'.request IN
     IF answer'.got = 0
     THEN Refused(r) \/ SlotTaken \/ ~ \E a \in Address : Possible(a, r)
     ELSE /\ Possible(answer'.got, r)
          /\ \A a \in Address : Possible(a, r) => a <= answer'.got]_mblock_vars

\* "the mblock[] is full": the check before the search keeps the insertion from
\* writing beyond the end of mblock[].
ListHolds == mblock_num <= MBLOCK_NUM_MAX

\* No region is recorded beyond the end of reserved[], although the check for a
\* full array has no effect in mblock_v2.c: the check for a taken slot reads one
\* entry too far, and refuses because no board has zero ranks.
RecordHolds == VERSION = 2 => reserved_num <= MBLOCK_RESERVED_NUM_MAX
=============================================================================
