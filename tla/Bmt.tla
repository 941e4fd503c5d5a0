--------------------------------- MODULE Bmt ---------------------------------
(***************************************************************************)
(* The bad-block table of raw NAND (drivers/bmt.c, with the accesses of    *)
(* nand.c that go through it).  A system block that fails is replaced by a *)
(* block of the pool behind the system area; the table of replacements is  *)
(* kept in memory and in the first page of one pool block.  If no such     *)
(* block is found at boot, the table is rebuilt from the index the data    *)
(* pages carry in their spare area.                                        *)
(*                                                                         *)
(* One action is at most one flash operation: an erase, a program, or a    *)
(* bad mark.  Power may be cut between any two, or during one.  A failed   *)
(* operation and the mark that follows at once are one action: a cut       *)
(* between them leaves the flash as a cut during the operation does.       *)
(*                                                                         *)
(* MARKS_TARGET tells apart mt6739, which marks the pool block a migration *)
(* failed on, and mt6735, which passes its number where an address is due  *)
(* and so marks block 0.                                                   *)
(***************************************************************************)
EXTENDS Integers, Sequences

CONSTANTS system_block_count, bmt_block_count, page_per_block,
          MARKS_TARGET,
          FactoryBad,          \* blocks that may be bad from the start
          MaxFails,            \* bound: operations that fail
          FailsForever,        \* operations may fail without bound instead
          MaxCuts,             \* bound: power cuts
          MaxWrites            \* bound: pages written

Page == 0..(page_per_block - 1)
System == 0..(system_block_count - 1)
Pool == system_block_count..(system_block_count + bmt_block_count - 1)
Block == System \cup Pool

NO_INDEX == 65535              \* a spare area that was never written
FAKE_INDEX == 43690            \* 0xAAAA, of a page in its own block

ASSUME ConstantsAssumption ==
  /\ system_block_count \in Nat \ {0} /\ bmt_block_count \in Nat \ {0}
  /\ page_per_block \in Nat \ {0}
  /\ system_block_count + bmt_block_count < FAKE_INDEX
  /\ MARKS_TARGET \in BOOLEAN /\ FailsForever \in BOOLEAN
  /\ FactoryBad \subseteq Block
  /\ MaxFails \in Nat /\ MaxCuts \in Nat /\ MaxWrites \in Nat

VARIABLES
  mark,                \* bad-block marks
  flash,               \* contents of every page of every block
  bmt,                 \* the table: bad_index and mapped_index of each entry
  bmt_block_index,     \* pool block that holds the table, or 0
  pool_erased,
  pc, op,              \* step of the access in progress, and what it is
  to_index, i,         \* locals: pool block in use, loop counter
  stored,              \* history: what completed writes stored in each page
  writes, fails, cuts

ram == <<bmt, bmt_block_index, pool_erased, op, to_index, i>>
faults == <<fails, cuts>>
vars == <<mark, flash, ram, pc, stored, writes, faults>>

-----------------------------------------------------------------------------
(* Flash operations.                                                       *)

\* kind "garbage" is a page whose program was interrupted or failed, was not
\* erased before, or was overwritten by the bad mark.
Erased == [kind |-> "erased", val |-> 0, index |-> NO_INDEX, table |-> <<>>]
Garbage(index) == [kind |-> "garbage", val |-> 0, index |-> index, table |-> <<>>]
Data(v, index) == [kind |-> "data", val |-> v, index |-> index, table |-> <<>>]
Table(t) == [kind |-> "bmt", val |-> 0, index |-> NO_INDEX, table |-> t]

NoOp == [name |-> "none", block |-> 0, error_block |-> 0, error_page |-> 0,
         val |-> 0, spare |-> NO_INDEX]

\* Power is lost: what is in memory is gone.
Off ==
  /\ pc' = "off" /\ op' = NoOp
  /\ bmt' = <<>> /\ bmt_block_index' = 0 /\ pool_erased' = FALSE
  /\ to_index' = 0 /\ i' = 0

Fail == /\ UNCHANGED cuts
        /\ \/ FailsForever /\ fails' = IF fails > MaxFails THEN fails ELSE fails + 1
           \/ ~FailsForever /\ fails < MaxFails /\ fails' = fails + 1

Cut == cuts < MaxCuts /\ cuts' = cuts + 1 /\ UNCHANGED fails

\* A bad mark is programmed over the first page.
mark_block_bad(b) ==
  /\ mark' = [mark EXCEPT ![b] = TRUE]
  /\ flash' = [flash EXCEPT ![b][0] = Garbage(@.index)]

\* ok and fail are the steps that follow; a marked block is not erased.
nand_erase(b, ok, fail) ==
  \/ ~mark[b] /\ UNCHANGED <<mark, faults>> /\ ok
     /\ flash' = [flash EXCEPT ![b] = [p \in Page |-> Erased]]
  \/ mark[b] /\ UNCHANGED faults /\ fail
  \/ ~mark[b] /\ Fail /\ fail
  \/ ~mark[b] /\ Cut /\ Off /\ UNCHANGED mark
     /\ flash' = [flash EXCEPT ![b] = [p \in Page |-> Garbage(NO_INDEX)]]

nand_write_page(b, p, content, ok, fail) ==
  \/ UNCHANGED <<mark, faults>> /\ ok
     /\ flash' = [flash EXCEPT ![b][p] =
                    IF @ = Erased THEN content ELSE Garbage(@.index)]
  \/ Fail /\ fail
  \/ Cut /\ Off /\ UNCHANGED mark
     /\ \E index \in {NO_INDEX, content.index} :
          flash' = [flash EXCEPT ![b][p] = Garbage(index)]

-----------------------------------------------------------------------------
(* The table.                                                              *)

IsMapped(t, index) == \E k \in DOMAIN t : t[k].mapped_index = index

\* The entry the search loops over the table stop at.
FirstEntry(t, field, b) == CHOOSE k \in DOMAIN t :
  t[k][field] = b /\ \A j \in 1..(k - 1) : t[j][field] # b

get_mapping_block_index(b) ==
  IF \E k \in DOMAIN bmt : bmt[k].bad_index = b
  THEN bmt[FirstEntry(bmt, "bad_index", b)].mapped_index ELSE b

\* Mutant: the first block of the pool that is not bad, mapped or not.
AvailableMapped == {b \in Pool : b # bmt_block_index /\ ~mark[b]}
Available == {b \in Pool : b # bmt_block_index /\ ~mark[b] /\ ~IsMapped(bmt, b)}

Lowest(S) == CHOOSE b \in S : \A c \in S : b <= c
Highest(S) == CHOOSE b \in S : \A c \in S : c <= b

\* The loop compares the table's block with the first block of the pool, not
\* with the block it erases.
Erasable == IF bmt_block_index = system_block_count THEN {}
            ELSE {b \in Pool : ~mark[b] /\ ~IsMapped(bmt, b)}

Candidate(b) ==
  /\ ~mark[b]
  /\ flash[b][0].index < system_block_count
  /\ mark[flash[b][0].index]

\* is_block_mapped is asked for the bad block but looks for a pool block.
Recovered(t, b) ==
  LET bad == flash[b][0].index IN
     IF ~Candidate(b) THEN t
     ELSE IF IsMapped(t, bad) THEN [t EXCEPT ![FirstEntry(t, "mapped_index", bad)].mapped_index = b]
     ELSE Append(t, [bad_index |-> bad, mapped_index |-> b])

-----------------------------------------------------------------------------
(* init_bmt                                                                *)

Tables == {b \in Pool : ~mark[b] /\ flash[b][0].kind = "bmt"}

init_bmt ==
  /\ pc = "off"
  /\ IF Tables # {}
     THEN /\ bmt_block_index' = Highest(Tables)
          /\ bmt' = flash[Highest(Tables)][0].table
          /\ pc' = "load"
     ELSE /\ bmt_block_index' = 0
          /\ bmt' = <<>>
          /\ pc' = "reconstruct"
  /\ op' = [NoOp EXCEPT !.name = "init"]
  /\ pool_erased' = FALSE /\ i' = 0
  /\ UNCHANGED <<mark, flash, to_index, stored, writes, faults>>

\* The table is rebuilt from the blocks of the pool, one after the other.
reconstruct_bmt ==
  /\ pc = "reconstruct"
  /\ IF i < bmt_block_count
     THEN bmt' = Recovered(bmt, system_block_count + i) /\ i' = i + 1 /\ UNCHANGED pc
     ELSE pc' = "write_bmt" /\ i' = 0 /\ UNCHANGED bmt
  /\ UNCHANGED <<mark, flash, bmt_block_index, pool_erased, op, to_index, stored, writes, faults>>

\* Mutant: blocks in the table are not marked after a loss of power.
MarkLoadedNot ==
  /\ pc = "load"
  /\ pc' = "idle" /\ UNCHANGED <<mark, flash>>
  /\ UNCHANGED <<ram, stored, writes, faults>>
\* The bad blocks of the table that a loss of power left unmarked.
MarkLoaded ==
  LET left == {bmt[k].bad_index : k \in {k \in DOMAIN bmt : ~mark[bmt[k].bad_index]}} IN
  /\ pc = "load"
  /\ IF left = {} THEN pc' = "idle" /\ UNCHANGED <<mark, flash>>
                  ELSE mark_block_bad(Lowest(left)) /\ UNCHANGED pc
  /\ UNCHANGED <<ram, stored, writes, faults>>

-----------------------------------------------------------------------------
(* find_available_block and migrate_from_bad                               *)

Finding == pc = "find" \/ (pc = "write_bmt" /\ bmt_block_index = 0)

ErasePool ==
  LET left == {b \in Erasable : b >= i} IN
  /\ Finding /\ ~pool_erased
  /\ UNCHANGED <<stored, writes>>
  /\ IF left = {}
     THEN /\ pool_erased' = TRUE /\ i' = 0
          /\ UNCHANGED <<mark, flash, bmt, bmt_block_index, pc, op, to_index, faults>>
     ELSE LET b == Lowest(left)
              next == /\ i' = b + 1
                      /\ UNCHANGED <<bmt, bmt_block_index, pool_erased, pc, op, to_index>>
          IN nand_erase(b, next, mark_block_bad(b) /\ next)

\* What the callers make of an update that returns false: the write asserts,
\* the erase marks the block it was asked for, the check skips the block.
Gives_up ==
  CASE op.name = "write" -> Off
    [] op.name = "erase" -> pc' = "mark_failed" /\ UNCHANGED ram
    [] OTHER -> pc' = "idle" /\ UNCHANGED ram

NothingFound ==
  /\ Finding /\ pool_erased /\ Available = {}
  /\ Gives_up
  /\ UNCHANGED <<mark, flash, stored, writes, faults>>

\* UPDATE_ERASE_FAIL and UPDATE_UNMAPPED_BLOCK have nothing to move.
FindBlock ==
  /\ pc = "find" /\ pool_erased /\ Available # {}
  /\ to_index' = Lowest(Available)
  /\ pc' = IF op.name = "write" THEN "migrate" ELSE "update"
  /\ UNCHANGED <<mark, flash, bmt, bmt_block_index, pool_erased, op, i, stored, writes, faults>>

\* Mutant: the block that failed is not marked.
RetryUnmarked(b, p) ==
  /\ UNCHANGED mark
  /\ flash' = [flash EXCEPT ![b][p] = Garbage(NO_INDEX)]
  /\ op' = [op EXCEPT !.spare = NO_INDEX]
  /\ pc' = "find" /\ i' = 0
  /\ UNCHANGED <<bmt, bmt_block_index, pool_erased, to_index>>
\* Mutant: the number of the block is taken for its address.
RetryMarksZero(b, p) ==
  /\ mark' = [mark EXCEPT ![0] = TRUE]
  /\ flash' = [flash EXCEPT ![b][p] = Garbage(NO_INDEX), ![0][0] = Garbage(@.index)]
  /\ op' = [op EXCEPT !.spare = NO_INDEX]
  /\ pc' = "find" /\ i' = 0
  /\ UNCHANGED <<bmt, bmt_block_index, pool_erased, to_index>>
\* A program on pool block b failed: another block is tried, with the spare
\* area the bad mark left in g_nand_spare.
Retry(b, p) ==
  LET marked == IF MARKS_TARGET THEN b ELSE 0
      failed == [flash EXCEPT ![b][p] = Garbage(NO_INDEX)] IN
  /\ mark' = [mark EXCEPT ![marked] = TRUE]
  /\ flash' = [failed EXCEPT ![marked][0] = Garbage(@.index)]
  /\ op' = [op EXCEPT !.spare = NO_INDEX]
  /\ pc' = "find" /\ i' = 0
  /\ UNCHANGED <<bmt, bmt_block_index, pool_erased, to_index>>

\* The page whose write failed goes first.
MigrateErrorPage ==
  LET index == IF op.error_block < system_block_count THEN op.error_block
                                                     ELSE op.spare IN
  /\ pc = "migrate"
  /\ nand_write_page(to_index, op.error_page, Data(op.val, index),
       /\ pc' = "copy" /\ i' = 0
       /\ UNCHANGED <<bmt, bmt_block_index, pool_erased, op, to_index>>,
       Retry(to_index, op.error_page))
  /\ UNCHANGED <<stored, writes>>

\* Mutant: only the page that failed is moved.
MigrateNothingElse ==
  /\ pc = "copy"
  /\ pc' = "update"
  /\ UNCHANGED <<ram, mark, flash, faults, stored, writes>>
\* Then the pages in use, which are those whose spare area is not blank.
MigrateNextPage ==
  LET left == {p \in Page : p >= i /\ p # op.error_page
                            /\ flash[op.error_block][p].index # NO_INDEX} IN
  /\ pc = "copy"
  /\ UNCHANGED <<stored, writes>>
  /\ IF left = {}
     THEN pc' = "update" /\ UNCHANGED <<ram, mark, flash, faults>>
     ELSE LET p == Lowest(left)
              from == flash[op.error_block][p]
              index == IF op.error_block < system_block_count THEN op.error_block
                                                             ELSE from.index
          IN nand_write_page(to_index, p, [from EXCEPT !.index = index],
               /\ i' = p + 1
               /\ UNCHANGED <<bmt, bmt_block_index, pool_erased, pc, op, to_index>>,
               Retry(to_index, p))

-----------------------------------------------------------------------------
(* update_bmt and write_bmt_to_flash                                       *)

UpdateTable ==
  /\ pc = "update"
  /\ bmt' = IF op.error_block < system_block_count
            THEN Append(bmt, [bad_index |-> op.error_block, mapped_index |-> to_index])
            ELSE IF IsMapped(bmt, op.error_block)
            THEN [bmt EXCEPT ![FirstEntry(bmt, "mapped_index", op.error_block)].mapped_index = to_index]
            ELSE bmt
  /\ pc' = "write_bmt" /\ i' = 0
  /\ UNCHANGED <<mark, flash, bmt_block_index, pool_erased, op, to_index, stored, writes, faults>>

\* The table's block is bad: another one is looked for.
AnotherBlock ==
  /\ mark_block_bad(bmt_block_index)
  /\ bmt_block_index' = 0 /\ pc' = "write_bmt" /\ i' = 0
  /\ UNCHANGED <<bmt, pool_erased, op, to_index>>

EraseTable ==
  /\ pc = "write_bmt" /\ bmt_block_index # 0
  /\ nand_erase(bmt_block_index, pc' = "program_bmt" /\ UNCHANGED ram, AnotherBlock)
  /\ UNCHANGED <<stored, writes>>

FindTableBlock ==
  /\ pc = "write_bmt" /\ bmt_block_index = 0 /\ pool_erased /\ Available # {}
  /\ bmt_block_index' = Highest(Available)
  /\ pc' = "program_bmt"
  /\ UNCHANGED <<mark, flash, bmt, pool_erased, op, to_index, i, stored, writes, faults>>

ProgramTable ==
  /\ pc = "program_bmt"
  /\ nand_write_page(bmt_block_index, 0, Table(bmt),
       pc' = (IF op.name = "init" THEN "idle" ELSE "mark_bad") /\ UNCHANGED ram,
       AnotherBlock)
  /\ UNCHANGED <<stored, writes>>

Acknowledge(b, p, v) == stored' = [stored EXCEPT ![b][p] = v]

\* The last step of update_bmt; the access that caused it has succeeded.
MarkBad ==
  /\ pc = "mark_bad"
  /\ mark_block_bad(op.error_block)
  /\ IF op.name = "write" THEN Acknowledge(op.block, op.error_page, op.val)
                          ELSE UNCHANGED stored
  /\ pc' = "idle"
  /\ UNCHANGED <<ram, writes, faults>>

\* nand_erase_data, after an erase that returned false.
MarkFailed ==
  /\ pc = "mark_failed"
  /\ mark_block_bad(get_mapping_block_index(op.block))
  /\ pc' = "idle"
  /\ UNCHANGED <<ram, stored, writes, faults>>

-----------------------------------------------------------------------------
(* The accesses of nand.c.                                                 *)

Failed(name, b, p, v, spare) ==
  /\ op' = [name |-> name, block |-> b, error_block |-> get_mapping_block_index(b),
            error_page |-> p, val |-> v, spare |-> spare]
  /\ pc' = "find" /\ i' = 0
  /\ UNCHANGED <<bmt, bmt_block_index, pool_erased, to_index>>

\* The caller erases a block before it writes it, and writes its pages in order.
Writable(b, p) ==
  /\ ~mark[b]
  /\ flash[b][p] = Erased
  /\ \A q \in Page : q < p => flash[b][q].kind # "erased"

mtk_nand_write_page(b, p) ==
  LET m == get_mapping_block_index(b)
      v == writes + 1
      index == IF m # b THEN b ELSE FAKE_INDEX
  IN
  /\ pc = "idle" /\ writes < MaxWrites /\ Writable(m, p)
  /\ writes' = v
  /\ \/ /\ nand_write_page(m, p, Data(v, index), pc' = "idle" /\ UNCHANGED ram, FALSE)
        /\ IF pc' = "idle" THEN Acknowledge(b, p, v) ELSE UNCHANGED stored
     \/ /\ Fail
        /\ flash' = [flash EXCEPT ![m][p] = Garbage(index)]
        /\ Failed("write", b, p, v, index)
        /\ UNCHANGED <<mark, stored>>

mtk_nand_erase(b) ==
  LET m == get_mapping_block_index(b) IN
  /\ pc = "idle"
  /\ \E p \in Page : flash[m][p] # Erased
  /\ stored' = [stored EXCEPT ![b] = [p \in Page |-> 0]]
  /\ nand_erase(m, pc' = "idle" /\ UNCHANGED ram,
                Failed("erase", b, 0, 0, NO_INDEX) /\ UNCHANGED <<mark, flash>>)
  /\ UNCHANGED writes

nand_block_bad(b) ==
  /\ pc = "idle" /\ mark[get_mapping_block_index(b)]
  /\ Failed("check", b, 0, 0, NO_INDEX)
  /\ UNCHANGED <<mark, flash, stored, writes, faults>>

-----------------------------------------------------------------------------

PowerOff ==
  /\ pc = "idle" /\ Off
  /\ UNCHANGED <<mark, flash, stored, writes, faults>>

PowerCut ==
  /\ pc \notin {"off", "idle"} /\ Cut /\ Off
  /\ UNCHANGED <<mark, flash, stored, writes>>

\* A blank device with at most one bad block.
Init ==
  /\ \E bad \in {{}} \cup {{b} : b \in FactoryBad} : mark = [b \in Block |-> b \in bad]
  /\ flash = [b \in Block |-> [p \in Page |-> IF p = 0 /\ mark[b] THEN Garbage(NO_INDEX) ELSE Erased]]
  /\ bmt = <<>> /\ bmt_block_index = 0 /\ pool_erased = FALSE
  /\ pc = "off" /\ op = NoOp /\ to_index = 0 /\ i = 0
  /\ stored = [b \in System |-> [p \in Page |-> 0]]
  /\ writes = 0 /\ fails = 0 /\ cuts = 0

Driver ==
  \/ init_bmt \/ reconstruct_bmt \/ MarkLoaded
  \/ ErasePool \/ NothingFound \/ MigrateErrorPage \/ MigrateNextPage \/ FindBlock
  \/ UpdateTable \/ EraseTable \/ FindTableBlock \/ ProgramTable \/ MarkBad \/ MarkFailed

Access == \E b \in System :
  \/ \E p \in Page : mtk_nand_write_page(b, p)
  \/ mtk_nand_erase(b)
  \/ nand_block_bad(b)

Next == Driver \/ Access \/ PowerOff \/ PowerCut

Spec == Init /\ [][Next]_vars
FairSpec == Spec /\ WF_vars(Driver)

-----------------------------------------------------------------------------
(* Properties.                                                             *)

Entry == [bad_index : System, mapped_index : Pool]
Content == [kind : {"erased", "garbage", "data", "bmt"}, val : 0..MaxWrites, index : Nat,
            table : Seq(Entry)]
Accesses == [name : {"none", "init", "write", "erase", "check"}, block : System,
             error_block : Block, error_page : Page, val : 0..MaxWrites, spare : Nat]

Memory == /\ bmt \in Seq(Entry) /\ bmt_block_index \in Pool \cup {0} /\ pool_erased \in BOOLEAN
          /\ op \in Accesses /\ to_index \in Pool \cup {0} /\ i \in Nat
          /\ pc \in {"off", "load", "reconstruct", "idle", "find", "migrate", "copy", "update",
                     "write_bmt", "program_bmt", "mark_bad", "mark_failed"}

\* Every entry redirects a system block into the pool, in memory and on flash.
TypeOK == /\ mark \in [Block -> BOOLEAN] /\ flash \in [Block -> [Page -> Content]]
          /\ stored \in [System -> [Page -> 0..MaxWrites]] /\ writes \in 0..MaxWrites
          /\ Memory

\* No two blocks share a replacement, and no replacement is the table's own
\* block: blocks are picked from the pool for both, through two searches.
Disjoint ==
  /\ \A j, k \in DOMAIN bmt : bmt[j].mapped_index = bmt[k].mapped_index => j = k
  /\ \A k \in DOMAIN bmt : bmt[k].mapped_index # bmt_block_index

\* Power cuts and up to MaxFails failing operations lose nothing: between accesses,
\* every page reads as the last completed write left it.
Durable ==
  pc = "idle" /\ fails <= MaxFails =>
    \A b \in System, p \in Page : stored[b][p] # 0 =>
      /\ flash[get_mapping_block_index(b)][p].kind = "data"
      /\ flash[get_mapping_block_index(b)][p].val = stored[b][p]

\* "not mark bad, should be power lost last time": between accesses, a block is
\* redirected only if it is marked, so that a rebuilt table redirects it too.
RedirectedIsMarked ==
  pc = "idle" /\ fails <= MaxFails => \A k \in DOMAIN bmt : mark[bmt[k].bad_index]

\* A system block is marked only once the table redirects it, or when no
\* replacement is left: nothing else may take a block in use away from its owner.
MarkedAfterRedirected ==
  [][\A b \in System : mark'[b] /\ ~mark[b] =>
       pc = "mark_failed" \/ \E k \in DOMAIN bmt : bmt[k].bad_index = b]_vars

\* Every update ends, however often operations fail, since each failure costs
\* a block of the pool.
UpdateEnds == pc \notin {"idle", "off"} ~> pc \in {"idle", "off"}
=============================================================================
