---------------------------- MODULE BlkDevProofs -----------------------------
(***************************************************************************)
(* Theorems about BlkDev, for blocks of any size, a device of any length   *)
(* and any number of calls.                                                *)
(*                                                                         *)
(* The argument: from what the call asks for, the head ends where the      *)
(* blocks begin or where the range does, the middle ends at AlignedEnd,    *)
(* and the tail is what is left (SplitIs), so that the code is never       *)
(* between parts with the wrong address (Placed); the buffer that is       *)
(* written back holds what the medium does (Buffered), so that only bytes  *)
(* of the range change; and the bytes done are those below addr (Carried). *)
(***************************************************************************)
EXTENDS BlkDev, TLAPS

\* Where addr is at the start of each part.
Placed ==
  /\ pc \in {"head", "head_write"} => addr = req.start /\ PartStart # 0 /\ req.n > 0
  /\ pc = "middle" => addr % BLKSZ = 0 /\ size >= BLKSZ
  /\ pc \in {"tail", "tail_write"} => addr = AlignedEnd /\ PartEnd # 0
  /\ pc = "done" => size = 0

Buffered ==
  pc \in {"head_write", "tail_write"} => Writes /\ buf = Stored(Block(BlockOf(addr)))

\* A byte of the range is new just when it is below addr.
Carried ==
  /\ Writes /\ pc # "idle" => \A a \in Asked : medium[req.area][a] = New(a) <=> a < addr
  /\ Reads => DOMAIN out = 0 .. pos - 1
  /\ Reads /\ pc # "idle" =>
       \A a \in req.start .. addr - 1 : out[a - req.start] = medium[req.area][a]
  /\ Writes => DOMAIN out = {}

\* No byte is named by a call to come.
Known ==
  /\ req.id <= calls
  /\ \A r \in Areas : \A a \in Addresses : medium[r][a][1] <= calls
  /\ Writes => req.area = "user"

IInv == TypeOK /\ Placed /\ Buffered /\ Carried /\ Known /\ InOrder

-----------------------------------------------------------------------------
(* Blocks and addresses.                                                   *)

LEMMA Sizes ==
  /\ BLKSZ \in Nat /\ BLKSZ >= 1 /\ BLOCKS \in Nat /\ BLOCKS >= 1 /\ MaxCalls \in Nat
  /\ BLOCKS * BLKSZ \in Nat
BY SizesAssumption DEF SizesAssumption

LEMMA AddressNat == \A a \in Addresses : a \in Nat
BY Sizes DEF Addresses

\* The block of an address and the place in it.
LEMMA DivMod ==
  ASSUME NEW a \in Nat
  PROVE  /\ BlockOf(a) \in Nat /\ a % BLKSZ \in 0..BLKSZ - 1
         /\ a = BlockOf(a) * BLKSZ + (a % BLKSZ)
BY Sizes DEF BlockOf

LEMMA Times ==
  ASSUME NEW p \in Nat, NEW q \in Nat
  PROVE  /\ p * BLKSZ \in Nat /\ (p + 1) * BLKSZ = p * BLKSZ + BLKSZ
         /\ p < q => p * BLKSZ + BLKSZ <= q * BLKSZ
         /\ p <= q => p * BLKSZ <= q * BLKSZ
         /\ (q - p) * BLKSZ = q * BLKSZ - p * BLKSZ
BY Sizes

LEMMA BlockUnique ==
  ASSUME NEW a \in Nat, NEW k \in Nat, k * BLKSZ <= a, a < k * BLKSZ + BLKSZ
  PROVE  BlockOf(a) = k
<1>1. /\ BlockOf(a) \in Nat /\ a % BLKSZ \in 0..BLKSZ - 1
      /\ a = BlockOf(a) * BLKSZ + (a % BLKSZ)
  BY DivMod
<1>2. BlockOf(a) < k => BlockOf(a) * BLKSZ + BLKSZ <= k * BLKSZ  BY <1>1, Times
<1>3. k < BlockOf(a) => k * BLKSZ + BLKSZ <= BlockOf(a) * BLKSZ  BY <1>1, Times
<1>4. k * BLKSZ \in Nat /\ BlockOf(a) * BLKSZ \in Nat  BY <1>1, Times
<1> QED  BY <1>1, <1>2, <1>3, <1>4, Sizes

\* A block is the addresses that are in it.
LEMMA BlockIs ==
  ASSUME NEW a \in Nat, NEW k \in Nat
  PROVE  a \in Block(k) <=> BlockOf(a) = k
<1>1. /\ BlockOf(a) \in Nat /\ a % BLKSZ \in 0..BLKSZ - 1
      /\ a = BlockOf(a) * BLKSZ + (a % BLKSZ)
  BY DivMod
<1>2. k * BLKSZ \in Nat /\ (k + 1) * BLKSZ = k * BLKSZ + BLKSZ  BY Times
<1>3. a \in Block(k) <=> k * BLKSZ <= a /\ a < k * BLKSZ + BLKSZ
  BY <1>2, Sizes DEF Block
<1>4. a \in Block(k) => BlockOf(a) = k  BY <1>3, BlockUnique
<1>5. BlockOf(a) = k => a \in Block(k)
  <2> SUFFICES ASSUME BlockOf(a) = k PROVE a \in Block(k)
      OBVIOUS
  <2>1. a = k * BLKSZ + (a % BLKSZ)  BY <1>1
  <2> QED  BY <1>1, <1>2, <1>3, <2>1, Sizes
<1> QED  BY <1>4, <1>5

\* Blocks follow the order of addresses, strictly at the first of a block.
LEMMA BlockOrder ==
  ASSUME NEW a \in Nat, NEW b \in Nat, a <= b
  PROVE  /\ BlockOf(a) <= BlockOf(b)
         /\ a < b /\ b % BLKSZ = 0 => BlockOf(a) < BlockOf(b)
<1>1. /\ BlockOf(a) \in Nat /\ a % BLKSZ \in 0..BLKSZ - 1
      /\ a = BlockOf(a) * BLKSZ + (a % BLKSZ)
  BY DivMod
<1>2. /\ BlockOf(b) \in Nat /\ b % BLKSZ \in 0..BLKSZ - 1
      /\ b = BlockOf(b) * BLKSZ + (b % BLKSZ)
  BY DivMod
<1>3. BlockOf(b) < BlockOf(a) => BlockOf(b) * BLKSZ + BLKSZ <= BlockOf(a) * BLKSZ
  BY <1>1, <1>2, Times
<1>4. BlockOf(b) * BLKSZ \in Nat /\ BlockOf(a) * BLKSZ \in Nat  BY <1>1, <1>2, Times
<1>5. BlockOf(a) <= BlockOf(b)  BY <1>1, <1>2, <1>3, <1>4, Sizes
<1>6. ASSUME a < b, b % BLKSZ = 0 PROVE BlockOf(a) # BlockOf(b)
  <2> SUFFICES ASSUME BlockOf(a) = BlockOf(b) PROVE FALSE
      OBVIOUS
  <2>1. BlockOf(a) * BLKSZ = BlockOf(b) * BLKSZ  OBVIOUS
  <2> QED  BY <1>1, <1>2, <1>4, <1>6, <2>1
<1> QED  BY <1>1, <1>2, <1>5, <1>6

\* The first address of a block.
LEMMA BlockStart ==
  ASSUME NEW a \in Nat, NEW b \in Nat, a % BLKSZ = 0
  PROVE  /\ a <= b /\ b < a + BLKSZ => BlockOf(b) = BlockOf(a)
         /\ b = a + BLKSZ => b % BLKSZ = 0
         /\ a = BlockOf(a) * BLKSZ
<1>0. BlockOf(a) \in Nat /\ a = BlockOf(a) * BLKSZ + (a % BLKSZ)  BY DivMod
<1>1. BlockOf(a) \in Nat /\ a = BlockOf(a) * BLKSZ
  <2>1. BlockOf(a) * BLKSZ \in Nat  BY <1>0, Times
  <2> QED  BY <1>0, <2>1
<1>2. ASSUME a <= b, b < a + BLKSZ PROVE BlockOf(b) = BlockOf(a)
  <2>1. BlockOf(a) * BLKSZ <= b /\ b < BlockOf(a) * BLKSZ + BLKSZ
    BY <1>1, <1>2
  <2> QED  BY <1>1, <2>1, BlockUnique
<1>3. ASSUME b = a + BLKSZ PROVE b % BLKSZ = 0
  <2>1. b = (BlockOf(a) + 1) * BLKSZ  BY <1>1, <1>3, Times
  <2>2. BlockOf(a) + 1 \in Nat /\ b < (BlockOf(a) + 1) * BLKSZ + BLKSZ
    BY <1>1, <2>1, Sizes
  <2>3. BlockOf(b) = BlockOf(a) + 1  BY <2>1, <2>2, BlockUnique
  <2>4. b = BlockOf(b) * BLKSZ + (b % BLKSZ) /\ b % BLKSZ \in 0..BLKSZ - 1  BY DivMod
  <2>5. b = BlockOf(b) * BLKSZ  BY <2>1, <2>3
  <2> QED  BY <2>4, <2>5
<1> QED  BY <1>1, <1>2, <1>3

-----------------------------------------------------------------------------
(* The split of the range.                                                 *)

CallFits == req.start \in Nat /\ req.n \in Nat

\* Ahead of address a there are left bytes: which part comes next.
Continues(a, left, next) ==
  /\ next \in {"middle", "tail", "done"}
  /\ next = "middle" => a % BLKSZ = 0 /\ left >= BLKSZ
  /\ next = "tail" => a = AlignedEnd /\ PartEnd # 0
  /\ next = "done" => left = 0

SplitIs ==
  CallFits =>
    /\ PartStart \in 0..BLKSZ - 1 /\ PartEnd \in 0..BLKSZ - 1 /\ End \in Nat
    /\ AlignedEnd \in Nat /\ AlignedEnd + PartEnd = End /\ AlignedEnd % BLKSZ = 0
    /\ PartLen \in 0..req.n /\ PartStart + PartLen <= BLKSZ
    /\ (req.start + PartLen) % BLKSZ = 0 \/ PartLen = req.n
    /\ \A a, left \in Nat :
         a + left = End /\ (a % BLKSZ = 0 \/ left = 0) =>
           /\ Continues(a, left, Middle(a, left))
           /\ left < BLKSZ => Tail(a, left) = Middle(a, left)

LEMMA Split == SplitIs
<1> SUFFICES ASSUME CallFits
             PROVE  /\ PartStart \in 0..BLKSZ - 1 /\ PartEnd \in 0..BLKSZ - 1 /\ End \in Nat
                    /\ AlignedEnd \in Nat /\ AlignedEnd + PartEnd = End /\ AlignedEnd % BLKSZ = 0
                    /\ PartLen \in 0..req.n /\ PartStart + PartLen <= BLKSZ
                    /\ (req.start + PartLen) % BLKSZ = 0 \/ PartLen = req.n
                    /\ \A a, left \in Nat :
                         a + left = End /\ (a % BLKSZ = 0 \/ left = 0) =>
                           /\ Continues(a, left, Middle(a, left))
                           /\ left < BLKSZ => Tail(a, left) = Middle(a, left)
    BY DEF SplitIs
<1>1. req.start \in Nat /\ req.n \in Nat /\ End \in Nat /\ End = req.start + req.n
  BY DEF CallFits, End
<1>2. /\ PartStart \in 0..BLKSZ - 1 /\ BlockOf(req.start) * BLKSZ \in Nat
      /\ req.start = BlockOf(req.start) * BLKSZ + PartStart
  BY <1>1, DivMod, Times DEF PartStart
<1>3. /\ PartEnd \in 0..BLKSZ - 1 /\ BlockOf(End) \in Nat /\ BlockOf(End) * BLKSZ \in Nat
      /\ End = BlockOf(End) * BLKSZ + PartEnd
  BY <1>1, DivMod, Times DEF PartEnd
<1>4. AlignedEnd = BlockOf(End) * BLKSZ /\ AlignedEnd + PartEnd = End /\ AlignedEnd \in Nat
  BY <1>1, <1>3, Sizes DEF AlignedEnd
<1>5. \A k \in Nat : (k * BLKSZ) % BLKSZ = 0
  <2> SUFFICES ASSUME NEW k \in Nat PROVE (k * BLKSZ) % BLKSZ = 0
      OBVIOUS
  <2>1. k * BLKSZ \in Nat  BY Times
  <2> DEFINE a == k * BLKSZ
  <2>2. a \in Nat /\ k * BLKSZ <= a /\ a < k * BLKSZ + BLKSZ  BY <2>1, Sizes
  <2>3. BlockOf(a) = k  BY <2>2, BlockUnique
  <2>4. a = BlockOf(a) * BLKSZ + (a % BLKSZ) /\ a % BLKSZ \in 0..BLKSZ - 1
    BY <2>2, DivMod
  <2>5. a = k * BLKSZ + (a % BLKSZ)  BY <2>3, <2>4
  <2> HIDE DEF a
  <2>6. a = k * BLKSZ  BY DEF a
  <2>7. a % BLKSZ = 0  BY <2>1, <2>4, <2>5, <2>6
  <2> QED  BY <2>6, <2>7
<1>6. AlignedEnd % BLKSZ = 0  BY <1>3, <1>4, <1>5
<1>7. PartLen \in 0..req.n /\ PartStart + PartLen <= BLKSZ
  BY <1>1, <1>2, Sizes DEF PartLen
<1>8. (req.start + PartLen) % BLKSZ = 0 \/ PartLen = req.n
  <2>1. CASE PartStart + req.n > BLKSZ
    <3>1. PartLen = BLKSZ - PartStart  BY <2>1 DEF PartLen
    <3>2. BlockOf(req.start) \in Nat  BY <1>1, DivMod
    <3>3. req.start + PartLen = (BlockOf(req.start) + 1) * BLKSZ
      BY <1>1, <1>2, <3>1, <3>2, Times, Sizes
    <3> QED  BY <1>5, <3>2, <3>3
  <2>2. CASE ~(PartStart + req.n > BLKSZ)  BY <2>2 DEF PartLen
  <2> QED  BY <2>1, <2>2
<1>9. ASSUME NEW a \in Nat, NEW left \in Nat, a + left = End, a % BLKSZ = 0 \/ left = 0
      PROVE  /\ Continues(a, left, Middle(a, left))
             /\ left < BLKSZ => Tail(a, left) = Middle(a, left)
  <2>1. left < BLKSZ => Tail(a, left) = Middle(a, left)
    BY <1>9, Sizes DEF Middle
  <2>2. CASE left >= BLKSZ
    <3>1. Middle(a, left) = "middle" /\ left # 0  BY <2>2, Sizes DEF Middle
    <3> QED  BY <1>9, <2>1, <2>2, <3>1 DEF Continues
  <2>3. CASE left = 0
    BY <2>1, <2>3, Sizes DEF Continues, Tail
  <2>4. CASE left # 0 /\ left < BLKSZ
    <3>1. a % BLKSZ = 0  BY <1>9, <2>4
    <3>2. BlockOf(End) = BlockOf(a) /\ a = BlockOf(a) * BLKSZ
      <4>1. a <= End /\ End < a + BLKSZ  BY <1>1, <1>9, <2>4, Sizes
      <4>2. a \in Nat /\ End \in Nat  BY <1>1, <1>9
      <4> QED  BY <3>1, <4>1, <4>2, BlockStart
    <3>3. a = AlignedEnd  BY <1>4, <3>2
    <3>4. PartEnd # 0  BY <1>4, <1>9, <1>3, <2>4, <3>3
    <3>5. Tail(a, left) = "tail"  BY <1>9, <2>4, <3>4 DEF Tail
    <3> QED  BY <2>1, <2>4, <3>3, <3>4, <3>5 DEF Continues
  <2> QED  BY <1>9, <2>2, <2>3, <2>4, Sizes
<1> QED  BY <1>1, <1>2, <1>3, <1>4, <1>6, <1>7, <1>8, <1>9

\* The middle is whole blocks, up to AlignedEnd.
LEMMA MiddleIs ==
  ASSUME CallFits, NEW a \in Nat, NEW left \in Nat,
         a + left = End, a % BLKSZ = 0, left >= BLKSZ
  PROVE  /\ Blks(a) \in Nat /\ Blks(a) * BLKSZ = AlignedEnd - a
         /\ a < AlignedEnd
<1>1. /\ AlignedEnd \in Nat /\ AlignedEnd + PartEnd = End /\ AlignedEnd % BLKSZ = 0
      /\ PartEnd \in 0..BLKSZ - 1
  BY Split DEF SplitIs
<1>2. a < AlignedEnd  BY <1>1, Sizes
<1>3. AlignedEnd = BlockOf(AlignedEnd) * BLKSZ /\ a = BlockOf(a) * BLKSZ
  BY <1>1, BlockStart
<1>4. BlockOf(a) \in Nat /\ BlockOf(AlignedEnd) \in Nat /\ BlockOf(a) <= BlockOf(AlignedEnd)
  BY <1>1, <1>2, DivMod, BlockOrder
<1> DEFINE k == BlockOf(AlignedEnd) - BlockOf(a)
<1>5. k \in Nat  BY <1>4
<1>6. AlignedEnd - a = k * BLKSZ  BY <1>3, <1>4, Times
<1>7. k * BLKSZ \in Nat /\ k * BLKSZ < k * BLKSZ + BLKSZ  BY <1>5, Times, Sizes
<1> HIDE DEF k
<1>8. BlockOf(k * BLKSZ) = k  BY <1>5, <1>7, BlockUnique
<1>9. Blks(a) = k  BY <1>6, <1>8 DEF Blks
<1> QED  BY <1>2, <1>5, <1>6, <1>9

-----------------------------------------------------------------------------
(* The parts of a range.                                                   *)

LEMMA TypeFacts ==
  ASSUME TypeOK
  PROVE  /\ CallFits /\ req.id \in Nat /\ req.area \in Areas /\ req.kind \in {"read", "write"}
         /\ End \in Nat /\ End = req.start + req.n /\ End <= BLOCKS * BLKSZ
         /\ addr \in Nat /\ size \in Nat /\ pos \in Nat
         /\ addr + size = End /\ pos = addr - req.start
         /\ req.start <= addr /\ addr <= End
         /\ Asked \subseteq Addresses
<1>1. req \in Requests /\ size \in 0..req.n /\ addr \in Nat /\ pos \in Nat /\ addr + size = End /\ pos + size = req.n
      /\ End <= BLOCKS * BLKSZ
  BY DEF TypeOK
<1>2. /\ req.start \in Addresses /\ req.n \in 0..BLOCKS * BLKSZ /\ req.id \in 0..MaxCalls
      /\ req.area \in Areas /\ req.kind \in {"read", "write"}
  BY <1>1 DEF Requests
<1>3. req.start \in Nat /\ req.n \in Nat /\ req.id \in Nat
  BY <1>2, Sizes DEF Addresses
<1>4. addr = End - size /\ pos = req.n - size /\ End = req.start + req.n
  BY <1>1, <1>3 DEF End
<1>5. Asked \subseteq Addresses
  BY <1>1, <1>2, <1>3, <1>4, Sizes DEF Asked, Addresses
<1> QED  BY <1>1, <1>2, <1>3, <1>4, <1>5 DEF CallFits

\* Bytes of one block are of one part, and a later part has later bytes.
LEMMA PartOrder ==
  ASSUME CallFits, NEW a \in Asked, NEW b \in Asked
  PROVE  /\ BlockOf(a) = BlockOf(b) => Part(a) = Part(b)
         /\ Part(a) < Part(b) => a < b
<1>1. /\ a \in Nat /\ b \in Nat /\ req.start \in Nat /\ End \in Nat
      /\ req.start <= a /\ req.start <= b /\ a < End /\ b < End
  BY DEF CallFits, Asked, End
<1>2. BlockOf(a) = BlockOf(b) => Part(a) = Part(b)
  BY DEF Part
<1>3. ASSUME Part(a) < Part(b), b <= a PROVE FALSE
  <2>1. /\ BlockOf(b) <= BlockOf(a) /\ BlockOf(req.start) <= BlockOf(b)
        /\ BlockOf(a) <= BlockOf(End)
        /\ BlockOf(a) \in Nat /\ BlockOf(b) \in Nat /\ BlockOf(req.start) \in Nat
        /\ BlockOf(End) \in Nat
    BY <1>1, <1>3, BlockOrder, DivMod
  <2>2. CASE PartStart # 0 /\ BlockOf(a) = BlockOf(req.start)
    <3>1. BlockOf(a) = BlockOf(b)  BY <2>1, <2>2
    <3>2. Part(a) = Part(b)  BY <3>1, <1>2
    <3>3. Part(a) \in {1, 2, 3}  BY DEF Part
    <3> QED  BY <1>3, <3>2, <3>3
  <2>3. CASE ~(PartStart # 0 /\ BlockOf(a) = BlockOf(req.start))
    <3>1. Part(a) \in {2, 3} /\ Part(b) \in {1, 2, 3}  BY <2>3 DEF Part
    <3>2. Part(a) = 2 /\ Part(b) = 3  BY <1>3, <3>1
    <3>3. PartEnd # 0 /\ BlockOf(b) = BlockOf(End)  BY <3>2 DEF Part
    <3>4. BlockOf(a) = BlockOf(End)  BY <2>1, <3>3
    <3>5. Part(a) = 3  BY <2>3, <3>3, <3>4 DEF Part
    <3> QED  BY <3>2, <3>5
  <2> QED  BY <2>2, <2>3
<1> QED  BY <1>1, <1>2, <1>3

\* While a call is under way the bytes done are those below addr, hence in
\* order.
OrderIs == TypeOK /\ pc # "idle" /\ Carried /\ Known => InOrder

LEMMA Order == OrderIs
<1> SUFFICES ASSUME TypeOK, pc # "idle", Carried, Known, Writes,
                    NEW a \in Asked, NEW b \in Asked,
                    Part(a) < Part(b), medium["user"][b] = New(b)
             PROVE  medium["user"][a] = New(a)
    BY DEF OrderIs, InOrder
<1>1. \A x \in Asked : medium["user"][x] = New(x) <=> x < addr
  BY DEF Carried, Known
<1>2. a < b  BY PartOrder, TypeFacts
<1>3. a \in Nat /\ b \in Nat /\ addr \in Nat  BY TypeFacts DEF Asked, CallFits
<1>4. b < addr  BY <1>1
<1> QED  BY <1>1, <1>2, <1>3, <1>4

-----------------------------------------------------------------------------
(* What a transfer does to the medium.                                     *)

\* The bytes of A are those of the call, and the others are as they were.
Puts(A) ==
  /\ medium' \in [Areas -> [Addresses -> Bytes]]
  /\ \A r \in Areas : \A a \in Addresses :
       medium'[r][a] = IF r = req.area /\ a \in A THEN New(a) ELSE medium[r][a]

LEMMA Within ==
  ASSUME NEW s \in Nat, NEW e \in Nat, NEW a \in Nat, NEW z \in Nat, a + z = e, s <= a,
         NEW n \in 0..z
  PROVE  /\ a..a + n - 1 \in SUBSET (s..e - 1)
         /\ \A x \in a..a + n - 1 : x \in Nat
OBVIOUS

LEMMA DataIsNew ==
  ASSUME TypeOK, NEW a \in Asked
  PROVE  Data(a) = New(a) /\ New(a) \in Bytes
<1>1. a \in Nat /\ req.start <= a  BY TypeFacts DEF Asked, CallFits
<1>2. pos + a - addr = a - req.start /\ a - req.start \in Nat
  BY <1>1, TypeFacts DEF CallFits
<1>3. req.id \in -1..MaxCalls
  <2>1. req \in Requests  BY DEF TypeOK
  <2>2. req.id \in 0..MaxCalls  BY <2>1 DEF Requests
  <2> QED  BY <2>2, Sizes
<1> QED  BY <1>2, <1>3 DEF Data, New, Bytes

LEMMA PutIs ==
  ASSUME TypeOK, NEW A \in SUBSET Asked, Put(A)
  PROVE  Puts(A)
<1> DEFINE f == medium[req.area]
<1>1. f \in [Addresses -> Bytes] /\ req.area \in Areas /\ medium \in [Areas -> [Addresses -> Bytes]]
  BY TypeFacts DEF TypeOK
<1>2. \A a \in A : Data(a) = New(a) /\ New(a) \in Bytes  BY DataIsNew
<1>3. /\ With(f, A) \in [Addresses -> Bytes]
      /\ \A a \in Addresses : With(f, A)[a] = IF a \in A THEN New(a) ELSE f[a]
  <2> HIDE DEF f
  <2> QED  BY <1>1, <1>2 DEF With
<1>4. medium' = [medium EXCEPT ![req.area] = With(f, A)]  BY DEF Put
<1> QED  BY <1>1, <1>3, <1>4 DEF Puts

\* The whole block is written back, but only the bytes of the range change.
LEMMA WritePartIs ==
  ASSUME IInv, NEW at, NEW n \in 0..size, NEW after, WritePart(at, n, after),
         pc \in {"head_write", "tail_write"},
         \A a \in addr..addr + n - 1 : BlockOf(a) = BlockOf(addr)
  PROVE  Puts(addr..addr + n - 1)
<1> DEFINE A == addr..addr + n - 1
           f == medium[req.area]
           g == [a \in Addresses |-> IF a \in DOMAIN buf THEN Changed(n)[a] ELSE f[a]]
<1>1. TypeOK /\ buf = Stored(Block(BlockOf(addr)))  BY DEF IInv, Buffered
<1>2. f \in [Addresses -> Bytes] /\ req.area \in Areas /\ medium \in [Areas -> [Addresses -> Bytes]]
  BY <1>1, TypeFacts DEF TypeOK
<1>3. A \in SUBSET Asked
  <2>1. /\ addr \in Nat /\ size \in Nat /\ addr + size = End /\ req.start \in Nat
        /\ req.start <= addr /\ End \in Nat
    BY <1>1, TypeFacts DEF CallFits
  <2> QED  BY <2>1, Within DEF Asked
<1>12. \A a \in A : BlockOf(a) = BlockOf(addr)  OBVIOUS
<1> HIDE DEF A
<1>4. \A a \in A : Data(a) = New(a) /\ New(a) \in Bytes  BY <1>1, <1>3, DataIsNew
<1>5. DOMAIN buf = Block(BlockOf(addr)) /\ \A a \in DOMAIN buf : buf[a] = f[a]
  BY <1>1 DEF Stored
<1>6. A \subseteq DOMAIN buf
  <2> SUFFICES ASSUME NEW a \in A PROVE a \in Block(BlockOf(addr))
      BY <1>5
  <2>1. Asked \subseteq Addresses /\ addr \in Nat  BY <1>1, TypeFacts
  <2>2. a \in Nat  BY <1>3, <2>1, AddressNat, Zenon
  <2>3. BlockOf(addr) \in Nat  BY <2>1, DivMod
  <2> QED  BY <1>12, <2>2, <2>3, BlockIs
<1>7. \A a \in DOMAIN buf : Changed(n)[a] = IF a \in A THEN New(a) ELSE f[a]
  BY <1>4, <1>5 DEF Changed, With, A
<1>8. /\ g \in [Addresses -> Bytes]
      /\ \A a \in Addresses : g[a] = IF a \in A THEN New(a) ELSE f[a]
  <2>1. \A a \in Addresses : g[a] = IF a \in A THEN New(a) ELSE f[a]
    BY <1>6, <1>7
  <2>2. \A a \in Addresses : g[a] \in Bytes
    <3> HIDE DEF g, f, A
    <3> QED  BY <1>2, <1>4, <2>1
  <2> QED  BY <2>1, <2>2
<1>9. medium' = [medium EXCEPT ![req.area] = g]  BY DEF WritePart
<1> HIDE DEF g, f
<1>10. medium' \in [Areas -> [Addresses -> Bytes]]  BY <1>2, <1>8, <1>9
<1>11. ASSUME NEW r \in Areas, NEW a \in Addresses
       PROVE  medium'[r][a] = IF r = req.area /\ a \in A THEN New(a) ELSE medium[r][a]
  BY <1>2, <1>8, <1>9 DEF f
<1> QED  BY <1>10, <1>11 DEF Puts, A

-----------------------------------------------------------------------------
(* One part done.                                                          *)

LEMMA ProgressType ==
  ASSUME TypeOK, NEW n \in 0..size, Advance(n), UNCHANGED req
  PROVE  /\ addr' = addr + n /\ pos' = pos + n /\ size' = size - n
         /\ addr' \in Nat /\ pos' \in Nat /\ size' \in 0..req.n
         /\ addr' + size' = End /\ pos' + size' = req.n /\ End' = End
<1>1. addr' = addr + n /\ pos' = pos + n /\ size' = size - n  BY DEF Advance
<1>2. /\ addr \in Nat /\ size \in 0..req.n /\ pos \in Nat /\ addr + size = End
      /\ pos + size = req.n /\ req.n \in Nat /\ End \in Nat
  BY TypeFacts DEF TypeOK, CallFits
<1>3. n \in Nat /\ n <= size  BY <1>2
<1> QED  BY <1>1, <1>2, <1>3 DEF End

LEMMA AfterPut ==
  ASSUME IInv, Writes, pc # "idle", NEW n \in 0..size, Puts(addr..addr + n - 1),
         addr' = addr + n, UNCHANGED <<req, calls>>
  PROVE  /\ \A a \in Asked : medium'[req.area][a] = New(a) <=> a < addr'
         /\ Known'
<1>1. TypeOK /\ Carried /\ Known  BY DEF IInv
<1>2. /\ addr \in Nat /\ size \in Nat /\ req.area \in Areas /\ Asked \subseteq Addresses
      /\ req.start \in Nat
  BY <1>1, TypeFacts DEF CallFits
<1>3. n \in Nat  BY <1>2
<1>4. \A a \in Asked : a \in Nat  BY <1>2, AddressNat
<1>5. ASSUME NEW a \in Asked PROVE medium'[req.area][a] = New(a) <=> a < addr'
  <2>1. medium[req.area][a] = New(a) <=> a < addr  BY <1>1 DEF Carried
  <2>2. medium'[req.area][a] = IF a \in addr..addr + n - 1 THEN New(a) ELSE medium[req.area][a]
    BY <1>2 DEF Puts
  <2>3. a \in Nat /\ addr' = addr + n  BY <1>4
  <2>4. a \in addr..addr + n - 1 <=> addr <= a /\ a < addr + n
    BY <1>2, <1>3, <2>3
  <2> QED  BY <1>2, <1>3, <2>1, <2>2, <2>3, <2>4
<1>6. ASSUME NEW r \in Areas, NEW a \in Addresses PROVE medium'[r][a][1] <= calls'
  <2>1. medium[r][a][1] <= calls /\ req.id <= calls /\ calls' = calls
    BY <1>1 DEF Known
  <2>2. New(a)[1] = req.id  BY DEF New
  <2>3. medium'[r][a] = New(a) \/ medium'[r][a] = medium[r][a]  BY DEF Puts
  <2> QED  BY <2>1, <2>2, <2>3
<1> QED  BY <1>1, <1>5, <1>6 DEF Known, Writes

\* Offsets in the caller's memory of the n addresses from a on.
Offsets(p, a, n) == {p + x - a : x \in a..a + n - 1}

LEMMA OffsetsAre ==
  ASSUME NEW p \in Nat, NEW a \in Nat, NEW n \in Nat
  PROVE  /\ Offsets(p, a, n) = p..p + n - 1
         /\ (0..p - 1) \cup Offsets(p, a, n) = 0..p + n - 1
<1>1. ASSUME NEW i \in p..p + n - 1 PROVE i \in {p + x - a : x \in a..a + n - 1}
  <2>1. a + i - p \in a..a + n - 1 /\ p + (a + i - p) - a = i  OBVIOUS
  <2> QED  BY <2>1
<1>2. ASSUME NEW x \in a..a + n - 1 PROVE p + x - a \in p..p + n - 1
  OBVIOUS
<1>3. Offsets(p, a, n) = p..p + n - 1  BY <1>1, <1>2 DEF Offsets
<1>4. (0..p - 1) \cup (p..p + n - 1) = 0..p + n - 1  OBVIOUS
<1> QED  BY <1>3, <1>4

LEMMA AfterCopy ==
  ASSUME IInv, Reads, pc # "idle", NEW n \in 0..size, out' = Copied(addr..addr + n - 1),
         Advance(n), UNCHANGED <<req, medium>>
  PROVE  /\ DOMAIN out' = 0..pos' - 1
         /\ \A a \in req.start..addr' - 1 : out'[a - req.start] = medium[req.area][a]
<1>1. TypeOK /\ Carried  BY DEF IInv
<1>2. /\ addr \in Nat /\ size \in Nat /\ pos \in Nat /\ req.start \in Nat
      /\ pos = addr - req.start /\ req.start <= addr
  BY <1>1, TypeFacts DEF CallFits
<1>3. n \in Nat /\ addr' = addr + n /\ pos' = pos + n  BY <1>2 DEF Advance
<1>4. DOMAIN out = 0..pos - 1 /\ \A a \in req.start..addr - 1 : out[a - req.start] = medium[req.area][a]
  BY <1>1 DEF Carried
<1>5. /\ Offsets(pos, addr, n) = pos..pos + n - 1
      /\ (0..pos - 1) \cup Offsets(pos, addr, n) = 0..pos + n - 1
  <2>1. pos \in Nat /\ addr \in Nat /\ n \in Nat  BY <1>2, <1>3
  <2> QED  BY <2>1, OffsetsAre
<1>8. DOMAIN out' = (0..pos - 1) \cup Offsets(pos, addr, n)
  BY <1>4 DEF Copied, Offsets
<1>6. DOMAIN out' = 0..pos' - 1
  <2>1. pos' = pos + n  BY <1>3
  <2>2. (0..pos - 1) \cup Offsets(pos, addr, n) = 0..pos + n - 1  BY <1>5
  <2>3. DOMAIN out' = 0..pos + n - 1  BY <1>8, <2>2, Zenon
  <2>4. 0..pos' - 1 = 0..pos + n - 1
    <3>1. pos \in Nat /\ n \in Nat  BY <1>2, <1>3
    <3> QED  BY <2>1, <3>1
  <2> QED  BY <2>3, <2>4, Zenon
<1>7. ASSUME NEW a \in req.start..addr' - 1
      PROVE  out'[a - req.start] = medium[req.area][a]
  <2> DEFINE i == a - req.start
  <2>1. i \in 0..pos' - 1 /\ a \in Nat /\ i \in Nat  BY <1>2, <1>3
  <2>2. out'[i] = IF i \in DOMAIN out THEN out[i] ELSE medium[req.area][addr + i - pos]
    BY <1>6, <2>1 DEF Copied
  <2>3. addr + i - pos = a  BY <1>2, <2>1
  <2>4. CASE i \in DOMAIN out
    <3>1. a \in req.start..addr - 1  BY <1>2, <1>4, <2>1, <2>4
    <3>2. out[i] = medium[req.area][a]  BY <1>4, <3>1
    <3> QED  BY <2>2, <2>4, <3>2
  <2>5. CASE i \notin DOMAIN out  BY <2>2, <2>3, <2>5
  <2> QED  BY <2>4, <2>5
<1> QED  BY <1>6, <1>7

OneBlock == {{}} \cup {Block(b) : b \in 0 .. BLOCKS - 1}

\* The range of bytes a part is about.
Part1(n) == addr..addr + n - 1

LEMMA PartInAsked ==
  ASSUME TypeOK, NEW n \in 0..size
  PROVE  Part1(n) \in SUBSET Asked
<1>1. /\ addr \in Nat /\ size \in Nat /\ addr + size = End /\ req.start \in Nat
      /\ req.start <= addr /\ End \in Nat
  BY TypeFacts DEF CallFits
<1> QED  BY <1>1, Within DEF Asked, Part1

\* A part that is done, read or written, leaves the next one where it begins.
LEMMA PartDone ==
  ASSUME IInv, NEW n \in 0..size, Advance(n), UNCHANGED <<req, ret, calls>>,
         pc # "idle", DOMAIN buf' \in OneBlock,
         Continues(addr + n, size - n, pc'),
         \/ Writes /\ Puts(Part1(n)) /\ out' = out
         \/ Reads /\ UNCHANGED medium /\ out' = Copied(Part1(n))
  PROVE  IInv'
<1>1. TypeOK /\ Carried /\ Known  BY DEF IInv
<1>2. /\ addr' = addr + n /\ pos' = pos + n /\ size' = size - n
      /\ addr' \in Nat /\ pos' \in Nat /\ size' \in 0..req.n
      /\ addr' + size' = End /\ pos' + size' = req.n /\ End' = End
  BY <1>1, ProgressType
<1>3. /\ AlignedEnd' = AlignedEnd /\ PartEnd' = PartEnd /\ PartStart' = PartStart
      /\ Asked' = Asked /\ (Writes' <=> Writes) /\ (Reads' <=> Reads)
      /\ \A a : New(a)' = New(a)
  BY DEF AlignedEnd, PartEnd, PartStart, End, Asked, Writes, Reads, New
<1>4. pc' \in {"middle", "tail", "done"}  BY DEF Continues
<1>5. Placed'
  <2>1. pc' = "middle" => addr' % BLKSZ = 0 /\ size' >= BLKSZ  BY <1>2 DEF Continues
  <2>2. pc' = "tail" => addr' = AlignedEnd /\ PartEnd # 0  BY <1>2 DEF Continues
  <2>3. pc' = "done" => size' = 0  BY <1>2 DEF Continues
  <2> QED  BY <1>3, <1>4, <2>1, <2>2, <2>3 DEF Placed
<1>6. Buffered'  BY <1>4 DEF Buffered
<1>7. /\ req \in Requests /\ calls \in 0..MaxCalls /\ End <= BLOCKS * BLKSZ
      /\ ret \in {"ok", "failed", "cut"} /\ medium \in [Areas -> [Addresses -> Bytes]]
      /\ DOMAIN out \subseteq 0..req.n - 1
      /\ req.n \in Nat
  BY <1>1, TypeFacts DEF TypeOK, CallFits
<1>8. CASE Writes /\ Puts(Part1(n)) /\ out' = out
  <2>1. /\ \A a \in Asked : medium'[req.area][a] = New(a) <=> a < addr'
        /\ Known'
    BY <1>2, <1>8, AfterPut DEF Part1
  <2>2. ~Reads  BY <1>8 DEF Reads, Writes
  <2>3. DOMAIN out' = {}  BY <1>1, <1>8 DEF Carried
  <2>4. Carried'  BY <1>3, <2>1, <2>2, <2>3 DEF Carried
  <2>5. medium' \in [Areas -> [Addresses -> Bytes]]  BY <1>8 DEF Puts
  <2>6. DOMAIN out' \subseteq 0..req.n - 1  BY <2>3
  <2>7. TypeOK'
    BY <1>2, <1>4, <1>7, <2>5, <2>6 DEF TypeOK, OneBlock
  <2>8. InOrder'
    <3>1. OrderIs'  BY Order, PTL
    <3> QED  BY <1>4, <2>1, <2>4, <2>7, <3>1 DEF OrderIs
  <2> QED  BY <1>5, <1>6, <2>1, <2>4, <2>7, <2>8 DEF IInv
<1>9. CASE Reads /\ UNCHANGED medium /\ out' = Copied(Part1(n))
  <2>1. /\ DOMAIN out' = 0..pos' - 1
        /\ \A a \in req.start..addr' - 1 : out'[a - req.start] = medium[req.area][a]
    BY <1>9, AfterCopy DEF Part1
  <2>2. ~Writes  BY <1>9 DEF Reads, Writes
  <2>3. Carried'  BY <1>3, <1>9, <2>1, <2>2 DEF Carried
  <2>4. Known'  BY <1>1, <1>9 DEF Known, Writes
  <2>5. DOMAIN out' \subseteq 0..req.n - 1
    <3>1. pos' <= req.n  BY <1>2, <1>7
    <3> QED  BY <1>2, <1>7, <2>1, <3>1
  <2>6. TypeOK'
    BY <1>2, <1>4, <1>7, <1>9, <2>5 DEF TypeOK, OneBlock
  <2>7. InOrder'  BY <1>3, <2>2 DEF InOrder
  <2> QED  BY <1>5, <1>6, <2>3, <2>4, <2>6, <2>7 DEF IInv
<1> QED  BY <1>8, <1>9

-----------------------------------------------------------------------------
(* Head, middle and tail.                                                  *)

LEMMA OfDevice ==
  ASSUME NEW a \in Nat, a < BLOCKS * BLKSZ
  PROVE  Block(BlockOf(a)) \in OneBlock
<1>1. BlockOf(a) \in Nat /\ a % BLKSZ \in 0..BLKSZ - 1
      /\ a = BlockOf(a) * BLKSZ + (a % BLKSZ)
  BY DivMod
<1>2. BlockOf(a) >= BLOCKS => BLOCKS * BLKSZ <= BlockOf(a) * BLKSZ
  BY <1>1, Sizes, Times
<1>3. BlockOf(a) * BLKSZ \in Nat  BY <1>1, Times
<1>4. BlockOf(a) < BLOCKS  BY <1>1, <1>2, <1>3, Sizes
<1> QED  BY <1>1, <1>4, Sizes DEF OneBlock

LEMMA HeadIs ==
  ASSUME IInv, pc = "head" \/ pc = "head_write"
  PROVE  /\ PartLen \in 0..size /\ addr < End
         /\ Continues(addr + PartLen, size - PartLen, AfterHead)
         /\ \A a \in Part1(PartLen) : BlockOf(a) = BlockOf(addr)
<1>1. TypeOK /\ addr = req.start /\ PartStart # 0 /\ req.n > 0
  BY DEF IInv, Placed
<1>2. /\ req.start \in Nat /\ req.n \in Nat /\ End \in Nat /\ size \in Nat
      /\ addr + size = End /\ End = req.start + req.n
  BY <1>1, TypeFacts DEF CallFits
<1>3. CallFits  BY <1>2 DEF CallFits
<1>4. /\ PartStart \in 0..BLKSZ - 1 /\ PartLen \in 0..req.n /\ PartStart + PartLen <= BLKSZ
      /\ (req.start + PartLen) % BLKSZ = 0 \/ PartLen = req.n
  BY <1>3, Split DEF SplitIs
<1>5. size = req.n /\ addr < End  BY <1>1, <1>2
<1>6. PartLen \in 0..size  BY <1>4, <1>5
<1>7. Continues(addr + PartLen, size - PartLen, AfterHead)
  <2> DEFINE a == addr + PartLen
             left == size - PartLen
  <2>1. PartLen \in Nat /\ PartLen <= size  BY <1>2, <1>6
  <2>2. a \in Nat /\ left \in Nat /\ a + left = End  BY <1>1, <1>2, <2>1
  <2>3. a % BLKSZ = 0 \/ left = 0
    <3>1. CASE (req.start + PartLen) % BLKSZ = 0  BY <1>1, <3>1
    <3>2. CASE PartLen = req.n
      <4>1. left = 0  BY <1>2, <1>5, <3>2
      <4> QED  BY <4>1
    <3> QED  BY <1>4, <3>1, <3>2
  <2> HIDE DEF a, left
  <2>4. Continues(a, left, Middle(a, left))  BY <1>3, <2>2, <2>3, Split DEF SplitIs
  <2>5. AfterHead = Middle(a, left)  BY DEF AfterHead, a, left
  <2> QED  BY <2>4, <2>5 DEF a, left
<1>8. ASSUME NEW a \in Part1(PartLen) PROVE BlockOf(a) = BlockOf(addr)
  <2>1. addr \in Nat /\ PartLen \in Nat  BY <1>1, <1>2, <1>6
  <2>2. a \in Nat /\ addr <= a /\ a < addr + PartLen  BY <1>8, <2>1 DEF Part1
  <2>3. /\ BlockOf(addr) \in Nat /\ BlockOf(addr) * BLKSZ \in Nat
        /\ addr = BlockOf(addr) * BLKSZ + PartStart
    BY <1>1, <2>1, DivMod, Times DEF PartStart
  <2>4. BlockOf(addr) * BLKSZ <= a /\ a < BlockOf(addr) * BLKSZ + BLKSZ
    BY <1>4, <2>1, <2>2, <2>3, Sizes
  <2> QED  BY <2>2, <2>3, <2>4, BlockUnique
<1> QED  BY <1>5, <1>6, <1>7, <1>8

LEMMA MiddlePartIs ==
  ASSUME IInv, pc = "middle"
  PROVE  /\ Blks(addr) * BLKSZ \in 0..size /\ Whole = Part1(Blks(addr) * BLKSZ)
         /\ addr + Blks(addr) * BLKSZ = AlignedEnd
         /\ Continues(addr + Blks(addr) * BLKSZ, size - Blks(addr) * BLKSZ,
                      Tail(addr + Blks(addr) * BLKSZ, size - Blks(addr) * BLKSZ))
<1>1. TypeOK /\ addr % BLKSZ = 0 /\ size >= BLKSZ  BY DEF IInv, Placed
<1>2. /\ CallFits /\ addr \in Nat /\ size \in Nat /\ addr + size = End /\ End \in Nat
  BY <1>1, TypeFacts
<1>3. Blks(addr) \in Nat /\ Blks(addr) * BLKSZ = AlignedEnd - addr /\ addr < AlignedEnd
  BY <1>1, <1>2, MiddleIs
<1>4. /\ AlignedEnd \in Nat /\ AlignedEnd + PartEnd = End /\ AlignedEnd % BLKSZ = 0
      /\ PartEnd \in 0..BLKSZ - 1
  BY <1>2, Split DEF SplitIs
<1> DEFINE N == Blks(addr) * BLKSZ
<1> HIDE DEF N
<1>5. N = AlignedEnd - addr  BY <1>3 DEF N
<1>6. PartEnd \in Nat /\ PartEnd < BLKSZ  BY <1>4, Sizes
<1>7. addr + N = AlignedEnd /\ size - N = PartEnd /\ N \in 0..size
  BY <1>2, <1>3, <1>4, <1>5, <1>6
<1>8. /\ Continues(AlignedEnd, PartEnd, Middle(AlignedEnd, PartEnd))
      /\ Tail(AlignedEnd, PartEnd) = Middle(AlignedEnd, PartEnd)
  BY <1>2, <1>4, <1>6, Split DEF SplitIs
<1>9. Whole = Part1(N)  BY DEF Whole, Part1, N
<1> QED  BY <1>7, <1>8, <1>9 DEF N

LEMMA TailIs ==
  ASSUME IInv, pc = "tail" \/ pc = "tail_write"
  PROVE  /\ PartEnd \in 0..size /\ addr < End /\ addr = AlignedEnd
         /\ Continues(addr + PartEnd, size - PartEnd, "done")
         /\ \A a \in Part1(PartEnd) : BlockOf(a) = BlockOf(addr)
<1>1. TypeOK /\ addr = AlignedEnd /\ PartEnd # 0  BY DEF IInv, Placed
<1>2. CallFits /\ size \in Nat /\ addr \in Nat /\ addr + size = End /\ End \in Nat
  BY <1>1, TypeFacts
<1>3. /\ AlignedEnd \in Nat /\ AlignedEnd + PartEnd = End /\ AlignedEnd % BLKSZ = 0
      /\ PartEnd \in 0..BLKSZ - 1
  BY <1>2, Split DEF SplitIs
<1>4. PartEnd \in Nat /\ PartEnd < BLKSZ  BY <1>3, Sizes
<1>5. size = PartEnd /\ addr < End  BY <1>1, <1>2, <1>3, <1>4
<1>6. Continues(addr + PartEnd, size - PartEnd, "done")  BY <1>4, <1>5 DEF Continues
<1>7. ASSUME NEW a \in Part1(PartEnd) PROVE BlockOf(a) = BlockOf(addr)
  <2>1. a \in Nat /\ addr <= a /\ a < addr + PartEnd  BY <1>2, <1>4, <1>7 DEF Part1
  <2>2. addr % BLKSZ = 0 /\ a < addr + BLKSZ  BY <1>1, <1>2, <1>3, <1>4, <2>1, Sizes
  <2> QED  BY <1>2, <2>1, <2>2, BlockStart
<1> QED  BY <1>1, <1>4, <1>5, <1>6, <1>7

-----------------------------------------------------------------------------
(* The induction.                                                          *)

\* Half of a part of a write: the block is in the buffer.
LEMMA Staged ==
  ASSUME IInv, NEW next \in {"head_write", "tail_write"}, pc' = next,
         next = "head_write" => pc = "head", next = "tail_write" => pc = "tail",
         Writes, addr < End, buf' = Stored(Block(BlockOf(addr))),
         UNCHANGED <<out, progress, medium, req, ret, calls>>
  PROVE  IInv'
<1>1. TypeOK /\ Carried /\ Known /\ Placed /\ InOrder  BY DEF IInv
<1>2. DOMAIN buf' \in OneBlock
  <2>1. addr \in Nat /\ addr < BLOCKS * BLKSZ  BY <1>1, TypeFacts, Sizes
  <2> QED  BY <2>1, OfDevice DEF Stored
<1>3. TypeOK'  BY <1>1, <1>2 DEF TypeOK, OneBlock, progress, End
<1>4. Placed'  BY <1>1 DEF Placed, progress, PartStart, PartEnd, AlignedEnd, End
<1>5. Buffered'
  BY DEF Buffered, Writes, Stored, Block, BlockOf, progress
<1>6. Carried'
  BY <1>1 DEF Carried, progress, Asked, End, New, Writes, Reads
<1>7. Known' /\ InOrder'
  BY <1>1 DEF Known, Writes, InOrder, Asked, Part, New, PartStart, PartEnd, End
<1> QED  BY <1>3, <1>4, <1>5, <1>6, <1>7 DEF IInv

LEMMA BufferHolds ==
  ASSUME TypeOK, NEW a \in Nat, a < End, buf' = Stored(Block(BlockOf(a)))
  PROVE  DOMAIN buf' \in OneBlock
<1>1. a < BLOCKS * BLKSZ  BY TypeFacts, Sizes
<1> QED  BY <1>1, OfDevice DEF Stored

LEMMA HeadStep == IInv /\ (ReadHead \/ WriteHead) => IInv'
<1> SUFFICES ASSUME IInv, ReadHead \/ WriteHead PROVE IInv'
    OBVIOUS
<1>1. pc = "head" \/ pc = "head_write"  BY DEF ReadHead, WriteHead, ReadPart, WritePart
<1>2. /\ PartLen \in 0..size /\ addr < End
      /\ Continues(addr + PartLen, size - PartLen, AfterHead)
      /\ \A a \in Part1(PartLen) : BlockOf(a) = BlockOf(addr)
  BY <1>1, HeadIs
<1>3. TypeOK /\ addr \in Nat  BY TypeFacts DEF IInv
<1>4. CASE ReadHead
  <2>1. DOMAIN buf' \in OneBlock
    BY <1>2, <1>3, <1>4, BufferHolds DEF ReadHead, ReadPart
  <2>2. CASE Reads /\ out' = Copied(addr .. addr + PartLen - 1) /\ Advance(PartLen) /\ pc' = AfterHead
    BY <1>1, <1>2, <1>4, <2>1, <2>2, PartDone DEF ReadHead, ReadPart, Part1
  <2>3. CASE Writes /\ UNCHANGED <<out, progress>> /\ pc' = "head_write"
    BY <1>2, <1>4, <2>3, Staged DEF ReadHead, ReadPart
  <2> QED  BY <1>4, <2>2, <2>3 DEF ReadHead, ReadPart
<1>5. CASE WriteHead
  <2>1. pc = "head_write" /\ WritePart("head_write", PartLen, AfterHead)
    BY <1>5 DEF WriteHead, WritePart
  <2>2. Writes  BY <2>1 DEF IInv, Buffered
  <2>3. Puts(Part1(PartLen))  BY <1>2, <2>1, WritePartIs DEF Part1
  <2>4. DOMAIN buf' \in OneBlock  BY <1>3, <2>1 DEF TypeOK, OneBlock, WritePart
  <2> QED  BY <1>2, <2>1, <2>2, <2>3, <2>4, PartDone DEF WritePart
<1> QED  BY <1>4, <1>5

LEMMA TailStep == IInv /\ (ReadTail \/ WriteTail) => IInv'
<1> SUFFICES ASSUME IInv, ReadTail \/ WriteTail PROVE IInv'
    OBVIOUS
<1>1. pc = "tail" \/ pc = "tail_write"  BY DEF ReadTail, WriteTail, ReadPart, WritePart
<1>2. /\ PartEnd \in 0..size /\ addr < End /\ addr = AlignedEnd
      /\ Continues(addr + PartEnd, size - PartEnd, "done")
      /\ \A a \in Part1(PartEnd) : BlockOf(a) = BlockOf(addr)
  BY <1>1, TailIs
<1>3. TypeOK /\ addr \in Nat  BY TypeFacts DEF IInv
<1>4. CASE ReadTail
  <2>0. ReadPart("tail", addr, PartEnd, "done", "tail_write")  BY <1>2, <1>4 DEF ReadTail
  <2>1. DOMAIN buf' \in OneBlock
    BY <1>2, <1>3, <2>0, BufferHolds DEF ReadPart
  <2>2. CASE Reads /\ out' = Copied(addr .. addr + PartEnd - 1) /\ Advance(PartEnd) /\ pc' = "done"
    BY <1>1, <1>2, <2>0, <2>1, <2>2, PartDone DEF ReadPart, Part1
  <2>3. CASE Writes /\ UNCHANGED <<out, progress>> /\ pc' = "tail_write"
    BY <1>2, <2>0, <2>3, Staged DEF ReadPart
  <2> QED  BY <2>0, <2>2, <2>3 DEF ReadPart
<1>5. CASE WriteTail
  <2>1. pc = "tail_write" /\ WritePart("tail_write", PartEnd, "done")
    BY <1>5 DEF WriteTail, WritePart
  <2>2. Writes  BY <2>1 DEF IInv, Buffered
  <2>3. Puts(Part1(PartEnd))  BY <1>2, <2>1, WritePartIs DEF Part1
  <2>4. DOMAIN buf' \in OneBlock  BY <1>3, <2>1 DEF TypeOK, OneBlock, WritePart
  <2> QED  BY <1>2, <2>1, <2>2, <2>3, <2>4, PartDone DEF WritePart
<1> QED  BY <1>4, <1>5

LEMMA MiddleStep == IInv /\ TransferMiddle => IInv'
<1> SUFFICES ASSUME IInv, TransferMiddle PROVE IInv'
    OBVIOUS
<1> DEFINE n == Blks(addr) * BLKSZ
<1>1. pc = "middle"  BY DEF TransferMiddle
<1>2. n \in 0..size /\ Whole = Part1(n) /\ Continues(addr + n, size - n, Tail(addr + n, size - n))
  BY <1>1, MiddlePartIs
<1>3. /\ Advance(n) /\ pc' = Tail(addr + n, size - n) /\ UNCHANGED <<req, buf, ret, calls>>
      /\ \/ Reads /\ out' = Copied(Whole) /\ UNCHANGED medium
         \/ Writes /\ Put(Whole) /\ UNCHANGED out
  BY DEF TransferMiddle
<1> HIDE DEF n
<1>4. TypeOK  BY DEF IInv
<1>5. DOMAIN buf' \in OneBlock  BY <1>3, <1>4 DEF TypeOK, OneBlock
<1>6. Part1(n) \in SUBSET Asked  BY <1>2, <1>4, PartInAsked
<1>7. CASE Reads /\ out' = Copied(Whole) /\ UNCHANGED medium
  BY <1>1, <1>2, <1>3, <1>5, <1>7, PartDone
<1>8. CASE Writes /\ Put(Whole) /\ UNCHANGED out
  <2>1. Puts(Part1(n))  BY <1>2, <1>4, <1>6, <1>8, PutIs
  <2> QED  BY <1>1, <1>2, <1>3, <1>5, <1>8, <2>1, PartDone
<1> QED  BY <1>3, <1>7, <1>8

\* A call begins: no byte is named by it yet.
LEMMA CallStep ==
  ASSUME IInv, NEW kind \in {"read", "write"}, NEW area \in Areas, kind = "write" => area = "user",
         NEW s, NEW n \in 0..BLOCKS * BLKSZ, Range(s, n), Call(kind, area, s, n)
  PROVE  IInv' /\ pc' # "idle"
<1>1. TypeOK /\ Known  BY DEF IInv
<1>2. s \in Addresses /\ s \in Nat /\ n \in Nat /\ s + n <= BLOCKS * BLKSZ
  BY AddressNat, Sizes DEF Range
<1>3. /\ req' = [kind |-> kind, area |-> area, start |-> s, n |-> n, id |-> calls + 1]
      /\ addr' = s /\ size' = n /\ pos' = 0 /\ out' = <<>> /\ calls' = calls + 1
      /\ calls < MaxCalls /\ UNCHANGED <<medium, buf, ret>>
      /\ pc' = IF n = 0 THEN "done" ELSE Head(s, n)'
  BY DEF Call
<1>4. calls \in Nat /\ calls' \in 0..MaxCalls  BY <1>1, <1>3, Sizes DEF TypeOK
<1>5. /\ req'.kind = kind /\ req'.area = area /\ req'.start = s /\ req'.n = n
      /\ req'.id = calls + 1 /\ req' \in Requests /\ End' = s + n
  BY <1>2, <1>3, <1>4 DEF Requests, End
<1>6. CallFits'  BY <1>2, <1>5 DEF CallFits
<1>7. SplitIs'  BY Split, PTL
<1>8. s % BLKSZ = 0 =>
        LET next == Middle(s, n)' IN
        /\ next \in {"middle", "tail", "done"}
        /\ next = "middle" => s % BLKSZ = 0 /\ n >= BLKSZ
        /\ next = "tail" => s = AlignedEnd' /\ PartEnd' # 0
        /\ next = "done" => n = 0
  BY <1>2, <1>5, <1>6, <1>7 DEF SplitIs, Continues
<1>9. /\ pc' \in {"head", "middle", "tail", "done"}
      /\ pc' = "head" => s % BLKSZ # 0 /\ n > 0
      /\ pc' = "middle" => s % BLKSZ = 0 /\ n >= BLKSZ
      /\ pc' = "tail" => s = AlignedEnd' /\ PartEnd' # 0
      /\ pc' = "done" => n = 0
  <2>1. CASE n = 0  BY <1>3, <2>1
  <2>2. CASE n # 0
    <3>1. pc' = IF s % BLKSZ # 0 THEN "head" ELSE Middle(s, n)'  BY <1>3, <2>2 DEF Head
    <3> QED  BY <1>2, <1>8, <2>2, <3>1
  <2> QED  BY <2>1, <2>2
<1>10. Placed'  BY <1>3, <1>5, <1>9 DEF Placed, PartStart
<1>11. Buffered'  BY <1>9 DEF Buffered
<1>12. DOMAIN out' = {}  BY <1>3
<1>13. TypeOK'
  <2>1. size' \in 0..req'.n /\ addr' + size' = End' /\ pos' + size' = req'.n
        /\ addr' \in Nat /\ pos' \in Nat /\ End' <= BLOCKS * BLKSZ
    BY <1>2, <1>3, <1>5
  <2>2. DOMAIN out' \subseteq 0..req'.n - 1  BY <1>12
  <2> QED  BY <1>1, <1>3, <1>4, <1>5, <1>9, <2>1, <2>2 DEF TypeOK
<1>14. Known'
  <2>1. ASSUME NEW r \in Areas, NEW a \in Addresses PROVE medium'[r][a][1] <= calls'
    <3>1. medium[r][a][1] <= calls  BY <1>1 DEF Known
    <3>2. medium[r][a] \in Bytes  BY <1>1 DEF TypeOK
    <3>3. medium[r][a][1] \in Int  BY <3>2, Sizes DEF Bytes
    <3>4. medium' = medium /\ calls' = calls + 1  BY <1>3
    <3> QED  BY <1>4, <3>1, <3>3, <3>4
  <2>2. req'.id <= calls'  BY <1>3, <1>4
  <2>3. Writes' => req'.area = "user"  BY <1>5 DEF Writes
  <2> QED  BY <2>1, <2>2, <2>3 DEF Known
<1>15. Carried'
  <2>1. Asked' = s..(s + n) - 1
    <3>1. req'.start = s /\ End' = s + n  BY <1>5
    <3>2. Asked' = req'.start..End' - 1  BY DEF Asked
    <3> QED  BY <3>1, <3>2, Zenon
  <2>2. ASSUME NEW a \in Asked' PROVE medium'[req'.area][a] # New(a)' /\ ~(a < addr')
    <3>1. a \in Addresses /\ ~(a < s)
      BY <1>2, <2>1, Sizes DEF Addresses
    <3>2. medium[area][a][1] <= calls  BY <1>1, <3>1 DEF Known
    <3>3. New(a)'[1] = calls + 1  BY <1>5 DEF New
    <3>4. medium[area][a] \in Bytes  BY <1>1, <3>1 DEF TypeOK
    <3>5. medium[area][a][1] \in Int  BY <3>4, Sizes DEF Bytes
    <3>6. medium[area][a] # New(a)'  BY <1>4, <3>2, <3>3, <3>5
    <3> QED  BY <1>3, <1>5, <3>1, <3>6
  <2>3. 0..pos' - 1 = {}  BY <1>3
  <2>4. req'.start..addr' - 1 = {}  BY <1>2, <1>3, <1>5
  <2> QED  BY <1>12, <2>2, <2>3, <2>4 DEF Carried
<1>16. InOrder'
  <2>1. OrderIs'  BY Order, PTL
  <2> QED  BY <1>9, <1>13, <1>14, <1>15, <2>1 DEF OrderIs
<1> QED  BY <1>9, <1>10, <1>11, <1>13, <1>14, <1>15, <1>16 DEF IInv

LEMMA ReturnStep == IInv /\ Return => IInv'
<1> SUFFICES ASSUME IInv, Return PROVE IInv'
    OBVIOUS
<1>1. TypeOK'  BY DEF IInv, Return, TypeOK, progress, End
<1>2. Placed' /\ Buffered'  BY DEF Return, Placed, Buffered
<1>3. Carried'  BY DEF IInv, Return, Carried, progress, Reads, Writes
<1>4. Known' /\ InOrder'
  BY DEF IInv, Return, Known, Writes, InOrder, Asked, Part, New, PartStart, PartEnd, End
<1> QED  BY <1>1, <1>2, <1>3, <1>4 DEF IInv

\* What a transfer that fails may have written is of the part it was about,
\* and all that comes before that part is done.
LEMMA PartlyIs ==
  ASSUME IInv, Under, NEW A \in Partly
  PROVE  /\ A \in SUBSET Asked /\ (Writes \/ A = {})
         /\ \A a \in Asked : \A b \in A : Part(a) < Part(b) => a < addr
<1>1. TypeOK /\ Placed /\ Buffered  BY DEF IInv
<1>2. /\ CallFits /\ addr \in Nat /\ size \in Nat /\ addr + size = End /\ End \in Nat
      /\ req.start \in Nat /\ req.start <= addr
  BY <1>1, TypeFacts DEF CallFits
<1>3. \A a \in Asked : a \in Nat /\ req.start <= a /\ a < End  BY <1>2 DEF Asked
<1>4. CASE A = {}  BY <1>4
<1>5. CASE pc = "head_write" /\ A = addr .. addr + PartLen - 1
  <2>1. /\ PartLen \in 0..size /\ addr = req.start /\ PartStart # 0
        /\ \A a \in Part1(PartLen) : BlockOf(a) = BlockOf(addr)
    BY <1>1, <1>5, HeadIs DEF Placed
  <2>2. A = Part1(PartLen) /\ A \in SUBSET Asked
    BY <1>1, <1>5, <2>1, PartInAsked DEF Part1
  <2>3. \A b \in A : BlockOf(b) = BlockOf(req.start)  BY <2>1, <2>2, Zenon
  <2>5. \A b \in A : Part(b) = 1
    <3>1. PartStart # 0  BY <2>1
    <3> SUFFICES ASSUME NEW b \in A PROVE Part(b) = 1
        OBVIOUS
    <3>2. BlockOf(b) = BlockOf(req.start)  BY <2>3
    <3> QED  BY <3>1, <3>2 DEF Part
  <2>4. \A a \in Asked : Part(a) \in {1, 2, 3}  BY DEF Part
  <2> QED  BY <1>1, <1>5, <2>2, <2>4, <2>5 DEF Buffered
<1>6. CASE pc = "tail_write" /\ A = addr .. addr + PartEnd - 1
  <2>1. /\ PartEnd \in 0..size /\ addr = AlignedEnd
        /\ \A a \in Part1(PartEnd) : BlockOf(a) = BlockOf(addr)
    BY <1>6, TailIs
  <2>2. A = Part1(PartEnd) /\ A \in SUBSET Asked
    BY <1>1, <1>6, <2>1, PartInAsked DEF Part1
  <2>3. AlignedEnd + PartEnd = End /\ PartEnd \in Nat
    BY <1>2, <2>1, Split DEF SplitIs
  <2>4. ASSUME NEW a \in Asked, NEW b \in A, Part(a) < Part(b), ~(a < addr) PROVE FALSE
    <3>1. a \in Part1(PartEnd)  BY <1>2, <1>3, <2>1, <2>3, <2>4 DEF Part1
    <3>2. BlockOf(a) = BlockOf(b) /\ b \in Asked  BY <2>1, <2>2, <3>1
    <3>3. Part(a) = Part(b)  BY <1>2, <3>2, PartOrder
    <3>4. Part(a) \in {1, 2, 3}  BY DEF Part
    <3> QED  BY <2>4, <3>3, <3>4
  <2> QED  BY <1>1, <1>6, <2>2, <2>4 DEF Buffered
<1>7. ASSUME pc = "middle", Writes, NEW B \in SUBSET {BlockOf(a) : a \in Whole},
             A = UNION {Block(b) : b \in B}
      PROVE  /\ A \in SUBSET Asked
             /\ \A a \in Asked : \A b \in A : Part(a) < Part(b) => a < addr
  <2> DEFINE n == Blks(addr) * BLKSZ
  <2>1. n \in 0..size /\ Whole = Part1(n) /\ addr + n = AlignedEnd /\ addr % BLKSZ = 0
    BY <1>1, <1>7, MiddlePartIs DEF Placed
  <2>2. AlignedEnd \in Nat /\ AlignedEnd % BLKSZ = 0 /\ AlignedEnd <= End
    <3>1. /\ AlignedEnd \in Nat /\ AlignedEnd + PartEnd = End /\ AlignedEnd % BLKSZ = 0
          /\ PartEnd \in 0..BLKSZ - 1
      BY <1>2, Split DEF SplitIs
    <3>2. PartEnd \in Nat  BY <3>1, Sizes
    <3> QED  BY <1>2, <3>1, <3>2
  <2> HIDE DEF n
  <2>3. \A x \in Whole : x \in Nat /\ addr <= x /\ x < AlignedEnd
    BY <1>2, <2>1 DEF Part1
  <2>4. /\ BlockOf(addr) \in Nat /\ BlockOf(AlignedEnd) \in Nat /\ BlockOf(req.start) \in Nat
        /\ BlockOf(End) \in Nat /\ BlockOf(AlignedEnd) <= BlockOf(End)
    BY <1>2, <2>2, DivMod, BlockOrder
  <2>5. ASSUME NEW x \in Nat, addr <= x, x < AlignedEnd
        PROVE  /\ BlockOf(x) \in Nat /\ BlockOf(addr) <= BlockOf(x)
               /\ BlockOf(x) < BlockOf(AlignedEnd) /\ Part(x) = 2
    <3>1. /\ BlockOf(x) \in Nat /\ BlockOf(addr) <= BlockOf(x)
          /\ BlockOf(x) < BlockOf(AlignedEnd)
      <4>1. BlockOf(x) \in Nat  BY <2>5, DivMod
      <4>2. addr \in Nat /\ AlignedEnd \in Nat /\ AlignedEnd % BLKSZ = 0  BY <1>2, <2>2
      <4> HIDE DEF AlignedEnd
      <4>3. BlockOf(addr) <= BlockOf(x)  BY <2>5, <4>2, BlockOrder
      <4>4. BlockOf(x) < BlockOf(AlignedEnd)  BY <2>5, <4>2, BlockOrder
      <4> QED  BY <4>1, <4>3, <4>4
    <3>2. BlockOf(x) # BlockOf(End)  BY <2>4, <3>1
    <3>3. PartStart = 0 \/ BlockOf(x) # BlockOf(req.start)
      <4>1. SUFFICES ASSUME PartStart # 0 PROVE BlockOf(req.start) < BlockOf(addr)
        BY <2>4, <3>1
      <4>2. req.start < addr  BY <1>2, <2>1, <4>1 DEF PartStart
      <4> QED  BY <1>2, <2>1, <4>2, BlockOrder
    <3> QED  BY <3>1, <3>2, <3>3 DEF Part
  <2>6. ASSUME NEW b \in A PROVE b \in Nat /\ addr <= b /\ b < AlignedEnd
    <3>1. PICK x \in Whole : b \in Block(BlockOf(x))  BY <1>7, <2>6
    <3>2. /\ BlockOf(x) \in Nat /\ BlockOf(addr) <= BlockOf(x)
          /\ BlockOf(x) < BlockOf(AlignedEnd)
      BY <2>3, <2>5, <3>1
    <3>3. b \in Nat
      <4>1. BlockOf(x) * BLKSZ \in Nat  BY <3>2, Times
      <4>2. b \in BlockOf(x) * BLKSZ .. (BlockOf(x) + 1) * BLKSZ - 1  BY <3>1 DEF Block
      <4> QED  BY <4>1, <4>2
    <3>4. BlockOf(b) = BlockOf(x)  BY <3>1, <3>2, <3>3, BlockIs
    <3>5. b < addr => BlockOf(b) < BlockOf(addr)  BY <1>2, <2>1, <3>3, BlockOrder
    <3>6. AlignedEnd <= b => BlockOf(AlignedEnd) <= BlockOf(b)
      BY <2>2, <3>3, BlockOrder
    <3> QED  BY <1>2, <2>2, <2>4, <3>2, <3>3, <3>4, <3>5, <3>6
  <2>7. A \in SUBSET Asked
    <3> SUFFICES ASSUME NEW b \in A PROVE b \in req.start .. End - 1
        BY DEF Asked
    <3>1. b \in Nat /\ addr <= b /\ b < AlignedEnd  BY <2>6
    <3> QED  BY <1>2, <2>2, <3>1
  <2>8. ASSUME NEW a \in Asked, NEW b \in A, Part(a) < Part(b), ~(a < addr) PROVE FALSE
    <3>1. b \in Asked /\ b \in Nat /\ addr <= b /\ b < AlignedEnd  BY <2>6, <2>7
    <3>2. a < b  BY <1>2, <2>8, <3>1, PartOrder
    <3>3. a \in Nat /\ addr <= a /\ a < AlignedEnd  BY <1>2, <1>3, <2>2, <2>8, <3>1, <3>2
    <3>4. Part(a) = 2 /\ Part(b) = 2  BY <2>5, <3>1, <3>3
    <3> QED  BY <2>8, <3>4
  <2> QED  BY <2>7, <2>8
<1>8. \/ A = {}
      \/ pc = "head_write" /\ A = addr .. addr + PartLen - 1
      \/ pc = "tail_write" /\ A = addr .. addr + PartEnd - 1
      \/ /\ pc = "middle" /\ Writes
         /\ \E B \in SUBSET {BlockOf(a) : a \in Whole} : A = UNION {Block(b) : b \in B}
  BY DEF Partly
<1> QED  BY <1>4, <1>5, <1>6, <1>7, <1>8

LEMMA FailStep ==
  ASSUME IInv, Fail \/ PowerCut
  PROVE  IInv' /\ pc' = "idle" /\ ret' \in {"failed", "cut"} /\ UNCHANGED <<req, calls>>
         /\ Under /\ \E A \in SUBSET Asked : Puts(A) /\ (Writes \/ A = {})
<1>1. /\ Under /\ pc' = "idle" /\ ret' \in {"failed", "cut"}
      /\ UNCHANGED <<req, progress, buf, out, calls>>
      /\ \E A \in Partly : Put(A)
  BY DEF Fail, PowerCut, Left
<1>2. PICK A \in Partly : Put(A)  BY <1>1
<1>3. TypeOK /\ Carried /\ Known  BY DEF IInv
<1>4. /\ A \in SUBSET Asked /\ (Writes \/ A = {})
      /\ \A a \in Asked : \A b \in A : Part(a) < Part(b) => a < addr
  BY <1>1, PartlyIs
<1>5. Puts(A)  BY <1>2, <1>3, <1>4, PutIs
<1>6. /\ Asked' = Asked /\ (Writes' <=> Writes) /\ (Reads' <=> Reads)
      /\ \A a : New(a)' = New(a) /\ Part(a)' = Part(a)
  BY <1>1 DEF AlignedEnd, PartEnd, PartStart, End, Asked, Writes, Reads, New, Part, BlockOf
<1>7. TypeOK'
  <2>1. medium' \in [Areas -> [Addresses -> Bytes]]  BY <1>5 DEF Puts
  <2> QED  BY <1>1, <1>3, <2>1 DEF TypeOK, progress, End
<1>8. Placed' /\ Buffered'  BY <1>1 DEF Placed, Buffered
<1>9. Carried'  BY <1>1, <1>3, <1>6 DEF Carried, progress
<1>10. Known'
  <2>1. ASSUME NEW r \in Areas, NEW a \in Addresses PROVE medium'[r][a][1] <= calls
    <3>1. medium[r][a][1] <= calls /\ req.id <= calls  BY <1>3 DEF Known
    <3>2. New(a)[1] = req.id  BY DEF New
    <3>3. medium'[r][a] = New(a) \/ medium'[r][a] = medium[r][a]  BY <1>5 DEF Puts
    <3> QED  BY <3>1, <3>2, <3>3
  <2> QED  BY <1>1, <1>3, <1>6, <2>1 DEF Known
<1>11. InOrder'
  <2> SUFFICES ASSUME Writes, NEW a \in Asked, NEW b \in Asked, Part(a) < Part(b),
                      medium'["user"][b] = New(b)
               PROVE  medium'["user"][a] = New(a)
      BY <1>6 DEF InOrder
  <2>1. req.area = "user" /\ pc # "idle" /\ CallFits /\ Asked \subseteq Addresses /\ addr \in Nat
    BY <1>1, <1>3, TypeFacts DEF Known, Under
  <2>2. \A x \in Asked : medium["user"][x] = New(x) <=> x < addr  BY <1>3, <2>1 DEF Carried
  <2>3. \A x \in Asked : medium'["user"][x] = IF x \in A THEN New(x) ELSE medium["user"][x]
    BY <1>5, <2>1 DEF Puts, Areas
  <2>4. a < addr
    <3>1. CASE b \in A  BY <1>4, <3>1
    <3>2. CASE b \notin A
      <4>1. b < addr  BY <2>2, <2>3, <3>2
      <4>2. a < b  BY <2>1, PartOrder
      <4>3. a \in Nat /\ b \in Nat  BY <2>1, AddressNat
      <4> QED  BY <2>1, <4>1, <4>2, <4>3
    <3> QED  BY <3>1, <3>2
  <2> QED  BY <2>2, <2>3, <2>4
<1> QED  BY <1>1, <1>4, <1>5, <1>7, <1>8, <1>9, <1>10, <1>11 DEF IInv

LEMMA InitInv == Init => IInv
<1> SUFFICES ASSUME Init PROVE IInv
    OBVIOUS
<1>1. 0 \in Addresses
  <2>1. 1 * BLKSZ <= BLOCKS * BLKSZ /\ 1 * BLKSZ = BLKSZ  BY Sizes, Times
  <2> QED  BY <2>1, Sizes DEF Addresses
<1>2. medium \in [Areas -> [Addresses -> Bytes]]
  <2>1. ASSUME NEW r \in Areas, NEW a \in Addresses PROVE Old(r, a) \in Bytes
    BY AddressNat, Sizes DEF Old, Bytes
  <2> QED  BY <2>1 DEF Init
<1>3. /\ req.kind = "read" /\ req.area = "user" /\ req.start = 0 /\ req.n = 0 /\ req.id = 0
      /\ req \in Requests /\ End = 0
  BY <1>1, Sizes DEF Init, Requests, Areas, End
<1>4. DOMAIN buf = {} /\ DOMAIN out = {}  BY DEF Init
<1>5. TypeOK
  <2>1. /\ pc = "idle" /\ addr = 0 /\ size = 0 /\ pos = 0 /\ ret = "ok" /\ calls = 0
    BY DEF Init
  <2>2. /\ size \in 0..req.n /\ addr + size = End /\ pos + size = req.n
        /\ addr \in Nat /\ pos \in Nat /\ End <= BLOCKS * BLKSZ /\ calls \in 0..MaxCalls
    BY <1>3, <2>1, Sizes
  <2> QED  BY <1>2, <1>3, <1>4, <2>1, <2>2 DEF TypeOK
<1>6. Placed /\ Buffered  BY DEF Init, Placed, Buffered
<1>7. Carried  BY <1>3, <1>4 DEF Init, Carried, Writes, Reads
<1>8. Known
  <2>1. \A r \in Areas : \A a \in Addresses : medium[r][a] = Old(r, a)  BY DEF Init
  <2>2. \A r, a : Old(r, a)[1] \in {0, -1}  BY DEF Old
  <2>3. calls = 0  BY DEF Init
  <2>4. \A r \in Areas : \A a \in Addresses : medium[r][a][1] <= calls
    BY <2>1, <2>2, <2>3
  <2> QED  BY <1>3, <2>3, <2>4 DEF Known, Writes
<1>9. InOrder  BY <1>3 DEF InOrder, Writes
<1> QED  BY <1>5, <1>6, <1>7, <1>8, <1>9 DEF IInv

LEMMA Calls ==
  ASSUME IInv, NEW s \in Addresses, NEW n \in 0..BLOCKS * BLKSZ,
         blkdev_read(s, n) \/ blkdev_boot_read(s, n) \/ blkdev_write(s, n)
  PROVE  IInv' /\ pc = "idle" /\ pc' # "idle" /\ UNCHANGED <<medium, ret>>
<1>1. PICK kind \in {"read", "write"}, area \in Areas :
        (kind = "write" => area = "user") /\ Range(s, n) /\ Call(kind, area, s, n)
  BY DEF blkdev_read, blkdev_boot_read, blkdev_write, Areas
<1>2. IInv' /\ pc' # "idle"  BY <1>1, CallStep
<1> QED  BY <1>1, <1>2 DEF Call

LEMMA Inductive == IInv /\ [Next]_vars => IInv'
<1> SUFFICES ASSUME IInv, [Next]_vars PROVE IInv'
    OBVIOUS
<1>1. CASE \E s \in Addresses : \E n \in 0 .. BLOCKS * BLKSZ :
             blkdev_read(s, n) \/ blkdev_boot_read(s, n) \/ blkdev_write(s, n)
  BY <1>1, Calls
<1>2. CASE ReadHead \/ WriteHead  BY <1>2, HeadStep
<1>3. CASE TransferMiddle  BY <1>3, MiddleStep
<1>4. CASE ReadTail \/ WriteTail  BY <1>4, TailStep
<1>5. CASE Return  BY <1>5, ReturnStep
<1>6. CASE Fail \/ PowerCut  BY <1>6, FailStep
<1>7. CASE UNCHANGED vars
  <2>1. TypeOK'  BY <1>7 DEF IInv, TypeOK, vars, progress, End
  <2>2. Placed'
    BY <1>7 DEF IInv, Placed, vars, progress, PartStart, PartEnd, AlignedEnd, End
  <2>3. Buffered'
    BY <1>7 DEF IInv, Buffered, vars, progress, Writes, Stored, Block, BlockOf
  <2>4. Carried'
    BY <1>7 DEF IInv, Carried, vars, progress, Asked, End, New, Writes, Reads
  <2>5. Known' /\ InOrder'
    BY <1>7 DEF IInv, Known, Writes, InOrder, Asked, Part, New, PartStart, PartEnd, End, vars
  <2> QED  BY <2>1, <2>2, <2>3, <2>4, <2>5 DEF IInv
<1> QED  BY <1>1, <1>2, <1>3, <1>4, <1>5, <1>6, <1>7 DEF Next

LEMMA Invariance == Spec => []IInv
BY InitInv, Inductive, PTL DEF Spec

\* The buffer always holds one block of the device or none, and the three
\* updates of each part keep address, offset and size in step.
THEOREM TypeCorrect == Spec => []TypeOK
<1>1. IInv => TypeOK  BY DEF IInv
<1> QED  BY <1>1, Invariance, PTL

\* However a write ends, no byte of a later part is new before all the bytes
\* of the parts before it are (the returns at the first error in
\* blkdev_write).
THEOREM WritesInOrder == Spec => []InOrder
<1>1. IInv => InOrder  BY DEF IInv
<1> QED  BY <1>1, Invariance, PTL

-----------------------------------------------------------------------------
(* The layer implements the store of bytes.                                *)

\* What the store sees of the state.
Called == [kind |-> req.kind, area |-> req.area, range |-> Asked,
           new |-> [a \in Asked |-> New(a)]]
Given == IF pc = "idle" /\ ret = "ok" /\ Reads THEN [a \in Asked |-> out[a - req.start]] ELSE <<>>

LEMMA CalledIs == TypeOK => Store!IsCall(Called)
<1> SUFFICES ASSUME TypeOK PROVE Store!IsCall(Called)
    OBVIOUS
<1>1. \A a \in Asked : New(a) \in Bytes  BY DataIsNew
<1>2. req.kind \in {"read", "write"} /\ req.area \in Areas /\ Asked \subseteq Addresses
  BY TypeFacts
<1> QED  BY <1>1, <1>2 DEF Store!IsCall, Called

LEMMA ChangeIs ==
  ASSUME TypeOK, NEW A \in SUBSET Asked, Puts(A), Writes \/ A = {}
  PROVE  Store!Change
<1>1. ASSUME NEW r \in Areas, NEW a \in Addresses
      PROVE  \/ medium'[r][a] = medium[r][a]
             \/ Store!MayChange(r, a) /\ medium'[r][a] = Called.new[a]
  <2>1. CASE r = req.area /\ a \in A
    <3>1. medium'[r][a] = New(a)  BY <2>1 DEF Puts
    <3>2. a \in Asked /\ Called.new[a] = New(a)  BY <2>1 DEF Called
    <3>3. Store!MayChange(r, a)  BY <2>1, <3>2 DEF Store!MayChange, Writes
    <3> QED  BY <3>1, <3>2, <3>3
  <2>2. CASE ~(r = req.area /\ a \in A)  BY <2>2 DEF Puts
  <2> QED  BY <2>1, <2>2
<1>2. medium' \in Store!Media  BY DEF Puts, Store!Media
<1> QED  BY <1>1, <1>2 DEF Store!Change, Called

\* A part that is read or written, or half of one.
PartStep == ReadHead \/ WriteHead \/ TransferMiddle \/ ReadTail \/ WriteTail

LEMMA NothingPut == TypeOK /\ UNCHANGED medium => Puts({})
BY DEF Puts, TypeOK

LEMMA PartPuts ==
  ASSUME IInv, PartStep
  PROVE  /\ pc # "idle" /\ pc' # "idle" /\ UNCHANGED <<req, ret>>
         /\ \E A \in SUBSET Asked : Puts(A) /\ (Writes \/ A = {})
<1>1. TypeOK  BY DEF IInv
<1>2. \A a, z : /\ Tail(a, z) \in {"tail", "done"}
                /\ Middle(a, z) \in {"middle", "tail", "done"}
  BY DEF Tail, Middle
<1>3. AfterHead \in {"middle", "tail", "done"}  BY <1>2 DEF AfterHead
<1>4. CASE ReadHead \/ ReadTail
  <2>1. pc # "idle" /\ pc' # "idle" /\ UNCHANGED <<req, ret>> /\ UNCHANGED medium
    BY <1>3, <1>4 DEF ReadHead, ReadTail, ReadPart
  <2> QED  BY <1>1, <2>1, NothingPut
<1>5. CASE WriteHead
  <2>1. pc = "head_write" /\ WritePart("head_write", PartLen, AfterHead)
    BY <1>5 DEF WriteHead, WritePart
  <2>2. /\ PartLen \in 0..size /\ \A a \in Part1(PartLen) : BlockOf(a) = BlockOf(addr)
    BY <2>1, HeadIs
  <2>3. Puts(Part1(PartLen)) /\ Part1(PartLen) \in SUBSET Asked
    BY <1>1, <2>1, <2>2, WritePartIs, PartInAsked DEF Part1
  <2>4. Writes  BY <2>1 DEF IInv, Buffered
  <2> QED  BY <1>3, <2>1, <2>3, <2>4 DEF WritePart
<1>6. CASE WriteTail
  <2>1. pc = "tail_write" /\ WritePart("tail_write", PartEnd, "done")
    BY <1>6 DEF WriteTail, WritePart
  <2>2. /\ PartEnd \in 0..size /\ \A a \in Part1(PartEnd) : BlockOf(a) = BlockOf(addr)
    BY <2>1, TailIs
  <2>3. Puts(Part1(PartEnd)) /\ Part1(PartEnd) \in SUBSET Asked
    BY <1>1, <2>1, <2>2, WritePartIs, PartInAsked DEF Part1
  <2>4. Writes  BY <2>1 DEF IInv, Buffered
  <2> QED  BY <2>1, <2>3, <2>4 DEF WritePart
<1>7. CASE TransferMiddle
  <2>1. /\ pc = "middle" /\ pc' # "idle" /\ UNCHANGED <<req, ret>>
        /\ UNCHANGED medium \/ (Writes /\ Put(Whole))
    BY <1>2, <1>7 DEF TransferMiddle
  <2>2. CASE UNCHANGED medium  BY <1>1, <2>1, <2>2, NothingPut
  <2>3. CASE Writes /\ Put(Whole)
    <3>1. Whole \in SUBSET Asked
      <4>1. /\ Blks(addr) * BLKSZ \in 0..size /\ Whole = Part1(Blks(addr) * BLKSZ)
        BY <2>1, MiddlePartIs
      <4> QED  BY <1>1, <4>1, PartInAsked
    <3> QED  BY <1>1, <2>1, <2>3, <3>1, PutIs
  <2> QED  BY <2>1, <2>2, <2>3
<1> QED  BY <1>4, <1>5, <1>6, <1>7 DEF PartStep

LEMMA CalledSame ==
  UNCHANGED req => Called' = Called /\ Asked' = Asked /\ (Reads' <=> Reads)
BY DEF Called, Asked, New, End, Reads

LEMMA StoreInit == Init => Store!Init
<1> SUFFICES ASSUME Init PROVE Store!Init
    OBVIOUS
<1>1. TypeOK  BY InitInv DEF IInv
<1>2. Store!IsCall(Called)  BY <1>1, CalledIs
<1>3. Given = <<>>
  <2>1. Asked = {}  BY DEF Init, Asked, End
  <2> QED  BY <2>1 DEF Given
<1>4. medium \in Store!Media  BY <1>1 DEF TypeOK, Store!Media
<1>5. pc = "idle" /\ ret \in Store!Answers  BY DEF Init, Store!Answers
<1> QED  BY <1>2, <1>3, <1>4, <1>5 DEF Store!Init, Called, Given

\* A call begins as one of the store.
LEMMA StoreBegin ==
  ASSUME IInv, IInv', pc = "idle", pc' # "idle", UNCHANGED <<medium, ret>>
  PROVE  Store!Begin
<1>1. Store!IsCall(Called)'
  <2>1. TypeOK'  BY DEF IInv
  <2> QED  BY <2>1, CalledIs, PTL
<1>2. Given' = <<>>  BY DEF Given
<1> QED  BY <1>1, <1>2 DEF Store!Begin, Called, Given

\* Each part is a step that changes some bytes of the range of a write.
LEMMA StorePut ==
  ASSUME IInv, PartStep
  PROVE  Store!Put
<1>1. /\ pc # "idle" /\ pc' # "idle" /\ UNCHANGED <<req, ret>>
      /\ \E A \in SUBSET Asked : Puts(A) /\ (Writes \/ A = {})
  BY PartPuts
<1>2. Store!Change  BY <1>1, ChangeIs DEF IInv
<1>3. Called' = Called  BY <1>1, CalledSame
<1>4. Given' = Given  BY <1>1 DEF Given
<1> QED  BY <1>1, <1>2, <1>3, <1>4 DEF Store!Put, Called, Given

\* When the call returns, the whole range is written or read.
LEMMA StoreSucceed ==
  ASSUME IInv, Return
  PROVE  Store!Return
<1>1. TypeOK /\ Carried /\ Placed  BY DEF IInv
<1>2. pc = "done" /\ pc' = "idle" /\ ret' = "ok" /\ UNCHANGED <<medium, req, out>>
  BY DEF Return
<1>3. addr = End /\ \A a \in Asked : a \in req.start..addr - 1 /\ a < addr
  <2>1. size = 0  BY <1>1, <1>2 DEF Placed
  <2>2. addr \in Nat /\ End \in Nat /\ addr + size = End /\ req.start \in Nat
    BY <1>1, TypeFacts DEF CallFits
  <2>3. addr = End  BY <2>1, <2>2
  <2> QED  BY <2>2, <2>3 DEF Asked
<1>4. Called' = Called /\ Asked' = Asked /\ (Reads' <=> Reads)  BY <1>2, CalledSame
<1>5. CASE Writes
  <2>1. \A a \in Asked : medium[req.area][a] = New(a)  BY <1>1, <1>2, <1>3, <1>5 DEF Carried
  <2>2. Store!Stored = Called.new  BY <2>1 DEF Store!Stored, Called
  <2>3. Given' = <<>>  BY <1>4, <1>5 DEF Given, Reads, Writes
  <2>4. Called.kind = "write"  BY <1>5 DEF Writes, Called
  <2>5. Store!Succeed  BY <1>2, <2>2, <2>3, <2>4 DEF Store!Succeed, Called, Given
  <2> QED  BY <1>2, <1>4, <2>5 DEF Store!Return, Called
<1>6. CASE Reads
  <2>1. \A a \in Asked : out[a - req.start] = medium[req.area][a]
    BY <1>1, <1>2, <1>3, <1>6 DEF Carried
  <2>2. Given' = [a \in Asked |-> out[a - req.start]]
    BY <1>2, <1>4, <1>6 DEF Given
  <2>3. Given' = Store!Stored  BY <2>1, <2>2 DEF Store!Stored
  <2>4. Called.kind = "read"  BY <1>6 DEF Reads, Called
  <2>5. Store!Succeed  BY <1>2, <2>3, <2>4 DEF Store!Succeed, Called, Given
  <2> QED  BY <1>2, <1>4, <2>5 DEF Store!Return, Called
<1> QED  BY <1>1, <1>5, <1>6, TypeFacts DEF Reads, Writes

LEMMA StoreGiveUp ==
  ASSUME IInv, Fail \/ PowerCut
  PROVE  Store!Return
<1>1. /\ pc' = "idle" /\ ret' \in {"failed", "cut"} /\ UNCHANGED <<req, calls>>
      /\ Under /\ \E A \in SUBSET Asked : Puts(A) /\ (Writes \/ A = {})
  BY FailStep
<1>2. Store!Change  BY <1>1, ChangeIs DEF IInv
<1>3. Given' = <<>>  BY <1>1 DEF Given
<1>4. Store!GiveUp  BY <1>1, <1>2, <1>3 DEF Store!GiveUp, Store!Answers, Given
<1>5. Called' = Called  BY <1>1, CalledSame
<1> QED  BY <1>1, <1>4, <1>5 DEF Store!Return, Called, Under

LEMMA StoreStep == IInv /\ IInv' /\ [Next]_vars => [Store!Next]_Store!vars
<1> SUFFICES ASSUME IInv, IInv', [Next]_vars PROVE [Store!Next]_Store!vars
    OBVIOUS
<1>1. CASE \E s \in Addresses : \E n \in 0 .. BLOCKS * BLKSZ :
             blkdev_read(s, n) \/ blkdev_boot_read(s, n) \/ blkdev_write(s, n)
  BY <1>1, Calls, StoreBegin DEF Store!Next
<1>2. CASE PartStep  BY <1>2, StorePut DEF Store!Next
<1>3. CASE Return  BY <1>3, StoreSucceed DEF Store!Next
<1>4. CASE Fail \/ PowerCut  BY <1>4, StoreGiveUp DEF Store!Next
<1>5. CASE UNCHANGED vars
  <2>1. UNCHANGED <<medium, req, pc, ret, out>>  BY <1>5 DEF vars
  <2>2. Called' = Called /\ Asked' = Asked /\ (Reads' <=> Reads)  BY <2>1, CalledSame
  <2>3. Given' = Given  BY <2>1, <2>2 DEF Given
  <2> QED  BY <2>1, <2>2, <2>3 DEF Store!vars, Called, Given
<1> QED  BY <1>1, <1>2, <1>3, <1>4, <1>5 DEF Next, PartStep

\* Neither the blocks nor the buffer show: a read that succeeds returns the
\* bytes of the range, a write changes no byte outside of it at any moment,
\* and one that succeeds has written all of it (blkdev_read, blkdev_write).
THEOREM Implementation == Spec => ImplementsStore
BY InitInv, Inductive, StoreInit, StoreStep, PTL DEF Spec, ImplementsStore, Store!Spec
=============================================================================
