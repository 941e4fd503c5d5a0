------------------------------- MODULE BlkDev --------------------------------
(***************************************************************************)
(* blkdev.c: reads and writes of any range of bytes on a device of blocks. *)
(* The unaligned start and end go through a buffer of one block, which a   *)
(* write reads, changes and writes back with bytes that are not its own;   *)
(* the whole blocks in between are one transfer from the caller's memory.  *)
(*                                                                         *)
(* Each transfer may fail, and power may be lost before each.  A write of  *)
(* several blocks that fails has written any of them; one of a single      *)
(* block has written it or not.                                            *)
(***************************************************************************)
EXTENDS Integers

CONSTANTS
  BLKSZ,     \* bdev->blksz, a power of two in code, where % is a mask
  BLOCKS,    \* blocks of the device
  MaxCalls   \* bound: calls

ASSUME SizesAssumption == BLKSZ \in Nat \ {0} /\ BLOCKS \in Nat \ {0} /\ MaxCalls \in Nat

VARIABLES
  medium,             \* the bytes of the user area and of the boot area
  req,                \* the arguments of the call; id tells its data apart
  pc, addr, size, pos,\* src or dst on the device, what is left, and the offset
                      \* of the caller's pointer
  buf,                \* the block buffer
  out,                \* the caller's memory, of a read
  ret, calls

progress == <<addr, size, pos>>
vars == <<medium, req, pc, progress, buf, out, ret, calls>>

Addresses == 0 .. BLOCKS * BLKSZ - 1
Areas == {"user", "boot"}
Bytes == (-1 .. MaxCalls) \X Nat
BlockOf(a) == a \div BLKSZ
Block(b) == b * BLKSZ .. (b + 1) * BLKSZ - 1

\* A byte is named by the call that wrote it and its place in the data.
Old(r, a) == <<IF r = "user" THEN 0 ELSE -1, a>>

Init == /\ medium = [r \in Areas |-> [a \in Addresses |-> Old(r, a)]]
        /\ req = [kind |-> "read", area |-> "user", start |-> 0, n |-> 0, id |-> 0]
        /\ pc = "idle" /\ addr = 0 /\ size = 0 /\ pos = 0 /\ buf = <<>> /\ out = <<>>
        /\ ret = "ok" /\ calls = 0

-----------------------------------------------------------------------------
(* The split of the range, from the arguments of the call.                 *)

End == req.start + req.n
PartStart == req.start % BLKSZ
PartEnd == End % BLKSZ
AlignedEnd == End - PartEnd
PartLenToEnd == BLKSZ - PartStart                   \* mutant
PartLen == IF PartStart + req.n > BLKSZ THEN BLKSZ - PartStart ELSE req.n
Blks(a) == BlockOf(AlignedEnd - a)

Tail(a, left) == IF left > 0 /\ PartEnd # 0 /\ a < End THEN "tail" ELSE "done"
Middle(a, left) == IF left >= BLKSZ THEN "middle" ELSE Tail(a, left)
Head(a, left) == IF a % BLKSZ # 0 THEN "head" ELSE Middle(a, left)

Call(kind, area, s, n) ==
  /\ pc = "idle" /\ calls < MaxCalls /\ calls' = calls + 1
  /\ req' = [kind |-> kind, area |-> area, start |-> s, n |-> n, id |-> calls + 1]
  /\ pc' = IF n = 0 THEN "done" ELSE Head(s, n)'
  /\ addr' = s /\ size' = n /\ pos' = 0 /\ out' = <<>>
  /\ UNCHANGED <<medium, buf, ret>>

Range(s, n) == s \in Addresses /\ s + n <= BLOCKS * BLKSZ
blkdev_read(s, n)      == Range(s, n) /\ Call("read", "user", s, n)
blkdev_boot_read(s, n) == Range(s, n) /\ Call("read", "boot", s, n)
blkdev_write(s, n)     == Range(s, n) /\ Call("write", "user", s, n)

-----------------------------------------------------------------------------
Reads == req.kind = "read"
Writes == req.kind = "write"

\* The caller's byte for the device's address a, and the contents of a block.
Data(a) == <<req.id, pos + a - addr>>
Stored(A) == [a \in A |-> medium[req.area][a]]
With(f, A) == [a \in DOMAIN f |-> IF a \in A THEN Data(a) ELSE f[a]]

Advance(n) == addr' = addr + n /\ pos' = pos + n /\ size' = size - n
Stay == UNCHANGED progress
Copied(A) == [i \in DOMAIN out \cup {pos + a - addr : a \in A} |->
                IF i \in DOMAIN out THEN out[i] ELSE medium[req.area][addr + i - pos]]
Put(A) == medium' = [medium EXCEPT ![req.area] = With(@, A)]

\* The block of the device that a holds, read for n bytes from a on.
ReadPart(at, a, n, after, next) ==
  /\ pc = at /\ buf' = Stored(Block(BlockOf(a)))
  /\ \/ /\ Reads /\ out' = Copied(a .. a + n - 1) /\ Advance(n) /\ pc' = after
     \/ /\ Writes /\ UNCHANGED <<out, progress>> /\ pc' = next
  /\ UNCHANGED <<medium, req, ret, calls>>

\* And written back: every byte of the block, as the buffer has it.
Changed(n) == With(buf, addr .. addr + n - 1)
WritePart(at, n, after) ==
  /\ pc = at /\ Advance(n) /\ pc' = after
  /\ medium' = [medium EXCEPT ![req.area] = [a \in Addresses |->
                  IF a \in DOMAIN buf THEN Changed(n)[a] ELSE @[a]]]
  /\ UNCHANGED <<req, buf, out, ret, calls>>

AfterHead == Middle(addr + PartLen, size - PartLen)
ReadHead == ReadPart("head", addr, PartLen, AfterHead, "head_write")
WriteHead == WritePart("head_write", PartLen, AfterHead)

\* Straight between the device and the caller's memory.
Whole == addr .. addr + Blks(addr) * BLKSZ - 1
TransferMiddle ==
  /\ pc = "middle" /\ Advance(Blks(addr) * BLKSZ)
  /\ pc' = Tail(addr + Blks(addr) * BLKSZ, size - Blks(addr) * BLKSZ)
  /\ \/ Reads /\ out' = Copied(Whole) /\ UNCHANGED medium
     \/ Writes /\ Put(Whole) /\ UNCHANGED out
  /\ UNCHANGED <<req, buf, ret, calls>>

ReadTail == ReadPart("tail", AlignedEnd, PartEnd, "done", "tail_write")
WriteTail == WritePart("tail_write", PartEnd, "done")

Return == /\ pc = "done" /\ pc' = "idle" /\ ret' = "ok"
          /\ UNCHANGED <<medium, req, progress, buf, out, calls>>

-----------------------------------------------------------------------------
\* A transfer fails, which ends the call with -1, or power is lost.
Under == pc \in {"head", "head_write", "middle", "tail", "tail_write"}
Left(answer) == pc' = "idle" /\ ret' = answer /\ UNCHANGED <<req, progress, buf, out, calls>>

\* The buffer may have reached the block; of the middle, any blocks.
Partly == CASE pc = "head_write" -> {{}, addr .. addr + PartLen - 1}
            [] pc = "tail_write" -> {{}, addr .. addr + PartEnd - 1}
            [] pc = "middle" /\ Writes ->
                 {UNION {Block(b) : b \in B} : B \in SUBSET {BlockOf(a) : a \in Whole}}
            [] OTHER -> {{}}
FailIgnored ==                                      \* mutant
  \/ pc = "head_write" /\ Advance(PartLen) /\ pc' = AfterHead
     /\ UNCHANGED <<medium, req, buf, out, ret, calls>>
  \/ Under /\ Left("failed") /\ \E A \in Partly : Put(A)
Fail == /\ Under /\ Left("failed") /\ \E A \in Partly : Put(A)
PowerCut == /\ Under /\ Left("cut") /\ \E A \in Partly : Put(A)

Next == \/ \E s \in Addresses : \E n \in 0 .. BLOCKS * BLKSZ :
             blkdev_read(s, n) \/ blkdev_boot_read(s, n) \/ blkdev_write(s, n)
        \/ ReadHead \/ WriteHead \/ TransferMiddle \/ ReadTail \/ WriteTail
        \/ Return \/ Fail \/ PowerCut

Spec == Init /\ [][Next]_vars

-----------------------------------------------------------------------------
\* Types: the buffer holds one block, and what is left to do is what the
\* call asked for less what is done (the updates of size and the pointers).
Requests == [kind : {"read", "write"}, area : Areas, start : Addresses,
             n : 0 .. BLOCKS * BLKSZ, id : 0 .. MaxCalls]

TypeOK ==
  /\ medium \in [Areas -> [Addresses -> Bytes]]
  /\ req \in Requests /\ calls \in 0 .. MaxCalls /\ End <= BLOCKS * BLKSZ
  /\ pc \in {"idle", "head", "head_write", "middle", "tail", "tail_write", "done"}
  /\ addr \in Nat /\ pos \in Nat
  /\ size \in 0 .. req.n /\ addr + size = End /\ pos + size = req.n
  /\ DOMAIN buf \in {{}} \cup {Block(b) : b \in 0 .. BLOCKS - 1}
  /\ DOMAIN out \subseteq 0 .. req.n - 1
  /\ ret \in {"ok", "failed", "cut"}

\* Head, middle and tail reach the device in this order: where a byte of a
\* later part is new, all of the earlier ones are, whatever failed
\* (blkdev_write returns at the first error).
Asked == req.start .. End - 1
New(a) == <<req.id, a - req.start>>
Part(a) == IF PartStart # 0 /\ BlockOf(a) = BlockOf(req.start) THEN 1
           ELSE IF PartEnd # 0 /\ BlockOf(a) = BlockOf(End) THEN 3 ELSE 2
InOrder == Writes => \A a, b \in Asked :
  Part(a) < Part(b) /\ medium["user"][b] = New(b) => medium["user"][a] = New(a)

\* The store of bytes that the layer implements: the blocks and the buffer
\* do not show, neither in what a read returns nor in the bytes a write
\* leaves changed, at any moment of the call and however it ends.
Store == INSTANCE ByteStore WITH
  call   <- [kind |-> req.kind, area |-> req.area, range |-> Asked,
             new |-> [a \in Asked |-> New(a)]],
  active <- pc # "idle",
  result <- IF pc = "idle" /\ ret = "ok" /\ Reads THEN [a \in Asked |-> out[a - req.start]] ELSE <<>>
ImplementsStore == Store!Spec
=============================================================================
