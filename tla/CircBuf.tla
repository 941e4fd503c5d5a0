------------------------------- MODULE CircBuf -------------------------------
(***************************************************************************)
(* The ring buffer of drivers/circbuf.c (the copies of both chips are the  *)
(* same).  A buffer is a record of the array data and of top, tail and     *)
(* size, where size is counted apart from the two pointers.  buf_push      *)
(* never looks for room: "this function allows push to overwrite old data".*)
(* It then counts the bytes all the same and leaves top where it was.      *)
(***************************************************************************)
EXTENDS Integers, Sequences

CONSTANT RING       \* USBTTY_BUFFER_SIZE, which is also totalsize

ASSUME RingAssumption == RING \in Nat \ {0}

Index == 0 .. RING - 1
Buffer(Byte) == [data : [Index -> Byte], top : Index, tail : Index, size : Nat]

\* Pointers run modulo the array; no caller passes more than RING bytes.
Wrap(p) == IF p >= RING THEN p - RING ELSE p

buf_init(zero) == [data |-> [i \in Index |-> zero], top |-> 0, tail |-> 0, size |-> 0]

\* The number of bytes from pointer p on to index i.
Offset(p, i) == IF i >= p THEN i - p ELSE i + RING - p

buf_push(b, src) ==
  [b EXCEPT !.data = [i \in Index |-> LET k == Offset(b.tail, i)
                                      IN  IF k < Len(src) THEN src[k + 1] ELSE @[i]],
            !.tail = Wrap(@ + Len(src)),
            !.size = @ + Len(src)]

\* "Cap to number of bytes in buffer"
Capped(b, len) == IF len > b.size THEN b.size ELSE len

\* What buf_pop stores for its caller, and the buffer it leaves.
Taken(b, len) == [k \in 1..Capped(b, len) |-> b.data[Wrap(b.top + k - 1)]]
buf_pop(b, len) == [b EXCEPT !.top  = Wrap(@ + Capped(b, len)),
                             !.size = @ - Capped(b, len)]

\* The queue a buffer stands for: what it can still hold of what is counted.
Contents(b) == Taken(b, IF b.size > RING THEN RING ELSE b.size)
=============================================================================
