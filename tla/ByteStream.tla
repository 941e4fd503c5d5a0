----------------------------- MODULE ByteStream -----------------------------
(***************************************************************************)
(* What one direction of the USB console promises its two ends: a queue.   *)
(* Bytes are numbered in the order in which the sender hands them over, so *)
(* that a byte lost, doubled or overtaken shows.  The two buffers, the     *)
(* transfer block and the FIFO of the endpoint that UsbTty puts between    *)
(* the ends are all behind the one variable way.                           *)
(***************************************************************************)
EXTENDS Naturals, Sequences

VARIABLES way,  \* accepted from the sender and not yet with the receiver
          got   \* what the receiver has read so far

vars == <<way, got>>

Init == way = <<>> /\ got = <<>>

\* The n bytes that follow all those accepted so far.
Fresh(n) == [i \in 1..n |-> Len(got) + Len(way) + i]

Accept == /\ Len(way') > Len(way)
          /\ way' = way \o Fresh(Len(way') - Len(way))
          /\ UNCHANGED got

Deliver == \E n \in 1..Len(way) :
             /\ got' = got \o SubSeq(way, 1, n)
             /\ way' = SubSeq(way, n + 1, Len(way))

Next == Accept \/ Deliver

Spec == Init /\ [][Next]_vars
=============================================================================
