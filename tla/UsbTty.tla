------------------------------- MODULE UsbTty -------------------------------
(***************************************************************************)
(* The USB console: usbtty.c above the bulk endpoints of usbd.c, as        *)
(* handshake_usb.c uses it.  Nothing is interrupt driven.  The controller  *)
(* latches what happens on the bus, and the program sees it when one of    *)
(* its calls runs service_interrupts.  Which calls run it, and which of    *)
(* them move bytes between the endpoints and the ring buffers afterwards,  *)
(* differs from call to call; that is what this module is about.           *)
(*                                                                         *)
(*    usb_send -> output -> tx.buf -> tx.fifo -> host                      *)
(*    usb_recv <- input  <- rcv    <- rxfifo  <- host                      *)
(*                                                                         *)
(* Each call of the program is a sequence of steps; between any two of     *)
(* them the host may take a packet or send one.  Bytes are numbered in the *)
(* order they are handed over.  The bus is not reset after the             *)
(* configuration: endpoint->last would stay nonzero and nothing would be   *)
(* sent any more (see the README).                                         *)
(***************************************************************************)
EXTENDS CircBuf

CONSTANTS
  PACKET,     \* packet size of a bulk endpoint, and the 512 of usbtty.c
  URB,        \* bytes a transfer block holds: sizeof(buffer_data)
  ANSWERS,    \* lengths the program sends
  REQUESTS,   \* lengths the program asks for
  TOKEN,      \* HSHK_TOKEN_SZ, what usb_listen waits for
  READY,      \* length of the string "READY"
  AHEAD,      \* bytes the host sends before the program asks for them
  MAX_OUT,    \* bound: bytes the program sends
  MAX_IN,     \* bound: bytes the host sends
  TIMEOUTS    \* bound: flushes given up because the host did not read

ASSUME SizeAssumption ==
  /\ {PACKET, URB, TOKEN, READY} \subseteq Nat \ {0}
  /\ ANSWERS \subseteq Nat \ {0} /\ REQUESTS \subseteq Nat \ {0}
  /\ {AHEAD, MAX_OUT, MAX_IN, TIMEOUTS} \subseteq Nat

VARIABLES
  output, input,   \* usb_output_buffer, usb_input_buffer
  tx,              \* TX_ENDPOINT: its transfer block, sent, last and FIFO
  rcv,             \* the bytes in rcv_urb of RX_ENDPOINT
  rxfifo,          \* the packet in the receiving FIFO
  irq,             \* latched in INTRTX, INTRRX and INTRUSB
  seen,            \* the copy of them that service_interrupts works on
  todo,            \* routines of a poll still to run
  call,            \* what the program is doing
  accepted,        \* bytes handed to buf_push for sending
  hostGot,         \* bytes the host has read
  hostSent,        \* bytes the host has sent
  appGot,          \* bytes the program has read
  timeouts

buffers == <<output, input, tx, rcv, rxfifo>>
ends    == <<accepted, hostGot, hostSent, appGot>>
vars == <<buffers, irq, seen, todo, call, ends, timeouts>>

Least(a, b) == IF a < b THEN a ELSE b

\* A call: where it stands, the bytes it has still to move, and those of the
\* piece in hand: the string of puts, the count passed to getcn.
Idle == [op |-> "none", at |-> "idle", left |-> 0, piece |-> 0]
At(place) == call.at = place /\ todo = <<>>

\* usbdl_poll, mt_usbtty_query_data_size and the loop of mt_usbtty_puts.
Service == <<"service_interrupts", "mt_udc_irq">>
Poll    == <<"service_interrupts", "mt_udc_irq", "buf_to_ep", "ep_to_buf">>
\* Mutant: only the interrupts.
QueryService == Service
Query   == <<"service_interrupts", "mt_udc_irq", "ep_to_buf">>

Numbers(from, n) == [i \in 1..n |-> from + i]

\* usb_connect has returned: buffers empty, usb_configured set.
Init == /\ output = buf_init(0) /\ input = buf_init(0)
        /\ tx = [buf |-> <<>>, sent |-> 0, last |-> 0, fifo |-> <<>>]
        /\ rcv = <<>> /\ rxfifo = <<>>
        /\ irq = {} /\ seen = {} /\ todo = <<>> /\ call = Idle
        /\ accepted = 0 /\ hostGot = <<>> /\ hostSent = 0 /\ appGot = <<>>
        /\ timeouts = 0

-----------------------------------------------------------------------------
(* The endpoints: mt_write_fifo, mt_ep_write and mt_udc_irq.               *)

\* TXPKTRDY is set as long as the FIFO holds a packet.
mt_ep_busy(t) == t.fifo # <<>>

Unsent(t) == SubSeq(t.buf, t.sent + 1, Len(t.buf))

\* Mutant: sent is set, not advanced.
MtWriteFifoSets(t) ==
  LET packet == SubSeq(Unsent(t), 1, Least(Len(Unsent(t)), PACKET))
  IN  [t EXCEPT !.fifo = packet, !.last = Len(packet), !.sent = Len(packet)]
mt_write_fifo(t) ==
  LET packet == SubSeq(Unsent(t), 1, Least(Len(Unsent(t)), PACKET))
  IN  [t EXCEPT !.fifo = packet, !.last = Len(packet), !.sent = @ + Len(packet)]

\* Nothing left: actual_length, sent and last are set to 0.
Finished(t) == IF Unsent(t) = <<>> THEN [t EXCEPT !.buf = <<>>, !.sent = 0, !.last = 0] ELSE t

\* mt_udc_epx_handler for USB_DIR_IN: a FIFO still full is left alone.
TransmitHandler(t) == IF mt_ep_busy(t) THEN t ELSE Finished(mt_write_fifo(t))

\* Mutant: the bytes of the transfer block are replaced.
MtReadFifoFirst(urb, packet) == packet
mt_read_fifo(urb, packet) == urb \o packet

mt_ep_write(t) == IF mt_ep_busy(t) THEN t ELSE mt_write_fifo(t)

\* The registers are read and cleared, then the copy is worked off: IN, then
\* OUT.
service_interrupts ==
  /\ todo # <<>> /\ Head(todo) = "service_interrupts"
  /\ seen' = irq /\ irq' = {} /\ todo' = Tail(todo)
  /\ UNCHANGED <<buffers, call, ends, timeouts>>

mt_udc_irq ==
  /\ todo # <<>> /\ Head(todo) = "mt_udc_irq"
  /\ tx' = IF "tx" \in seen THEN TransmitHandler(tx) ELSE tx
  /\ IF "rx" \in seen
     THEN rcv' = mt_read_fifo(rcv, rxfifo) /\ rxfifo' = <<>>
     ELSE UNCHANGED <<rcv, rxfifo>>
  /\ seen' = {} /\ todo' = Tail(todo)
  /\ UNCHANGED <<output, input, irq, call, ends, timeouts>>

-----------------------------------------------------------------------------
(* Between the ring buffers and the endpoints.                             *)

\* "if the endpoint is idle, trigger the tx transfer"
Triggered(t) == IF t.last = 0 THEN mt_ep_write(t) ELSE t

\* The loop of buf_to_ep takes all the transfer block has room for in its
\* first round; in a second one it finds no room and returns.
buf_to_ep ==
  /\ todo # <<>> /\ Head(todo) = "buf_to_ep"
  /\ LET popnum == Least(URB - Len(tx.buf), output.size)
     IN  IF popnum > 0
         THEN /\ tx' = Triggered([tx EXCEPT !.buf = @ \o Taken(output, popnum)])
              /\ output' = buf_pop(output, popnum)
         ELSE UNCHANGED <<tx, output>>
  /\ todo' = Tail(todo)
  /\ UNCHANGED <<input, rcv, rxfifo, irq, seen, call, ends, timeouts>>

ep_to_buf ==
  /\ todo # <<>> /\ Head(todo) = "ep_to_buf"
  /\ input' = IF rcv # <<>> THEN buf_push(input, rcv) ELSE input
  /\ rcv' = <<>>
  /\ todo' = Tail(todo)
  /\ UNCHANGED <<output, tx, rxfifo, irq, seen, call, ends, timeouts>>

-----------------------------------------------------------------------------
(* usb_send: mt_usbtty_putcn without flush, then mt_usbtty_flush.          *)

usb_send(n) ==
  /\ At("idle") /\ accepted + n <= MAX_OUT
  /\ call' = [op |-> "send", at |-> "putcn", left |-> n, piece |-> 0]
  /\ UNCHANGED <<buffers, irq, seen, todo, ends, timeouts>>

Push(n) == /\ output' = buf_push(output, Numbers(accepted, n))
           /\ accepted' = accepted + n

putcn ==
  /\ At("putcn")
  /\ LET n == Least(call.left, PACKET)
     IN  /\ Push(n)
         /\ call' = [call EXCEPT !.left = @ - n, !.at = IF call.left = n THEN "flush" ELSE @]
  /\ todo' = IF output'.size >= RING THEN Poll ELSE <<>>
  /\ UNCHANGED <<input, tx, rcv, rxfifo, irq, seen, hostGot, hostSent, appGot, timeouts>>

\* The place of a call whose flush has ended.
Flushed == IF call.op = "listen" THEN [call EXCEPT !.at = "query"] ELSE Idle

\* Mutant: only the endpoint is looked at.
UnflushedBusy == mt_ep_busy(tx)
Unflushed == output.size > 0 \/ mt_ep_busy(tx)

usbdl_flush ==
  /\ At("flush")
  /\ IF Unflushed
     THEN todo' = Poll /\ call' = [call EXCEPT !.at = "timer"]
     ELSE todo' = <<>> /\ call' = Flushed
  /\ UNCHANGED <<buffers, irq, seen, ends, timeouts>>

\* After each poll: once more, or 300 ms are over.
NotYet == /\ At("timer") /\ call' = [call EXCEPT !.at = "flush"]
          /\ UNCHANGED <<buffers, irq, seen, todo, ends, timeouts>>

Timeout == /\ At("timer") /\ timeouts < TIMEOUTS
           /\ timeouts' = timeouts + 1 /\ call' = Flushed
           /\ UNCHANGED <<buffers, irq, seen, todo, ends>>

-----------------------------------------------------------------------------
(* usb_recv, and usb_listen, which also puts "READY" in every round.       *)

usb_recv(n) ==
  /\ At("idle")
  /\ call' = [op |-> "recv", at |-> "query", left |-> n, piece |-> 0]
  /\ UNCHANGED <<buffers, irq, seen, todo, ends, timeouts>>

Puts(c) == [c EXCEPT !.at = "puts", !.piece = READY]

usb_listen ==
  /\ At("idle") /\ accepted + READY <= MAX_OUT
  /\ call' = Puts([op |-> "listen", at |-> "idle", left |-> TOKEN, piece |-> 0])
  /\ UNCHANGED <<buffers, irq, seen, todo, ends, timeouts>>

\* A round of the loop of mt_usbtty_puts: what there is space for, none if
\* the buffer is full, and no other way to make space than the interrupts.
\* (Beyond RING the code computes with a negative space: see the README.)
puts ==
  /\ At("puts") /\ call.piece > 0 /\ output.size <= RING
  /\ LET n == Least(RING - output.size, call.piece)
     IN  Push(n) /\ call' = [call EXCEPT !.piece = @ - n]
  /\ todo' = Service
  /\ UNCHANGED <<input, tx, rcv, rxfifo, irq, seen, hostGot, hostSent, appGot, timeouts>>

PutsDone == /\ At("puts") /\ call.piece = 0
            /\ todo' = Poll /\ call' = [call EXCEPT !.at = "flush"]
            /\ UNCHANGED <<buffers, irq, seen, ends, timeouts>>

\* mt_usbtty_query_data_size looks at the endpoint only below 512 bytes.
query ==
  /\ At("query")
  /\ todo' = IF input.size < PACKET THEN Query ELSE <<>>
  /\ call' = [call EXCEPT !.at = "queried"]
  /\ UNCHANGED <<buffers, irq, seen, ends, timeouts>>

\* Nothing there: the next round.
Again == /\ At("queried") /\ input.size = 0
         /\ call' = IF call.op = "listen" /\ accepted + READY <= MAX_OUT
                    THEN Puts(call) ELSE [call EXCEPT !.at = "query"]
         /\ UNCHANGED <<buffers, irq, seen, todo, ends, timeouts>>

\* mt_usbtty_getcn for the bytes counted: it polls first, below 512.
getcn ==
  /\ At("queried") /\ input.size > 0
  /\ todo' = IF input.size < PACKET THEN Poll ELSE <<>>
  /\ call' = [call EXCEPT !.at = "getcn", !.piece = Least(input.size, call.left)]
  /\ UNCHANGED <<buffers, irq, seen, ends, timeouts>>

pop == /\ At("getcn")
       /\ appGot' = appGot \o Taken(input, call.piece)
       /\ input' = buf_pop(input, call.piece)
       /\ call' = IF call.piece = call.left THEN Idle
                  ELSE IF call.op = "listen" /\ accepted + READY <= MAX_OUT
                  THEN Puts([call EXCEPT !.left = @ - call.piece])
                  ELSE [call EXCEPT !.at = "query", !.left = @ - call.piece, !.piece = 0]
       /\ UNCHANGED <<output, tx, rcv, rxfifo, irq, seen, todo, accepted, hostGot, hostSent,
                      timeouts>>

-----------------------------------------------------------------------------
(* The host.  It sends what the protocol makes the program ask for, and    *)
(* may be AHEAD of it by the next command.                                 *)

Asked == Len(appGot) + (IF call.op \in {"recv", "listen"} THEN call.left ELSE 0)

HostSends == \E n \in 1..PACKET :
  /\ rxfifo = <<>> /\ "rx" \notin irq
  /\ hostSent + n <= Least(MAX_IN, Asked + AHEAD)
  /\ rxfifo' = Numbers(hostSent, n) /\ hostSent' = hostSent + n
  /\ irq' = irq \cup {"rx"}
  /\ UNCHANGED <<output, input, tx, rcv, seen, todo, call, accepted, hostGot, appGot,
                 timeouts>>

HostReads ==
  /\ mt_ep_busy(tx)
  /\ hostGot' = hostGot \o tx.fifo /\ tx' = [tx EXCEPT !.fifo = <<>>]
  /\ irq' = irq \cup {"tx"}
  /\ UNCHANGED <<output, input, rcv, rxfifo, seen, todo, call, accepted, hostSent, appGot,
                 timeouts>>

-----------------------------------------------------------------------------
Routine == service_interrupts \/ mt_udc_irq \/ buf_to_ep \/ ep_to_buf

Calls == putcn \/ usbdl_flush \/ NotYet \/ puts \/ PutsDone \/ query \/ Again \/ getcn \/ pop

Program == \/ \E n \in ANSWERS : usb_send(n)
           \/ \E n \in REQUESTS : usb_recv(n)
           \/ usb_listen

Next == Routine \/ Calls \/ Timeout \/ Program \/ HostSends \/ HostReads

\* The program runs on and ends up waiting for the next command; the host
\* takes the packets offered to it and sends what is asked for.
Fairness == /\ WF_vars(Routine \/ Calls)
            /\ WF_vars(\E n \in REQUESTS : usb_recv(n))
            /\ WF_vars(HostReads) /\ WF_vars(HostSends)

Spec == Init /\ [][Next]_vars /\ Fairness

-----------------------------------------------------------------------------
(* Properties.                                                             *)

\* What is left of a poll or a query, and of a round of mt_usbtty_puts.
Moving    == {<<"buf_to_ep", "ep_to_buf">>, <<"ep_to_buf">>}
Polling   == {Poll, Tail(Poll), Query, Tail(Query)} \cup Moving
Servicing == {Service, Tail(Service)}

Endpoint == [buf : Seq(Nat), sent : Nat, last : 0..PACKET, fifo : Seq(Nat)]
Places   == {"idle", "putcn", "flush", "timer", "puts", "query", "queried", "getcn"}
Call     == [op : {"none", "send", "recv", "listen"}, at : Places, left : Nat, piece : Nat]

TypeOK ==
  /\ output \in Buffer(Nat) /\ input \in Buffer(Nat) /\ tx \in Endpoint
  /\ rcv \in Seq(Nat) /\ rxfifo \in Seq(Nat) /\ Len(rxfifo) <= PACKET
  /\ irq \subseteq {"tx", "rx"} /\ seen \subseteq {"tx", "rx"}
  /\ todo \in {<<>>} \cup Polling \cup Servicing /\ call \in Call
  /\ accepted \in Nat /\ hostSent \in Nat /\ timeouts \in 0..TIMEOUTS
  /\ hostGot \in Seq(Nat) /\ appGot \in Seq(Nat)

\* What the program sends reaches the host complete and in order, and what
\* the host sends reaches the program: each direction is a queue, whichever
\* calls poll, however full the ring buffers are and though buf_push never
\* looks for room.
Out == INSTANCE ByteStream
         WITH way <- tx.fifo \o Unsent(tx) \o Contents(output), got <- hostGot
In  == INSTANCE ByteStream
         WITH way <- Contents(input) \o rcv \o rxfifo, got <- appGot

OutIsQueue == Out!Spec
InIsQueue  == In!Spec

\* mt_read_fifo appends to the transfer block without asking for room, and
\* mt_usbtty_puts services interrupts without emptying it.
ReceiveBlockFits == Len(rcv) <= URB

\* Every answer is read in the end, also after a flush that gave up.
AnswersArrive == \A n \in 1..MAX_OUT : (accepted >= n) ~> (Len(hostGot) >= n)

=============================================================================
