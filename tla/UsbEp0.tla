------------------------------- MODULE UsbEp0 -------------------------------
(***************************************************************************)
(* Endpoint 0 of usbd.c and the host that enumerates the device: requests, *)
(* their data and status stages, stalls, transfers ended early and resets  *)
(* of the bus.  The controller sets a bit in CSR0 and latches an interrupt *)
(* for everything that happens; service_interrupts reads the latches and   *)
(* mt_udc_irq looks at CSR0 later, so the host may act in between.         *)
(*                                                                         *)
(* The state of the software (ep0_state, sent, actual_length, set_address) *)
(* is separate from that of the controller, and a reset of the bus or an   *)
(* early end restores only some of it.                                     *)
(***************************************************************************)
EXTENDS Integers, Sequences, FiniteSets

CONSTANTS
  PACKET,    \* EP0_MAX_PACKET_SIZE
  ANSWER,    \* length of each descriptor
  SCRIPT,    \* the requests with which the host enumerates the device
  ADDRESS,   \* the address the host assigns
  HUGE,      \* 2^32 in code: lengths and their differences wrap there
  RESETS,    \* bound: resets of the bus in the middle of something
  ABORTS,    \* bound: transfers the host gives up before their end
  RACES      \* bound: host actions between the two halves of a poll

ASSUME EnumerationAssumption ==
  /\ PACKET \in Nat \ {0} /\ ADDRESS \in Nat \ {0} /\ HUGE \in Nat
  /\ Len(SCRIPT) \in Nat /\ DOMAIN SCRIPT = 1 .. Len(SCRIPT)
  /\ \A d \in DOMAIN ANSWER : ANSWER[d] \in 1 .. HUGE - 1
  /\ \A i \in DOMAIN SCRIPT : SCRIPT[i].kind \in {"read", "SET_ADDRESS", "SET_CONFIGURATION",
                                                  "SET_LINE_CODING", "unsupported"}
  /\ \A i \in DOMAIN SCRIPT : SCRIPT[i].kind = "read" =>
                              SCRIPT[i].of \in DOMAIN ANSWER /\ SCRIPT[i].wLength \in Nat
  /\ {RESETS, ABORTS, RACES} \subseteq Nat

VARIABLES
  ep0_state, sent, actual_length,  \* EP0_IDLE, EP0_TX or EP0_RX; of ep0_urb
  answer,          \* the descriptor whose bytes are in ep0_urb
  set_address, address,            \* the flag, and udc_device->address
  usb_configured, tool_exists,
  CSR0, FADDR,     \* registers of the controller
  fifo,            \* what the FIFO of endpoint 0 holds
  open,            \* a control transfer has begun and not ended
  irq, seen,       \* interrupts latched, and the copy being handled
  step, stage, got,                \* the host: request, stage, bytes read
  hostAddress,     \* the address the host speaks to
  cutShort,        \* the host has ended a read before the device
  early,           \* the host has spoken before the program saw a reset
  resets, aborts, races

software   == <<ep0_state, sent, actual_length, answer, set_address, address,
                usb_configured, tool_exists>>
controller == <<CSR0, FADDR, fifo, open>>
host       == <<step, stage, got, hostAddress, cutShort>>
counts     == <<early, resets, aborts, races>>
vars == <<software, controller, irq, seen, host, counts>>

NONE == [kind |-> "none"]
Request == SCRIPT[step]
Done == step > Len(SCRIPT)

Least(a, b) == IF a < b THEN a ELSE b

Init == /\ ep0_state = "IDLE" /\ sent = 0 /\ actual_length = 0 /\ answer = "none"
        /\ set_address = FALSE /\ address = 0
        /\ usb_configured = FALSE /\ tool_exists = FALSE
        /\ CSR0 = {} /\ FADDR = 0 /\ fifo = NONE /\ open = FALSE
        /\ irq = {} /\ seen = {}
        /\ step = 1 /\ stage = "setup" /\ got = <<>> /\ hostAddress = 0 /\ cutShort = FALSE
        /\ early = FALSE /\ resets = 0 /\ aborts = 0 /\ races = 0

-----------------------------------------------------------------------------
(* The software.  A handler works on copies of the state, collected in a   *)
(* record s, and hands the record on.                                      *)

Current == [state |-> ep0_state, sent |-> sent, actual |-> actual_length, answer |-> answer,
            pending |-> set_address, address |-> address, configured |-> usb_configured,
            tool |-> tool_exists, csr |-> CSR0, faddr |-> FADDR, fifo |-> fifo]

Becomes(s) ==
  /\ ep0_state' = s.state /\ sent' = s.sent /\ actual_length' = s.actual
  /\ answer' = s.answer /\ set_address' = s.pending /\ address' = s.address
  /\ usb_configured' = s.configured /\ tool_exists' = s.tool
  /\ CSR0' = s.csr /\ FADDR' = s.faddr /\ fifo' = s.fifo

\* MIN(actual_length - sent, packet size); lengths and sent are 32 bits wide
\* and the difference is unsigned.
Count(s) == Least((s.actual - s.sent) % HUGE, PACKET)

Last(s) == [s EXCEPT !.csr = @ \cup {"DATAEND"}, !.actual = 0, !.sent = 0, !.state = "IDLE"]

\* A packet that is not full is the last one.
mt_udc_ep0_write(s) ==
  IF "TXPKTRDY" \in s.csr THEN s
  ELSE LET n == Count(s)
           full == [s EXCEPT !.fifo = [kind |-> "packet", of |-> s.answer, from |-> s.sent, n |-> n],
                             !.sent = (@ + n) % HUGE, !.csr = @ \cup {"TXPKTRDY"}]
       IN  IF n < PACKET THEN Last(full) ELSE full

\* No packet is larger than PACKET: each is taken for the last one.
mt_udc_ep0_read(s) ==
  IF "RXPKTRDY" \notin s.csr THEN s
  ELSE [s EXCEPT !.fifo = NONE, !.csr = (@ \ {"RXPKTRDY"}) \cup {"DATAEND"}, !.state = "IDLE"]

udc_stall_ep(s) ==
  [s EXCEPT !.fifo = NONE, !.csr = (@ \ {"RXPKTRDY"}) \cup {"SENDSTALL"}, !.state = "IDLE"]

\* A descriptor is copied up to wLength, and to its own end.
usb_get_descriptor(s, r) ==
  [s EXCEPT !.state = "TX", !.answer = r.of, !.actual = Least(ANSWER[r.of], r.wLength)]
ep0_class_setup(s) == [s EXCEPT !.state = "RX", !.tool = TRUE]

\* What the request and the state it leaves make of the endpoint.
Serviced(s)    == [s EXCEPT !.csr = @ \ {"RXPKTRDY"}]
NoDataStage(s) == [Serviced(s) EXCEPT !.csr = @ \cup {"DATAEND"}]
Answered(s, r) ==
  CASE r.kind = "read"              -> mt_udc_ep0_write(Serviced(usb_get_descriptor(s, r)))
    [] r.kind = "SET_ADDRESS"       -> NoDataStage([s EXCEPT !.address = ADDRESS, !.pending = TRUE])
    [] r.kind = "SET_CONFIGURATION" -> NoDataStage([s EXCEPT !.configured = TRUE])
    [] r.kind = "SET_LINE_CODING"   -> Serviced(ep0_class_setup(s))
    [] OTHER                        -> udc_stall_ep(s)

\* Whatever the FIFO holds is taken for a request; data are not a supported one.
mt_udc_ep0_setup(s) ==
  IF "RXPKTRDY" \notin s.csr THEN s
  ELSE Answered([s EXCEPT !.actual = 0, !.fifo = NONE], s.fifo)

\* SENTSTALL and SETUPEND only bring the state back to EP0_IDLE.
Ended(s) == IF s.csr \cap {"SENTSTALL", "SETUPEND"} # {}
            THEN [s EXCEPT !.csr = @ \ {"SENTSTALL", "SETUPEND"}, !.state = "IDLE"] ELSE s

\* Mutant: the address is taken with the next request.
AddressedLater(s) == IF s.pending /\ "RXPKTRDY" \in s.csr
                     THEN [s EXCEPT !.faddr = s.address, !.pending = FALSE] ELSE s
Addressed(s) == IF s.pending THEN [s EXCEPT !.faddr = s.address, !.pending = FALSE] ELSE s

mt_udc_ep0_handler(entry) ==
  LET s == Ended(entry)
  IN  CASE s.state = "IDLE" -> mt_udc_ep0_setup(Addressed(s))
        [] s.state = "TX"   -> mt_udc_ep0_write(s)
        [] s.state = "RX"   -> mt_udc_ep0_read(s)

\* The FIFO is flushed; FADDR is left to the controller, the rest as it was.
\* Mutants: the state is made idle, but sent not reset; the address is kept.
MtUdcResetIdle(s) ==
  [s EXCEPT !.address = 0, !.fifo = NONE, !.csr = @ \ {"RXPKTRDY", "TXPKTRDY"}, !.state = "IDLE"]
MtUdcResetAddressed(s) ==
  [s EXCEPT !.fifo = NONE, !.csr = @ \ {"RXPKTRDY", "TXPKTRDY"}]
mt_udc_reset(s) ==
  [s EXCEPT !.address = 0, !.fifo = NONE, !.csr = @ \ {"RXPKTRDY", "TXPKTRDY"}]

service_interrupts ==
  /\ seen = {} /\ irq # {}
  /\ seen' = irq /\ irq' = {}
  /\ UNCHANGED <<software, controller, host, counts>>

mt_udc_irq ==
  /\ seen # {} /\ seen' = {}
  /\ LET s == IF "reset" \in seen THEN mt_udc_reset(Current) ELSE Current
     IN  Becomes(IF "ep0" \in seen THEN mt_udc_ep0_handler(s) ELSE s)
  /\ UNCHANGED <<open, irq, host, counts>>

-----------------------------------------------------------------------------
(* The host and the controller.  While RXPKTRDY is set, and whenever it    *)
(* has nothing to give or no room to take, the controller answers NAK and  *)
(* the host tries again.                                                   *)

\* A host action between the two halves of a poll, or before the program has
\* seen a reset, is counted.
Between == seen # {} \/ "reset" \in irq
Raced == /\ races' = (IF Between THEN races + 1 ELSE races) /\ races' <= RACES
         /\ early' = (early \/ "reset" \in irq \cup seen)

Interrupt == irq' = irq \cup {"ep0"}
Spoken == hostAddress = FADDR /\ ~Done

\* A SETUP packet is always accepted; it ends a transfer that is still open.
HostSetup ==
  /\ Spoken /\ stage = "setup" /\ Raced
  /\ fifo' = Request
  /\ CSR0' = (CSR0 \ {"TXPKTRDY", "DATAEND", "SENDSTALL"})
               \cup {"RXPKTRDY"} \cup (IF open THEN {"SETUPEND"} ELSE {})
  /\ open' = TRUE /\ got' = <<>> /\ Interrupt
  /\ stage' = IF Request.kind \in {"read", "SET_LINE_CODING"} THEN "data" ELSE "status"
  /\ UNCHANGED <<software, FADDR, seen, step, hostAddress, cutShort, resets, aborts>>

Taken == "RXPKTRDY" \notin CSR0 /\ "SENDSTALL" \notin CSR0

\* The bytes of an answer are numbered; a packet may reach beyond its end.
Bytes(p) == [i \in 1..p.n |-> <<p.of, p.from + i>>]

HostReads ==
  /\ Spoken /\ stage = "data" /\ Request.kind = "read" /\ Raced
  /\ Taken /\ "TXPKTRDY" \in CSR0
  /\ got' = got \o Bytes(fifo)
  /\ CSR0' = CSR0 \ {"TXPKTRDY"} /\ fifo' = NONE /\ Interrupt
  /\ stage' = CASE Len(got') > Request.wLength -> "lost"
                [] fifo.n < PACKET \/ Len(got') = Request.wLength -> "status"
                [] OTHER -> "data"
  /\ UNCHANGED <<software, FADDR, open, seen, step, hostAddress, cutShort, resets, aborts>>

HostWrites ==
  /\ Spoken /\ stage = "data" /\ Request.kind = "SET_LINE_CODING" /\ Raced
  /\ Taken /\ "DATAEND" \notin CSR0
  /\ CSR0' = CSR0 \cup {"RXPKTRDY"} /\ fifo' = [kind |-> "data"] /\ Interrupt
  /\ stage' = "status"
  /\ UNCHANGED <<software, FADDR, open, seen, step, got, hostAddress, cutShort, resets, aborts>>

\* The status stage of a read may come before the device has set DATAEND.
HostStatus ==
  /\ Spoken /\ stage = "status" /\ Raced /\ Taken
  /\ "DATAEND" \in CSR0 \/ Request.kind = "read"
  /\ CSR0' = IF "DATAEND" \in CSR0 THEN CSR0 \ {"DATAEND"}
             ELSE (CSR0 \ {"TXPKTRDY"}) \cup {"SETUPEND"}
  /\ cutShort' = (cutShort \/ "DATAEND" \notin CSR0)
  /\ open' = FALSE /\ Interrupt
  /\ step' = step + 1 /\ stage' = "setup"
  /\ hostAddress' = IF Request.kind = "SET_ADDRESS" THEN ADDRESS ELSE hostAddress
  /\ UNCHANGED <<software, FADDR, fifo, seen, got, resets, aborts>>

\* STALL ends the transfer; the host goes on if it expected one.
HostStalled ==
  /\ Spoken /\ stage \in {"data", "status"} /\ Raced /\ "SENDSTALL" \in CSR0
  /\ CSR0' = (CSR0 \ {"SENDSTALL"}) \cup {"SENTSTALL"} /\ open' = FALSE /\ Interrupt
  /\ IF Request.kind = "unsupported"
     THEN step' = step + 1 /\ stage' = "setup"
     ELSE step' = step /\ stage' = "lost"
  /\ UNCHANGED <<software, FADDR, fifo, seen, got, hostAddress, cutShort, resets, aborts>>

\* The host gives a transfer up and asks again.
HostAborts ==
  /\ Spoken /\ stage \in {"data", "status"} /\ aborts < ABORTS
  /\ aborts' = aborts + 1 /\ stage' = "setup"
  /\ cutShort' = (cutShort \/ Request.kind = "read")
  /\ UNCHANGED <<software, controller, irq, seen, step, got, hostAddress, early, resets, races>>

\* The host begins again; the controller clears its registers and FIFOs.
BeginAgain ==
  /\ CSR0' = {} /\ FADDR' = 0 /\ fifo' = NONE /\ open' = FALSE /\ irq' = {"reset"}
  /\ step' = 1 /\ stage' = "setup" /\ got' = <<>> /\ hostAddress' = 0
  /\ UNCHANGED <<software, seen, cutShort, aborts>>

BusReset == /\ resets < RESETS /\ resets' = resets + 1 /\ Raced /\ BeginAgain

\* Nothing more to come from the device, and the host does not get on.
Silent ==
  \/ "RXPKTRDY" \in CSR0
  \/ stage = "data" /\ Request.kind = "read" /\ "TXPKTRDY" \notin CSR0
  \/ stage = "data" /\ Request.kind # "read" /\ "DATAEND" \in CSR0
  \/ stage = "status" /\ Request.kind # "read" /\ "DATAEND" \notin CSR0
Waiting == \/ stage = "lost" \/ ~Spoken
           \/ stage # "setup" /\ "SENDSTALL" \notin CSR0 /\ Silent

HostTimesOut ==
  /\ ~Done /\ irq = {} /\ seen = {} /\ Waiting
  /\ BeginAgain /\ UNCHANGED <<early, resets, races>>

-----------------------------------------------------------------------------
Device == service_interrupts \/ mt_udc_irq
HostGoesOn == HostSetup \/ HostReads \/ HostWrites \/ HostStatus \/ HostStalled \/ HostTimesOut

Next == Device \/ HostGoesOn \/ HostAborts \/ BusReset

\* usb_connect polls in a loop, and the host keeps trying.
Spec == Init /\ [][Next]_vars /\ WF_vars(Device) /\ WF_vars(HostGoesOn)

-----------------------------------------------------------------------------
(* Properties.                                                             *)

TypeOK ==
  /\ ep0_state \in {"IDLE", "TX", "RX"} /\ sent \in Nat /\ actual_length \in Nat
  /\ answer \in DOMAIN ANSWER \cup {"none"}
  /\ {set_address, usb_configured, tool_exists, open, cutShort, early} \subseteq BOOLEAN
  /\ address \in {0, ADDRESS} /\ FADDR \in {0, ADDRESS} /\ hostAddress \in {0, ADDRESS}
  /\ CSR0 \subseteq {"RXPKTRDY", "TXPKTRDY", "DATAEND", "SETUPEND", "SENDSTALL", "SENTSTALL"}
  /\ fifo.kind = "packet" => fifo.n \in 0..PACKET /\ fifo.from \in 0 .. HUGE - 1
  /\ irq \subseteq {"ep0", "reset"} /\ seen \subseteq {"ep0", "reset"}
  /\ step \in 1 .. Len(SCRIPT) + 1 /\ stage \in {"setup", "data", "status", "lost"}

\* What the host has read is the beginning of the answer to its request: never
\* the rest of an older answer, and never bytes behind the end, also across
\* resets of the bus, unless a read was ended early before or the host spoke
\* before the program had seen a reset.
AnswerIsRight ==
  ~Done /\ Request.kind = "read" /\ stage # "setup" /\ ~cutShort /\ ~early =>
    got = [i \in 1..Len(got) |-> <<Request.of, i>>]
      /\ Len(got) <= Least(ANSWER[Request.of], Request.wLength)

\* The device listens to an address only if the host is about to use it: an
\* address assigned before a reset of the bus is never taken after it, and none
\* before the status stage, unless the host got between the halves of a poll.
AddressIsAgreed ==
  FADDR # 0 /\ races = 0 => hostAddress = FADDR \/ aborts > 0

\* A host that tries again enumerates the device in the end, whatever was in
\* progress at the resets, unless it ended a read early.
Enumerated == <>[](cutShort \/ (Done /\ usb_configured /\ tool_exists))
=============================================================================
