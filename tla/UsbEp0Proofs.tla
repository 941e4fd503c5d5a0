---------------------------- MODULE UsbEp0Proofs ----------------------------
(***************************************************************************)
(* Two properties of endpoint 0 for every enumeration: what the host reads *)
(* is the answer to its request, and the device listens to no address that *)
(* the host is not about to use.                                           *)
(*                                                                         *)
(* The handlers of usbd.c are functions of a record, so each has one lemma *)
(* that says what it does to a record and one that it keeps the invariant  *)
(* Good of a record; a poll applies them one after the other.              *)
(*                                                                         *)
(* A reset of the bus leaves ep0_state and sent as they were.  The answers *)
(* are right all the same: the first request after a reset in EP0_TX is    *)
(* not read, because the handler goes on with a packet of the old answer;  *)
(* RXPKTRDY stays, and the host has to reset the bus again, until the old  *)
(* answer has run out. A first request without a data stage that the host  *)
(* gives up leads out of that (its next SETUP packet brings SETUPEND,      *)
(* which makes the state idle and leaves sent), so AnswersRight is about   *)
(* hosts that begin with a read or give up no transfer.                    *)
(***************************************************************************)
EXTENDS UsbEp0, SequenceTheorems, TLAPS

-----------------------------------------------------------------------------
(* What the handlers do to a record.                                       *)

\* The records that the handlers pass on.
IsState(s) == DOMAIN s = {"state", "sent", "actual", "answer", "pending", "address", "configured",
                          "tool", "csr", "faddr", "fifo"}

\* Current, the argument of every handler, is such a record.
LEMMA CurrentIs == IsState(Current)
BY DEF IsState, Current

\* mt_udc_reset leaves the state of the endpoint, sent and the pending flag alone.
LEMMA ResetIs ==
  ASSUME NEW s, IsState(s)
  PROVE  LET r == mt_udc_reset(s)
         IN  /\ IsState(r) /\ r.state = s.state /\ r.sent = s.sent /\ r.actual = s.actual
             /\ r.answer = s.answer /\ r.pending = s.pending /\ r.address = 0
             /\ r.faddr = s.faddr /\ r.csr = s.csr \ {"RXPKTRDY", "TXPKTRDY"} /\ r.fifo = NONE
BY DEF IsState, mt_udc_reset

\* A pending address is moved to FADDR, and nothing else changes.
LEMMA AddressedIs ==
  ASSUME NEW s, IsState(s)
  PROVE  LET r == Addressed(s)
         IN  /\ IsState(r) /\ r.state = s.state /\ r.sent = s.sent /\ r.actual = s.actual
             /\ r.answer = s.answer /\ r.address = s.address
             /\ r.csr = s.csr /\ r.fifo = s.fifo
             /\ s.pending => r.faddr = s.address /\ r.pending = FALSE
             /\ ~s.pending => r.faddr = s.faddr /\ r.pending = s.pending
<1>1. ASSUME s.pending PROVE Addressed(s) = [s EXCEPT !.faddr = s.address, !.pending = FALSE]
  BY <1>1, Zenon DEF Addressed
<1>2. ASSUME ~s.pending PROVE Addressed(s) = s
  BY <1>2, Zenon DEF Addressed
<1> DEFINE t == [s EXCEPT !.faddr = s.address, !.pending = FALSE]
<1>3. /\ IsState(t) /\ t.state = s.state /\ t.sent = s.sent /\ t.actual = s.actual
      /\ t.answer = s.answer /\ t.address = s.address
      /\ t.csr = s.csr /\ t.fifo = s.fifo
      /\ t.faddr = s.address /\ t.pending = FALSE
  BY DEF IsState
<1> HIDE DEF t
<1>4. Addressed(s) = s \/ Addressed(s) = t
  BY <1>1, <1>2, Zenon DEF t
<1>5. s.pending => Addressed(s) = t
  BY <1>1, Zenon DEF t
<1>6. ~s.pending => Addressed(s) = s
  BY <1>2, Zenon
<1> QED  BY <1>3, <1>5, <1>6, Zenon

\* SETUPEND and SENTSTALL are acknowledged, and make the state idle.
LEMMA EndedIs ==
  ASSUME NEW s, IsState(s)
  PROVE  LET r == Ended(s)
         IN  /\ IsState(r) /\ r.sent = s.sent /\ r.actual = s.actual
             /\ r.answer = s.answer /\ r.address = s.address /\ r.pending = s.pending
             /\ r.faddr = s.faddr /\ r.fifo = s.fifo
             /\ r.csr = s.csr \ {"SENTSTALL", "SETUPEND"}
             /\ r.state = IF s.csr \cap {"SENTSTALL", "SETUPEND"} = {} THEN s.state ELSE "IDLE"
BY DEF IsState, Ended

\* mt_udc_ep0_write fills a free FIFO; a packet that is not full ends the answer.
LEMMA WriteIs ==
  ASSUME NEW s, IsState(s), "TXPKTRDY" \notin s.csr
  PROVE  LET r == mt_udc_ep0_write(s)  n == Count(s)
         IN  /\ IsState(r) /\ r.answer = s.answer
             /\ r.fifo = [kind |-> "packet", of |-> s.answer, from |-> s.sent, n |-> n]
             /\ r.address = s.address /\ r.pending = s.pending /\ r.faddr = s.faddr
             /\ n < PACKET => /\ r.state = "IDLE" /\ r.sent = 0 
                              /\ r.csr = s.csr \cup {"TXPKTRDY", "DATAEND"}
             /\ ~(n < PACKET) => /\ r.state = s.state /\ r.sent = (s.sent + n) % HUGE /\ r.actual = s.actual
                              /\ r.csr = s.csr \cup {"TXPKTRDY"}
<1> DEFINE n == Count(s)
           full == [s EXCEPT !.fifo = [kind |-> "packet", of |-> s.answer, from |-> s.sent, n |-> n],
                             !.sent = (@ + n) % HUGE, !.csr = @ \cup {"TXPKTRDY"}]
<1>1. /\ IsState(full) /\ full.answer = s.answer /\ full.actual = s.actual
      /\ full.fifo = [kind |-> "packet", of |-> s.answer, from |-> s.sent, n |-> n]
      /\ full.address = s.address /\ full.pending = s.pending /\ full.faddr = s.faddr
      /\ full.state = s.state /\ full.sent = (s.sent + n) % HUGE
      /\ full.csr = s.csr \cup {"TXPKTRDY"}
  <2> HIDE DEF n
  <2> QED  BY DEF IsState
<1>2. mt_udc_ep0_write(s) = IF n < PACKET THEN Last(full) ELSE full
  BY DEF mt_udc_ep0_write
<1> HIDE DEF full
<1>3. LET r == Last(full)
      IN /\ IsState(r) /\ r.answer = full.answer /\ r.fifo = full.fifo /\ r.address = full.address
         /\ r.pending = full.pending /\ r.faddr = full.faddr /\ r.state = "IDLE" /\ r.sent = 0
         /\ r.csr = full.csr \cup {"DATAEND"}
  BY <1>1 DEF IsState, Last
<1> HIDE DEF n
<1> QED  BY <1>1, <1>2, <1>3 DEF n

-----------------------------------------------------------------------------
(* The invariant, and the handlers that keep it.                           *)

\* No end of a transfer and no stall is to be handled.
Quiet(s) == {"SETUPEND", "SENTSTALL", "SENDSTALL"} \cap s.csr = {}

\* The length of the answer to the request that the host is making.
Limit == Least(ANSWER[Request.of], Request.wLength)

\* The host is about to begin its enumeration.
Begun == step = 1 /\ stage = "setup"

\* The host has asked for a descriptor and not finished.
Reading == step \in DOMAIN SCRIPT /\ stage # "setup" /\ Request.kind = "read"

\* The packet with the n bytes that follow those the host has.
Packet(n) == [kind |-> "packet", of |-> Request.of, from |-> Len(got), n |-> n]

\* sent is not zero in EP0_TX only.
Rewound(s) == s.state # "TX" => s.sent = 0

\* Before the first request nothing of an older transfer but what the
\* handlers may put there is in the register.
Cleared(s) == Begun => ~open /\ s.csr \subseteq {"TXPKTRDY", "DATAEND"}

\* The first request after a reset waits behind an answer that the reset cut.
Asked(s) == step = 1 /\ stage \in {"data", "status"} /\ "RXPKTRDY" \in s.csr

\* The device is in the middle of the answer to the host's request: sent
\* counts what the host has, and a full packet that waits in the FIFO.
Sending(s) ==
  /\ Reading /\ "RXPKTRDY" \notin s.csr /\ "DATAEND" \notin s.csr
  /\ s.answer = Request.of /\ s.actual = Limit /\ s.sent \in 0..Limit
  /\ "TXPKTRDY" \in s.csr => s.fifo = Packet(PACKET) /\ s.sent = Len(got) + PACKET
  /\ "TXPKTRDY" \notin s.csr => s.sent = Len(got)

\* EP0_TX is one of these three: the answer that a reset cut, the same with the
\* first request already waiting, and the answer that the host is reading.
Busy(s) == s.state = "TX" => Quiet(s) /\ (Begun \/ Asked(s) \/ Sending(s))

\* When the last packet of an answer waits, it is the rest of the right answer.
LastPacket(s) ==
  Reading /\ stage = "data" /\ s.state # "TX" /\ "TXPKTRDY" \in s.csr
    /\ "RXPKTRDY" \notin s.csr /\ "SENDSTALL" \notin s.csr
  => \E n \in 0..PACKET : s.fifo = Packet(n) /\ Len(got) + n <= Limit

\* What waits in the FIFO to be handled: a read only if the host is making it.
Unread(s) ==
  "RXPKTRDY" \in s.csr =>
    /\ "SENDSTALL" \notin s.csr
    /\ s.fifo.kind = "read" => stage = "data" /\ s.csr \cap {"TXPKTRDY", "DATAEND"} = {} /\ s.fifo = Request
    /\ Reading => got = <<>> /\ (s.fifo.kind = "read" \/ (s.fifo.kind = "packet" /\ s.state # "RX"))

\* The states of the endpoint.
States == {"IDLE", "TX", "RX"}

\* A stage after the setup belongs to a request of the script.
OnScript == stage # "setup" => step \in DOMAIN SCRIPT

\* The invariant of the record that the handlers pass on.
Good(s) == s.state \in States /\ Rewound(s) /\ Cleared(s) /\ Busy(s) /\ LastPacket(s) /\ Unread(s)

\* A latched reset finds the host at its beginning.
HostOK == /\ "reset" \in irq \cup seen => Begun
          /\ step \in 1 .. Len(SCRIPT) + 1
          /\ OnScript /\ aborts \in Nat

\* The enumeration begins with a read, as of a host that asks for the device
\* descriptor before it assigns an address.
FirstIsRead == SCRIPT[1].kind = "read"

\* What the assumption says of the constants, in the form the steps need.
LEMMA Sizes ==
  /\ PACKET \in Nat /\ PACKET > 0 /\ HUGE \in Nat /\ Len(SCRIPT) \in Nat
  /\ DOMAIN SCRIPT = 1 .. Len(SCRIPT)
  /\ ADDRESS \in Nat /\ ADDRESS # 0
BY EnumerationAssumption DEF EnumerationAssumption

\* An answer is shorter than 2^32, and no longer than its descriptor or wLength.
LEMMA LimitIs ==
  ASSUME step \in DOMAIN SCRIPT, Request.kind = "read"
  PROVE  Limit \in 0 .. HUGE - 1 /\ Limit <= ANSWER[Request.of] /\ Limit <= Request.wLength
BY EnumerationAssumption DEF EnumerationAssumption, Limit, Least, Request

\* No wrapping below 2^32.
LEMMA ModIs == ASSUME NEW m \in 0 .. HUGE - 1 PROVE m % HUGE = m
BY Sizes

\* What AnswerIsRight says, of a host that is reading.
Right == Reading => Len(got) \in 0..Limit /\ got = [i \in 1..Len(got) |-> <<Request.of, i>>]

\* mt_udc_reset is called with the host at its beginning, and keeps the invariant.
LEMMA ResetGood ==
  ASSUME NEW s, IsState(s), Good(s), Begun
  PROVE  Good(mt_udc_reset(s)) /\ IsState(mt_udc_reset(s))
<1> DEFINE r == mt_udc_reset(s)
<1>1. /\ IsState(r) /\ r.state = s.state /\ r.sent = s.sent
      /\ r.csr = s.csr \ {"RXPKTRDY", "TXPKTRDY"}
  BY ResetIs
<1> HIDE DEF r
<1>2. ~Reading
  BY DEF Begun, Reading
<1> QED
  BY <1>1, <1>2 DEF Good, Rewound, Cleared, Busy, LastPacket, Unread, Quiet, States, r

\* Acknowledging an end never happens in EP0_TX, where it would leave sent behind.
LEMMA EndedGood ==
  ASSUME NEW s, IsState(s), Good(s)
  PROVE  LET r == Ended(s)
         IN  IsState(r) /\ Good(r) /\ r.csr \cap {"SETUPEND", "SENTSTALL"} = {}
<1> DEFINE r == Ended(s)
<1>1. /\ IsState(r) /\ r.sent = s.sent /\ r.actual = s.actual
      /\ r.answer = s.answer /\ r.fifo = s.fifo
      /\ r.csr = s.csr \ {"SENTSTALL", "SETUPEND"}
      /\ r.state = IF s.csr \cap {"SENTSTALL", "SETUPEND"} = {} THEN s.state ELSE "IDLE"
  BY EndedIs
<1> HIDE DEF r
<1>2. r.state = "TX" => s.state = "TX" /\ r.csr = s.csr
  BY <1>1
<1>3. s.state = "TX" => r.state = "TX"
  BY <1>1 DEF Good, Busy, Quiet
<1>4. Rewound(r) /\ Cleared(r)
  BY <1>1, <1>3 DEF Good, Rewound, Cleared
<1>5. Busy(r)
  BY <1>1, <1>2 DEF Good, Busy, Quiet, Asked, Sending
<1>6. LastPacket(r)
  BY <1>1, <1>3 DEF Good, LastPacket
<1>7. Unread(r)
  BY <1>1 DEF Good, Unread
<1> QED
  BY <1>1, <1>4, <1>5, <1>6, <1>7 DEF Good, States, r

\* The address is none of the state that an answer depends on.
LEMMA AddressedGood ==
  ASSUME NEW s, IsState(s), Good(s)
  PROVE  LET r == Addressed(s)
         IN  /\ IsState(r) /\ Good(r) /\ r.csr = s.csr /\ r.state = s.state
<1> DEFINE r == Addressed(s)
<1>1. /\ IsState(r) /\ r.state = s.state /\ r.sent = s.sent /\ r.actual = s.actual
      /\ r.answer = s.answer /\ r.csr = s.csr /\ r.fifo = s.fifo
  BY AddressedIs
<1> HIDE DEF r
<1> QED
  BY <1>1 DEF Good, Rewound, Cleared, Busy, LastPacket, Unread, Quiet, Asked, Sending, r

\* mt_udc_ep0_read takes no packet that the host waits for.
LEMMA ReadGood ==
  ASSUME NEW s, IsState(s), Good(s), s.state = "RX"
  PROVE  Good(mt_udc_ep0_read(s))
<1> DEFINE r == [s EXCEPT !.fifo = NONE, !.csr = (@ \ {"RXPKTRDY"}) \cup {"DATAEND"}, !.state = "IDLE"]
<1>1. r.sent = s.sent /\ r.csr = (s.csr \ {"RXPKTRDY"}) \cup {"DATAEND"} /\ r.state = "IDLE"
  BY DEF IsState
<1>2. ASSUME "RXPKTRDY" \in s.csr PROVE mt_udc_ep0_read(s) = r
  BY <1>2 DEF mt_udc_ep0_read
<1>3. ASSUME "RXPKTRDY" \notin s.csr PROVE mt_udc_ep0_read(s) = s
  BY <1>3 DEF mt_udc_ep0_read
<1> HIDE DEF r
<1>4. ASSUME "RXPKTRDY" \in s.csr PROVE Good(r)
  <2>1. Rewound(r) /\ Cleared(r) /\ Busy(r) /\ Unread(r)
    BY <1>1 DEF Good, Rewound, Cleared, Busy, Unread
  <2>2. Reading => "TXPKTRDY" \notin r.csr
    BY <1>1, <1>4 DEF Good, Unread
  <2> QED  BY <1>1, <2>1, <2>2 DEF Good, LastPacket, States
<1> QED  BY <1>2, <1>3, <1>4

\* A packet of the answer, or one that goes nowhere.
LEMMA WriteGood ==
  ASSUME NEW s, IsState(s), Good(s), s.state = "TX"
  PROVE  Good(mt_udc_ep0_write(s))
<1> DEFINE r == mt_udc_ep0_write(s)
           n == Count(s)
<1>1. ASSUME "TXPKTRDY" \in s.csr PROVE r = s
  BY <1>1 DEF mt_udc_ep0_write
<1>2. SUFFICES ASSUME "TXPKTRDY" \notin s.csr PROVE Good(r)
  BY <1>1
<1>3. /\ r.answer = s.answer
      /\ r.fifo = [kind |-> "packet", of |-> s.answer, from |-> s.sent, n |-> n]
      /\ n < PACKET => /\ r.state = "IDLE" /\ r.sent = 0
                       /\ r.csr = s.csr \cup {"TXPKTRDY", "DATAEND"}
      /\ ~(n < PACKET) => /\ r.state = s.state /\ r.sent = (s.sent + n) % HUGE /\ r.actual = s.actual
                          /\ r.csr = s.csr \cup {"TXPKTRDY"}
  BY <1>2, WriteIs
<1>4. n = Least((s.actual - s.sent) % HUGE, PACKET)
  BY DEF Count
<1> HIDE DEF r, n
<1>5. /\ r.fifo.kind = "packet" /\ "TXPKTRDY" \in r.csr /\ r.state \in {"IDLE", "TX"}
      /\ r.csr \subseteq s.csr \cup {"TXPKTRDY", "DATAEND"} /\ s.csr \subseteq r.csr
      /\ r.state # "TX" => r.sent = 0
  BY <1>3
<1>6. Quiet(s) /\ (Begun \/ Asked(s) \/ Sending(s))
  BY DEF Good, Busy
<1>7. Rewound(r) /\ Cleared(r) /\ Unread(r)
  BY <1>5, <1>6 DEF Good, Rewound, Cleared, Unread, Quiet
<1>8. Quiet(r)
  BY <1>5, <1>6 DEF Quiet
<1>9. CASE Begun
  BY <1>5, <1>7, <1>8, <1>9 DEF Good, Busy, LastPacket, States, Begun, Reading
<1>10. CASE Asked(s)
  <2>1. "RXPKTRDY" \in r.csr /\ Asked(r)
    BY <1>5, <1>10 DEF Asked
  <2> QED  BY <1>5, <1>7, <1>8, <2>1 DEF Good, Busy, LastPacket, States
<1>11. CASE Sending(s)
  <2>1. /\ Reading /\ "RXPKTRDY" \notin s.csr /\ "DATAEND" \notin s.csr
        /\ s.answer = Request.of /\ s.actual = Limit /\ s.sent \in 0..Limit /\ s.sent = Len(got)
    BY <1>2, <1>11 DEF Sending
  <2>2. Limit \in 0 .. HUGE - 1
    BY <2>1, LimitIs DEF Reading
  <2> HIDE DEF Limit
  <2>3. (s.actual - s.sent) % HUGE = Limit - s.sent
    BY <2>1, <2>2, ModIs, Sizes
  <2>4. n = Least(Limit - s.sent, PACKET)
    BY <1>4, <2>3
  <2>5. n \in 0..PACKET /\ s.sent + n <= Limit /\ (~(n < PACKET) => n = PACKET)
    BY <2>1, <2>2, <2>4, Sizes DEF Least
  <2>6. (s.sent + n) % HUGE = s.sent + n
    BY <2>1, <2>2, <2>5, ModIs, Sizes
  <2>7. r.fifo = Packet(n) /\ Len(got) + n <= Limit
    BY <1>3, <2>1, <2>5 DEF Packet
  <2>8. LastPacket(r)
    BY <2>5, <2>7 DEF LastPacket
  <2>9. CASE n < PACKET
    BY <1>3, <1>7, <2>8, <2>9 DEF Good, Busy, States
  <2>10. CASE ~(n < PACKET)
    <3>1. Sending(r)
      BY <1>3, <2>1, <2>2, <2>5, <2>6, <2>7, <2>10 DEF Sending
    <3> QED  BY <1>7, <1>8, <2>8, <1>5, <3>1 DEF Good, Busy, States
  <2> QED  BY <2>9, <2>10
<1> QED  BY <1>6, <1>9, <1>10, <1>11

\* A stall makes the state idle and takes the packet that waits.
LEMMA StallIs ==
  ASSUME NEW s, IsState(s)
  PROVE  LET r == udc_stall_ep(s)
         IN /\ r.csr = (s.csr \ {"RXPKTRDY"}) \cup {"SENDSTALL"} /\ r.state = "IDLE" /\ r.sent = s.sent
            /\ r.pending = s.pending /\ r.address = s.address /\ r.faddr = s.faddr
BY DEF IsState, udc_stall_ep

\* A request that is read is answered from its first byte; all others leave EP0_TX.
LEMMA SetupGood ==
  ASSUME NEW s, IsState(s), Good(s), s.state = "IDLE",
         s.csr \cap {"SETUPEND", "SENTSTALL"} = {}, OnScript
  PROVE  Good(mt_udc_ep0_setup(s))
<1> SUFFICES ASSUME "RXPKTRDY" \in s.csr PROVE Good(mt_udc_ep0_setup(s))
    BY DEF mt_udc_ep0_setup
<1> DEFINE t == [s EXCEPT !.actual = 0, !.fifo = NONE]
           q == s.fifo
           r == mt_udc_ep0_setup(s)
<1>1. /\ IsState(t) /\ t.csr = s.csr /\ t.state = "IDLE" /\ t.sent = s.sent
  BY DEF IsState
<1>2. r = Answered(t, q)
  BY DEF mt_udc_ep0_setup
<1> HIDE DEF t, r
<1>3. s.sent = 0 /\ ~Begun
  BY DEF Good, Rewound, Cleared
<1>4. /\ "SENDSTALL" \notin s.csr
      /\ q.kind = "read" => stage = "data" /\ s.csr \cap {"TXPKTRDY", "DATAEND"} = {} /\ q = Request
      /\ Reading => got = <<>> /\ q.kind \in {"read", "packet"}
  BY DEF Good, Unread
<1> HIDE DEF q
<1>5. CASE q.kind = "read"
  <2> DEFINE v == Serviced(usb_get_descriptor(t, q))
             n == Count(v)
  <2>1. r = mt_udc_ep0_write(v)
    BY <1>2, <1>5 DEF Answered
  <2>2. /\ IsState(v) /\ v.state = "TX" /\ v.answer = q.of /\ v.actual = Least(ANSWER[q.of], q.wLength)
        /\ v.sent = 0 /\ v.csr = s.csr \ {"RXPKTRDY"}
    BY <1>1, <1>3 DEF IsState, Serviced, usb_get_descriptor
  <2> HIDE DEF v
  <2>3. Reading /\ got = <<>> /\ q = Request /\ stage = "data" /\ step \in DOMAIN SCRIPT
    BY <1>4, <1>5 DEF Reading, OnScript
  <2>4. Limit \in 0 .. HUGE - 1
    BY <2>3, LimitIs DEF Reading
  <2>5. Sending(v)
    <3>1. Len(got) = 0
      BY <2>3
    <3>2. v.actual = Limit /\ v.answer = Request.of
      BY <2>2, <2>3 DEF Limit
    <3>3. "RXPKTRDY" \notin v.csr /\ "DATAEND" \notin v.csr /\ "TXPKTRDY" \notin v.csr
      BY <1>4, <1>5, <2>2
    <3> HIDE DEF Limit
    <3> QED  BY <2>2, <2>3, <2>4, <3>1, <3>2, <3>3 DEF Sending
  <2>6. Quiet(v)
    BY <1>4, <2>2 DEF Quiet
  <2>7. Rewound(v) /\ Cleared(v) /\ Busy(v) /\ LastPacket(v) /\ Unread(v)
    BY <1>3, <2>2, <2>5, <2>6 DEF Rewound, Cleared, Busy, LastPacket, Unread
  <2>8. Good(v)
    BY <2>2, <2>7 DEF Good, States
  <2>9. Good(mt_udc_ep0_write(v))
    BY <2>2, <2>8, WriteGood
  <2> QED  BY <2>1, <2>9 DEF r
<1>6. CASE q.kind # "read"
  <2>1. /\ r.sent = 0 /\ r.state \in {"IDLE", "RX"} /\ "RXPKTRDY" \notin r.csr
        /\ q.kind = "packet" => "SENDSTALL" \in r.csr
    <3>1. CASE q.kind = "SET_ADDRESS"
      BY <1>1, <1>2, <1>3, <3>1 DEF Answered, NoDataStage, Serviced, IsState
    <3>2. CASE q.kind = "SET_CONFIGURATION"
      BY <1>1, <1>2, <1>3, <3>2 DEF Answered, NoDataStage, Serviced, IsState
    <3>3. CASE q.kind = "SET_LINE_CODING"
      BY <1>1, <1>2, <1>3, <3>3 DEF Answered, Serviced, ep0_class_setup, IsState
    <3>4. CASE q.kind \notin {"SET_ADDRESS", "SET_CONFIGURATION", "SET_LINE_CODING"}
      <4>1. r = udc_stall_ep(t)
        BY <1>2, <1>6, <3>4 DEF Answered
      <4> QED  BY <1>1, <1>3, <4>1, StallIs
    <3> QED  BY <3>1, <3>2, <3>3, <3>4
  <2>2. Rewound(r) /\ Cleared(r) /\ Busy(r) /\ Unread(r)
    BY <1>3, <2>1 DEF Rewound, Cleared, Busy, Unread
  <2>3. LastPacket(r)
    BY <1>4, <1>6, <2>1 DEF LastPacket
  <2>4. Good(r)
    BY <2>1, <2>2, <2>3 DEF Good, States
  <2> QED  BY <2>4 DEF r
<1> QED  BY <1>5, <1>6

\* The whole handler of the endpoint.
LEMMA HandlerGood ==
  ASSUME NEW s, IsState(s), Good(s), OnScript
  PROVE  Good(mt_udc_ep0_handler(s))
<1> DEFINE e == Ended(s)
           a == Addressed(e)
           r == mt_udc_ep0_handler(s)
<1>1. IsState(e) /\ Good(e) /\ e.csr \cap {"SETUPEND", "SENTSTALL"} = {} /\ e.state \in {"IDLE", "TX", "RX"}
  BY EndedGood DEF Good, States
<1>2. /\ e.state = "IDLE" => r = mt_udc_ep0_setup(a)
      /\ e.state = "TX" => r = mt_udc_ep0_write(e)
      /\ e.state = "RX" => r = mt_udc_ep0_read(e)
  BY DEF mt_udc_ep0_handler
<1> HIDE DEF e, r
<1>3. CASE e.state = "IDLE"
  <2>1. IsState(a) /\ Good(a) /\ a.csr = e.csr /\ a.state = "IDLE"
    BY <1>1, <1>3, AddressedGood
  <2> HIDE DEF a
  <2>2. Good(mt_udc_ep0_setup(a))
    BY <1>1, <2>1, SetupGood
  <2> QED  BY <1>2, <1>3, <2>2 DEF r
<1>4. CASE e.state = "TX"
  BY <1>1, <1>2, <1>4, WriteGood DEF r
<1>5. CASE e.state = "RX"
  BY <1>1, <1>2, <1>5, ReadGood DEF r
<1> QED  BY <1>1, <1>3, <1>4, <1>5

-----------------------------------------------------------------------------
(* The steps of the device and of the host.                                *)

\* Nothing that counts as an exception of AnswerIsRight is ever undone.
LEMMA Undone ==
  ASSUME Next \/ UNCHANGED vars, ~cutShort', ~early'
  PROVE  ~cutShort /\ ~early
<1>1. CASE HostSetup
  BY <1>1, Zenon DEF HostSetup, Raced
<1>2. CASE HostReads
  BY <1>2, Zenon DEF HostReads, Raced
<1>3. CASE HostWrites
  BY <1>3, Zenon DEF HostWrites, Raced
<1>4. CASE HostStatus
  BY <1>4, Zenon DEF HostStatus, Raced
<1>5. CASE HostStalled
  BY <1>5, Zenon DEF HostStalled, Raced
<1>6. CASE HostAborts
  BY <1>6, Zenon DEF HostAborts
<1>7. CASE BusReset
  BY <1>7, Zenon DEF BusReset, BeginAgain, Raced
<1>8. CASE HostTimesOut
  BY <1>8, Zenon DEF HostTimesOut, BeginAgain
<1>9. CASE Device \/ UNCHANGED vars
  <2>1. UNCHANGED <<cutShort, early>>
    BY <1>9 DEF Device, service_interrupts, mt_udc_irq, vars, host, counts
  <2>2. cutShort' = cutShort /\ early' = early
    BY <2>1
  <2> QED  BY <2>2, Zenon
<1> DEFINE G == ~cutShort /\ ~early
<1> HIDE DEF G
<1>10. \/ HostSetup \/ HostReads \/ HostWrites \/ HostStatus \/ HostStalled \/ HostAborts
       \/ BusReset \/ HostTimesOut \/ Device \/ UNCHANGED vars
  BY DEF Next, HostGoesOn
<1>11. G
  BY <1>1, <1>2, <1>3, <1>4, <1>5, <1>6, <1>7, <1>8, <1>9, <1>10 DEF G
<1> QED  BY <1>11 DEF G

\* What holds of the record that the handlers return holds of the variables.
LEMMA BecomesGood ==
  ASSUME NEW r, Good(r), Becomes(r), UNCHANGED <<open, step, stage, got>>
  PROVE  Good(Current)'
<1> USE DEF Becomes, Current
<1>1. Rewound(Current)' /\ (Current.state \in States)'
  BY DEF Good, Rewound, States
<1>2. Cleared(Current)'
  BY DEF Good, Cleared, Begun
<1>3. Busy(Current)'
  BY DEF Good, Busy, Quiet, Begun, Asked, Sending, Reading, Request, Limit, Packet
<1>4. LastPacket(Current)'
  BY DEF Good, LastPacket, Reading, Request, Limit, Packet
<1>5. Unread(Current)'
  BY DEF Good, Unread, Reading, Request
<1> QED  BY <1>1, <1>2, <1>3, <1>4, <1>5 DEF Good

\* The second half of a poll: the handlers, one after the other.
LEMMA IrqGood ==
  ASSUME Good(Current), HostOK, mt_udc_irq
  PROVE  Good(Current)'
<1> DEFINE s == IF "reset" \in seen THEN mt_udc_reset(Current) ELSE Current
           r == IF "ep0" \in seen THEN mt_udc_ep0_handler(s) ELSE s
<1>1. IsState(s) /\ Good(s)
  BY CurrentIs, ResetGood DEF HostOK
<1> HIDE DEF s
<1>2. Good(r)
  BY <1>1, HandlerGood DEF HostOK
<1>3. Becomes(r) /\ UNCHANGED <<open, step, stage, got>>
  BY DEF mt_udc_irq, host, s
<1> HIDE DEF r
<1> QED  BY <1>2, <1>3, BecomesGood

\* A SETUP packet: only the first one after a reset may find EP0_TX.
LEMMA SetupByHostGood ==
  ASSUME Good(Current), HostOK, Right, ~cutShort, ~early, ~cutShort', ~early',
         HostSetup
  PROVE  Good(Current)' /\ HostOK' /\ Right'
<1>1. Spoken /\ stage = "setup" /\ "reset" \notin irq \cup seen
  BY Zenon DEF HostSetup, Raced
<1>2. step \in DOMAIN SCRIPT
  BY <1>1, Sizes DEF Spoken, Done, HostOK
<1>3. /\ fifo' = Request
      /\ CSR0' = (CSR0 \ {"TXPKTRDY", "DATAEND", "SENDSTALL"})
               \cup {"RXPKTRDY"} \cup (IF open THEN {"SETUPEND"} ELSE {})
      /\ got' = <<>> /\ irq' = irq \cup {"ep0"} /\ seen' = seen
      /\ stage' = IF Request.kind \in {"read", "SET_LINE_CODING"} THEN "data" ELSE "status"
      /\ UNCHANGED <<ep0_state, sent, actual_length, answer, step, aborts>>
  BY DEF HostSetup, Interrupt, software
<1>4. ~Begun' /\ (Reading' => stage' = "data" /\ fifo'.kind = "read")
  BY <1>3 DEF Begun, Reading, Request
<1>5. Rewound(Current)' /\ (Current.state \in States)' /\ Cleared(Current)'
  BY <1>3, <1>4 DEF Current, Good, Rewound, Cleared, States
<1>6. Busy(Current)'
  <2> SUFFICES ASSUME ep0_state = "TX" PROVE Quiet(Current)' /\ Asked(Current)'
      BY <1>3 DEF Busy, Current
  <2>1. Begun /\ Quiet(Current)
    BY <1>1 DEF Good, Busy, Asked, Sending, Reading, Current
  <2>2. ~open /\ CSR0 \subseteq {"TXPKTRDY", "DATAEND"}
    BY <2>1 DEF Good, Cleared, Current
  <2> QED  BY <1>3, <2>1, <2>2 DEF Quiet, Asked, Begun, Current
<1>7. LastPacket(Current)' /\ Unread(Current)'
  BY <1>3, <1>4 DEF LastPacket, Unread, Current, Request
<1>8. HostOK'
  BY <1>1, <1>2, <1>3 DEF HostOK, OnScript, Begun
<1>9. Right'
  <2> SUFFICES ASSUME Reading' PROVE Right'
      BY DEF Right
  <2>1. Limit' \in Nat
    BY <1>2, <1>3, <1>4, LimitIs, Sizes DEF Limit, Request
  <2>2. Len(got') = 0 /\ got' = <<>>
    BY <1>3
  <2>3. got' = [i \in 1..0 |-> <<Request', i>>] /\ got' = [i \in 1..0 |-> <<Request.of', i>>]
    BY <2>2
  <2> HIDE DEF Limit
  <2> QED  BY <2>1, <2>2, <2>3 DEF Right
<1> QED  BY <1>5, <1>6, <1>7, <1>8, <1>9 DEF Good

\* The first m bytes of d and the n that follow them are its first m + n bytes.
LEMMA PrefixGrows ==
  ASSUME NEW d, NEW g, NEW m \in Nat, NEW n \in Nat, g = [i \in 1..m |-> <<d, i>>]
  PROVE  LET h == g \o [i \in 1..n |-> <<d, m + i>>]
         IN  h = [i \in 1 .. m + n |-> <<d, i>>] /\ Len(h) = m + n
<1> DEFINE S == {<<d, i>> : i \in Nat}
           t == [i \in 1..n |-> <<d, m + i>>]
           h == g \o t
           w == [i \in 1 .. m + n |-> <<d, i>>]
<1>1. g \in Seq(S) /\ Len(g) = m /\ \A i \in 1..m : g[i] = <<d, i>>
  <2>1. \A i \in 1..m : g[i] \in S
    OBVIOUS
  <2> HIDE DEF S
  <2> QED  BY <2>1
<1>2. t \in Seq(S) /\ Len(t) = n /\ \A i \in 1..n : t[i] = <<d, m + i>>
  <2>1. \A i \in 1..n : <<d, m + i>> \in S
    OBVIOUS
  <2> HIDE DEF S
  <2> QED  BY <2>1
<1>3. w \in Seq(S) /\ Len(w) = m + n /\ \A i \in 1 .. m + n : w[i] = <<d, i>>
  <2>1. \A i \in 1 .. m + n : <<d, i>> \in S
    OBVIOUS
  <2> HIDE DEF S
  <2> QED  BY <2>1
<1> HIDE DEF S, t, w
<1>4. h \in Seq(S) /\ Len(h) = m + n
      /\ \A i \in 1 .. m + n : h[i] = IF i <= m THEN g[i] ELSE t[i - m]
  <2>1. g \in Seq(S) /\ t \in Seq(S) /\ Len(g) = m /\ Len(t) = n
    BY <1>1, <1>2
  <2>2. /\ h \in Seq(S) /\ Len(h) = Len(g) + Len(t)
        /\ \A i \in 1 .. Len(g) + Len(t) : h[i] = IF i <= Len(g) THEN g[i] ELSE t[i - Len(g)]
    BY <2>1, ConcatProperties
  <2> HIDE DEF h
  <2> QED  BY <2>1, <2>2
<1> HIDE DEF h
<1>5. ASSUME NEW i \in 1 .. m + n PROVE h[i] = w[i]
  <2>1. h[i] = IF i <= m THEN g[i] ELSE t[i - m]
    BY <1>4
  <2>2. w[i] = <<d, i>>
    BY <1>3
  <2>3. CASE i <= m
    BY <1>1, <2>1, <2>2, <2>3
  <2>4. CASE i > m
    <3> DEFINE j == i - m
    <3>1. j \in 1..n /\ m + j = i
      BY <2>4
    <3>2. h[i] = t[j]
      <4>1. ~(i <= m)
        BY <2>4
      <4> QED  BY <2>1, <4>1
    <3> HIDE DEF j
    <3>3. t[j] = <<d, m + j>>
      BY <1>2, <3>1
    <3>4. t[j] = <<d, i>>
      BY <3>1, <3>3
    <3> QED  BY <2>2, <3>2, <3>4
  <2> QED  BY <2>3, <2>4
<1>6. h = w
  BY <1>3, <1>4, <1>5, SeqEqual
<1> QED  BY <1>4, <1>6 DEF h, t, w

\* The host takes a packet: the bytes that follow those it has.
LEMMA ReadsGood ==
  ASSUME Good(Current), HostOK, Right, ~early', HostReads
  PROVE  Good(Current)' /\ HostOK' /\ Right'
<1>1. /\ Spoken /\ stage = "data" /\ Request.kind = "read" /\ "reset" \notin irq \cup seen
      /\ CSR0 \cap {"RXPKTRDY", "SENDSTALL"} = {} /\ "TXPKTRDY" \in CSR0
  BY Zenon DEF HostReads, Raced, Taken
<1>2. step \in DOMAIN SCRIPT /\ Reading
  BY <1>1, Sizes DEF HostOK, OnScript, Reading
<1>3. /\ got' = got \o Bytes(fifo) /\ CSR0' = CSR0 \ {"TXPKTRDY"} /\ irq' = irq \cup {"ep0"}
      /\ stage' \in {"lost", "status", "data"}
      /\ UNCHANGED <<ep0_state, sent, actual_length, answer, step, seen, open, aborts>>
  BY DEF HostReads, Interrupt, software
<1>4. Limit \in Nat /\ PACKET \in Nat
  BY <1>1, <1>2, LimitIs, Sizes
<1>5. ep0_state = "TX" => Sending(Current)
  BY <1>1 DEF Good, Busy, Begun, Asked, Current
<1> HIDE DEF Limit
<1>6. PICK n \in 0..PACKET : /\ fifo = Packet(n) /\ Len(got) + n <= Limit
                             /\ ep0_state = "TX" => sent = Len(got) + n
  <2>1. CASE ep0_state = "TX"
    BY <1>1, <1>4, <1>5, <2>1 DEF Sending, Current
  <2>2. CASE ep0_state # "TX"
    BY <1>1, <1>2, <2>2 DEF Good, LastPacket, Current
  <2> QED  BY <2>1, <2>2
<1>7. Len(got) \in Nat /\ got = [i \in 1..Len(got) |-> <<Request.of, i>>]
  BY <1>2, <1>4 DEF Right
<1>8. Bytes(fifo) = [i \in 1..n |-> <<Request.of, Len(got) + i>>]
  BY <1>6 DEF Bytes, Packet
<1>9. /\ got' = [i \in 1 .. Len(got) + n |-> <<Request.of, i>>]
      /\ Len(got') = Len(got) + n
  BY <1>3, <1>4, <1>7, <1>8, PrefixGrows
<1>10. Right'
  <2>1. Limit' = Limit /\ Request' = Request
    BY <1>3 DEF Limit, Request
  <2> QED  BY <1>4, <1>6, <1>7, <1>9, <2>1 DEF Right
<1>11. HostOK'
  BY <1>1, <1>2, <1>3 DEF HostOK, OnScript, Begun
<1>12. Rewound(Current)' /\ (Current.state \in States)' /\ Cleared(Current)' /\ Unread(Current)'
       /\ LastPacket(Current)'
  BY <1>1, <1>3 DEF Good, Rewound, Cleared, Unread, LastPacket, Current, Begun, States
<1>13. Busy(Current)'
  <2> SUFFICES ASSUME ep0_state = "TX" PROVE Quiet(Current)' /\ Sending(Current)'
      BY <1>3 DEF Busy, Current
  <2>1. Quiet(Current)'
    BY <1>3 DEF Good, Busy, Quiet, Current
  <2>2. Limit' = Limit /\ Request' = Request /\ Reading'
    BY <1>2, <1>3 DEF Limit, Request, Reading
  <2>3. sent' = Len(got')
    BY <1>3, <1>6, <1>9
  <2>4. /\ "DATAEND" \notin CSR0 /\ answer = Request.of /\ actual_length = Limit /\ sent \in 0..Limit
    BY <1>5 DEF Sending, Current
  <2> QED  BY <1>1, <1>3, <2>1, <2>2, <2>3, <2>4 DEF Sending, Current
<1> QED  BY <1>10, <1>11, <1>12, <1>13 DEF Good

\* Only a read that is in progress leaves the endpoint in EP0_TX.
LEMMA NotSending ==
  ASSUME Good(Current), stage \in {"data", "status"}, "RXPKTRDY" \notin CSR0 \/ step # 1,
         Request.kind # "read" \/ (stage = "status" /\ "DATAEND" \in CSR0)
  PROVE  ep0_state # "TX"
BY DEF Good, Busy, Begun, Asked, Sending, Reading, Current

\* The host sends the line coding.
LEMMA WritesGood ==
  ASSUME Good(Current), HostOK, ~early', HostWrites
  PROVE  Good(Current)' /\ HostOK' /\ Right'
<1>1. /\ Spoken /\ stage = "data" /\ Request.kind = "SET_LINE_CODING" /\ "reset" \notin irq \cup seen
      /\ CSR0 \cap {"RXPKTRDY", "SENDSTALL"} = {}
  BY Zenon DEF HostWrites, Raced, Taken
<1>2. /\ CSR0' = CSR0 \cup {"RXPKTRDY"} /\ fifo'.kind = "data" /\ irq' = irq \cup {"ep0"}
      /\ stage' = "status" /\ UNCHANGED <<ep0_state, sent, step, seen, aborts>>
  BY DEF HostWrites, Interrupt, software
<1>3. ep0_state # "TX"
  BY <1>1, NotSending
<1>4. ~Reading' /\ ~Begun'
  BY <1>1, <1>2 DEF Reading, Begun, Request
<1>5. HostOK' /\ Right'
  BY <1>1, <1>2, <1>4 DEF HostOK, OnScript, Begun, Right
<1> QED
  BY <1>1, <1>2, <1>3, <1>4, <1>5
     DEF Good, Rewound, Cleared, Busy, LastPacket, Unread, Current, States

\* The host ends a transfer that the device has ended.
LEMMA StatusGood ==
  ASSUME Good(Current), HostOK, ~early', ~cutShort', HostStatus
  PROVE  Good(Current)' /\ HostOK' /\ Right'
<1>1. /\ Spoken /\ stage = "status" /\ "reset" \notin irq \cup seen
      /\ CSR0 \cap {"RXPKTRDY", "SENDSTALL"} = {} /\ "DATAEND" \in CSR0
  BY Zenon DEF HostStatus, Raced, Taken
<1>2. /\ CSR0' = CSR0 \ {"DATAEND"} /\ irq' = irq \cup {"ep0"}
      /\ stage' = "setup" /\ step' = step + 1 /\ UNCHANGED <<ep0_state, sent, seen, aborts>>
  BY <1>1 DEF HostStatus, Interrupt, software
<1>3. ep0_state # "TX"
  BY <1>1, NotSending
<1>4. step \in 1..Len(SCRIPT) /\ ~Reading' /\ ~Begun'
  BY <1>1, <1>2, Sizes DEF Reading, Begun, HostOK, Spoken, Done
<1>5. HostOK' /\ Right'
  BY <1>1, <1>2, <1>4, Sizes DEF HostOK, OnScript, Right
<1> QED
  BY <1>1, <1>2, <1>3, <1>4, <1>5
     DEF Good, Rewound, Cleared, Busy, LastPacket, Unread, Current, States

\* The host takes a stall.
LEMMA StalledGood ==
  ASSUME Good(Current), HostOK, Right, ~early', HostStalled
  PROVE  Good(Current)' /\ HostOK' /\ Right'
<1>1. /\ Spoken /\ stage \in {"data", "status"} /\ "reset" \notin irq \cup seen
      /\ "SENDSTALL" \in CSR0
  BY Zenon DEF HostStalled, Raced
<1>2. /\ CSR0' = (CSR0 \ {"SENDSTALL"}) \cup {"SENTSTALL"} /\ irq' = irq \cup {"ep0"}
      /\ \/ step' = step + 1 /\ stage' = "setup"
         \/ step' = step /\ stage' = "lost"
      /\ UNCHANGED <<ep0_state, sent, seen, got, aborts>>
  BY DEF HostStalled, Interrupt, software
<1>3. ep0_state # "TX" /\ "RXPKTRDY" \notin CSR0
  BY <1>1 DEF Good, Busy, Quiet, Unread, Current
<1>4. step \in 1..Len(SCRIPT) /\ ~Begun'
  BY <1>1, <1>2, Sizes DEF Begun, HostOK, Spoken, Done
<1>5. HostOK'
  BY <1>1, <1>2, <1>4, Sizes DEF HostOK, OnScript
<1>6. Right'
  BY <1>1, <1>2 DEF Right, Reading, Limit, Request
<1> QED
  BY <1>1, <1>2, <1>3, <1>4, <1>5, <1>6
     DEF Good, Rewound, Cleared, Busy, LastPacket, Unread, Current, States

\* The host gives up a transfer that is not a read.
LEMMA AbortsGood ==
  ASSUME Good(Current), HostOK, FirstIsRead \/ ABORTS = 0, ~cutShort', HostAborts
  PROVE  Good(Current)' /\ HostOK' /\ Right'
<1>1. Spoken /\ stage \in {"data", "status"} /\ Request.kind # "read" /\ aborts < ABORTS
  BY Zenon DEF HostAborts
<1>2. /\ stage' = "setup" /\ aborts' = aborts + 1
      /\ UNCHANGED <<ep0_state, sent, CSR0, fifo, irq, seen, step, got>>
  BY DEF HostAborts, software, controller
<1>3. FirstIsRead /\ step # 1
  BY <1>1 DEF HostOK, FirstIsRead, Request
<1>4. ep0_state # "TX"
  BY <1>1, <1>3, NotSending
<1>5. ~Begun' /\ ~Reading'
  BY <1>2, <1>3 DEF Begun, Reading
<1>6. HostOK' /\ Right'
  BY <1>1, <1>2, <1>3, <1>5 DEF HostOK, OnScript, Right, Begun
<1> QED
  BY <1>1, <1>2, <1>3, <1>4, <1>5, <1>6
     DEF Good, Rewound, Cleared, Busy, LastPacket, Unread, Current, States, Reading

\* The bus is reset: the registers are clear, the state of the endpoint is not.
LEMMA AgainGood ==
  ASSUME Good(Current), aborts \in Nat, BeginAgain
  PROVE  Good(Current)' /\ HostOK' /\ Right'
<1>1. /\ CSR0' = {} /\ ~open' /\ step' = 1 /\ stage' = "setup"
      /\ UNCHANGED <<ep0_state, sent, aborts>>
  BY DEF BeginAgain, software
<1>2. Begun' /\ ~Reading'
  BY <1>1 DEF Begun, Reading
<1>3. HostOK' /\ Right'
  BY <1>1, <1>2, Sizes DEF HostOK, OnScript, Right
<1> QED
  BY <1>1, <1>2, <1>3
     DEF Good, Rewound, Cleared, Busy, Quiet, LastPacket, Unread, Current, States

-----------------------------------------------------------------------------
(* What the host has read.                                                 *)

\* The inductive invariant of AnswerIsRight.
RInv == ~cutShort /\ ~early => Good(Current) /\ HostOK /\ Right

\* It holds before the first reset.
LEMMA InitRInv == Init => RInv
<1> SUFFICES ASSUME Init PROVE RInv
    OBVIOUS
<1>1. Begun /\ ~Reading
  BY DEF Init, Begun, Reading
<1>2. Good(Current)
  BY <1>1 DEF Init, Good, Rewound, Cleared, Busy, LastPacket, Unread, Current, States
<1>3. HostOK /\ Right
  BY <1>1, Sizes DEF Init, HostOK, OnScript, Right
<1> QED  BY <1>2, <1>3 DEF RInv

\* Every step keeps it.
LEMMA StepRInv == ASSUME FirstIsRead \/ ABORTS = 0, RInv, [Next]_vars PROVE RInv'
<1> SUFFICES ASSUME ~cutShort', ~early' PROVE Good(Current)' /\ HostOK' /\ Right'
    BY DEF RInv
<1>1. ~cutShort /\ ~early
  BY Undone
<1>2. Good(Current) /\ HostOK /\ Right
  BY <1>1 DEF RInv
<1>3. CASE HostSetup
  BY <1>1, <1>2, <1>3, SetupByHostGood
<1>4. CASE HostReads
  BY <1>2, <1>4, ReadsGood
<1>5. CASE HostWrites
  BY <1>2, <1>5, WritesGood
<1>6. CASE HostStatus
  BY <1>2, <1>6, StatusGood
<1>7. CASE HostStalled
  BY <1>2, <1>7, StalledGood
<1>8. CASE HostAborts
  BY <1>2, <1>8, AbortsGood
<1>9. CASE BusReset \/ HostTimesOut
  BY <1>2, <1>9, AgainGood DEF BusReset, HostTimesOut, HostOK
<1>10. CASE service_interrupts
  <2>1. UNCHANGED <<software, controller, host, aborts>> /\ irq' \cup seen' = irq \cup seen
    BY <1>10 DEF service_interrupts, counts
  <2>2. Good(Current)'
    BY <1>2, <2>1 DEF software, controller, host, Good, Rewound, Cleared, Busy, Quiet, LastPacket,
         Unread, Current, States, Asked, Sending, Reading, Limit, Packet, Request, Begun
  <2>3. HostOK' /\ Right'
    BY <1>2, <2>1 DEF host, HostOK, OnScript, Begun, Right, Reading, Limit, Request
  <2> QED  BY <2>2, <2>3
<1>11. CASE mt_udc_irq
  <2>1. Good(Current)'
    BY <1>2, <1>11, IrqGood
  <2>2. UNCHANGED <<host, aborts>> /\ irq' \cup seen' \subseteq irq \cup seen
    BY <1>11 DEF mt_udc_irq, counts
  <2>3. HostOK' /\ Right'
    BY <1>2, <2>2 DEF host, HostOK, OnScript, Begun, Right, Reading, Limit, Request
  <2> QED  BY <2>1, <2>3
<1>12. CASE UNCHANGED vars
  BY <1>2, <1>12 DEF vars, software, controller, host, counts, Good, Rewound, Cleared, Busy, Quiet, LastPacket,
         Unread, Current, States, Asked, Sending, Reading, Limit, Packet, Request, Begun,
         HostOK, OnScript, Right
<1> DEFINE G == Good(Current)' /\ HostOK' /\ Right'
<1> HIDE DEF G
<1>13. \/ HostSetup \/ HostReads \/ HostWrites \/ HostStatus \/ HostStalled \/ HostAborts
       \/ BusReset \/ HostTimesOut \/ service_interrupts \/ mt_udc_irq \/ UNCHANGED vars
  BY DEF Next, HostGoesOn, Device
<1>14. G
  BY <1>3, <1>4, <1>5, <1>6, <1>7, <1>8, <1>9, <1>10, <1>11, <1>12, <1>13 DEF G
<1> QED  BY <1>14 DEF G

\* What the host has read is the beginning of the answer to its request, for all
\* descriptors, packet sizes and scripts that begin with a read, however many
\* resets, aborted transfers and races with a poll, and for all other scripts
\* of hosts that give up no transfer: ep0_state and sent are never those of an
\* older transfer when a request is answered (usbd.c).
THEOREM AnswersRight == ASSUME FirstIsRead \/ ABORTS = 0 PROVE Spec => []AnswerIsRight
<1>1. Init => RInv
  BY InitRInv
<1>2. RInv /\ [Next]_vars => RInv'
  BY StepRInv
<1>3. RInv => AnswerIsRight
  <2> SUFFICES ASSUME RInv, ~Done, Request.kind = "read", stage # "setup", ~cutShort, ~early
               PROVE  got = [i \in 1..Len(got) |-> <<Request.of, i>>]
                        /\ Len(got) <= Least(ANSWER[Request.of], Request.wLength)
      BY DEF AnswerIsRight
  <2>1. HostOK /\ Right
    BY DEF RInv
  <2>2. Reading
    BY <2>1 DEF Reading, HostOK, OnScript
  <2> QED  BY <2>1, <2>2 DEF Right, Limit
<1> QED  BY <1>1, <1>2, <1>3, PTL DEF Spec

-----------------------------------------------------------------------------
(* The address: what the handlers do to it.                                *)

\* What a handler does to an address that was assigned.

\* FADDR only changes to an address that was pending.
Adopts(s, r) == \/ r.faddr = s.faddr
                \/ s.pending /\ r.faddr = s.address

\* An address only becomes pending with SET_ADDRESS, and that is not stalled.
Assigns(s, r) ==
  \/ r.address = s.address /\ (r.pending => s.pending)
  \/ /\ "RXPKTRDY" \in s.csr /\ s.fifo.kind = "SET_ADDRESS" /\ r.address = ADDRESS
     /\ "SENDSTALL" \in r.csr => "SENDSTALL" \in s.csr

\* No handler makes a packet of the host, or stalls one that waits.
Reads(s, r) == "RXPKTRDY" \in r.csr =>
  /\ "RXPKTRDY" \in s.csr /\ ("SENDSTALL" \in r.csr => "SENDSTALL" \in s.csr)
  /\ r.fifo = s.fifo \/ r.fifo.kind = "packet"

\* What each handler may do to the address.
Handles(s, r) == Adopts(s, r) /\ Assigns(s, r) /\ Reads(s, r)

\* mt_udc_ep0_write does nothing to the address.
LEMMA WriteHandles ==
  ASSUME NEW s, IsState(s)
  PROVE  LET r == mt_udc_ep0_write(s) IN Handles(s, r) /\ r.faddr = s.faddr
                                         /\ r.address = s.address /\ r.pending = s.pending
<1> DEFINE r == mt_udc_ep0_write(s)
<1>1. CASE "TXPKTRDY" \in s.csr
  <2>1. r = s
    BY <1>1 DEF mt_udc_ep0_write
  <2> HIDE DEF r
  <2> QED  BY <2>1 DEF Handles, Adopts, Assigns, Reads, r
<1>2. CASE "TXPKTRDY" \notin s.csr
  <2> DEFINE n == Count(s)
  <2>1. /\ r.fifo = [kind |-> "packet", of |-> s.answer, from |-> s.sent, n |-> n]
        /\ r.address = s.address /\ r.pending = s.pending /\ r.faddr = s.faddr
        /\ n < PACKET => r.csr = s.csr \cup {"TXPKTRDY", "DATAEND"}
        /\ ~(n < PACKET) => r.csr = s.csr \cup {"TXPKTRDY"}
    BY <1>2, WriteIs
  <2> HIDE DEF r, n
  <2>2. /\ r.fifo.kind = "packet" /\ r.address = s.address /\ r.pending = s.pending
        /\ r.faddr = s.faddr
        /\ r.csr \in {s.csr \cup {"TXPKTRDY", "DATAEND"}, s.csr \cup {"TXPKTRDY"}}
    BY <2>1
  <2>3. r.pending => s.pending
    BY <2>2, Zenon
  <2>4. Reads(s, r)
    BY <2>2 DEF Reads
  <2>5. Handles(s, r)
    BY <2>2, <2>3, <2>4 DEF Handles, Adopts, Assigns
  <2> QED  BY <2>2, <2>5, Zenon DEF r
<1> QED  BY <1>1, <1>2

\* Neither does mt_udc_ep0_read.
LEMMA ReadHandles ==
  ASSUME NEW s, IsState(s)
  PROVE  Handles(s, mt_udc_ep0_read(s))
<1> DEFINE r == [s EXCEPT !.fifo = NONE, !.csr = (@ \ {"RXPKTRDY"}) \cup {"DATAEND"}, !.state = "IDLE"]
<1>1. /\ r.csr = (s.csr \ {"RXPKTRDY"}) \cup {"DATAEND"}
      /\ r.address = s.address /\ r.pending = s.pending /\ r.faddr = s.faddr
  BY DEF IsState
<1>2. mt_udc_ep0_read(s) = s \/ mt_udc_ep0_read(s) = r
  BY DEF mt_udc_ep0_read
<1> HIDE DEF r
<1>3. r.pending => s.pending
  BY <1>1, Zenon
<1>4. Handles(s, r)
  BY <1>1, <1>3 DEF Handles, Adopts, Assigns, Reads
<1>5. Handles(s, s)
  BY DEF Handles, Adopts, Assigns, Reads
<1> QED  BY <1>2, <1>4, <1>5

\* mt_udc_ep0_setup assigns an address and takes none.
LEMMA SetupHandles ==
  ASSUME NEW s, IsState(s)
  PROVE  LET r == mt_udc_ep0_setup(s) IN Handles(s, r) /\ r.faddr = s.faddr
<1> SUFFICES ASSUME "RXPKTRDY" \in s.csr
             PROVE  LET r == mt_udc_ep0_setup(s) IN Handles(s, r) /\ r.faddr = s.faddr
  <2>1. "RXPKTRDY" \notin s.csr => mt_udc_ep0_setup(s) = s
    BY DEF mt_udc_ep0_setup
  <2> QED  BY <2>1 DEF Handles, Adopts, Assigns, Reads
<1> DEFINE t == [s EXCEPT !.actual = 0, !.fifo = NONE]
           q == s.fifo
           r == mt_udc_ep0_setup(s)
<1>1. /\ IsState(t) /\ t.csr = s.csr /\ t.address = s.address
      /\ t.pending = s.pending /\ t.faddr = s.faddr
  BY DEF IsState
<1>2. r = Answered(t, q)
  BY DEF mt_udc_ep0_setup
<1> HIDE DEF t, r
<1>3. CASE q.kind = "read"
  <2> DEFINE v == Serviced(usb_get_descriptor(t, q))
  <2>1. r = mt_udc_ep0_write(v)
    BY <1>2, <1>3 DEF Answered
  <2>2. /\ IsState(v) /\ v.csr = s.csr \ {"RXPKTRDY"} /\ v.address = s.address
        /\ v.pending = s.pending /\ v.faddr = s.faddr
    BY <1>1 DEF IsState, Serviced, usb_get_descriptor
  <2> HIDE DEF v, q
  <2>3. Handles(v, r) /\ r.faddr = v.faddr /\ r.address = v.address /\ r.pending = v.pending
    BY <2>1, <2>2, WriteHandles
  <2>4. r.pending => s.pending
    BY <2>2, <2>3, Zenon
  <2> QED  BY <2>2, <2>3, <2>4 DEF Handles, Adopts, Assigns, Reads, r
<1>4. CASE q.kind = "SET_ADDRESS"
  <2>1. /\ r.csr = (s.csr \ {"RXPKTRDY"}) \cup {"DATAEND"} /\ r.address = ADDRESS /\ r.faddr = s.faddr
    BY <1>1, <1>2, <1>4 DEF Answered, NoDataStage, Serviced, IsState
  <2> QED  BY <1>4, <2>1 DEF Handles, Adopts, Assigns, Reads, r
<1>5. CASE q.kind \notin {"read", "SET_ADDRESS"}
  <2>1. /\ "RXPKTRDY" \notin r.csr /\ r.address = s.address /\ r.faddr = s.faddr
        /\ r.pending = s.pending
    <3>1. CASE q.kind = "SET_CONFIGURATION"
      BY <1>1, <1>2, <3>1 DEF Answered, NoDataStage, Serviced, IsState
    <3>2. CASE q.kind = "SET_LINE_CODING"
      BY <1>1, <1>2, <3>2 DEF Answered, Serviced, ep0_class_setup, IsState
    <3>3. CASE q.kind \notin {"SET_CONFIGURATION", "SET_LINE_CODING"}
      <4>1. r = udc_stall_ep(t)
        BY <1>2, <1>5, <3>3 DEF Answered
      <4> QED  BY <1>1, <4>1, StallIs
    <3> QED  BY <3>1, <3>2, <3>3
  <2>2. r.pending => s.pending
    BY <2>1, Zenon
  <2> QED  BY <2>1, <2>2 DEF Handles, Adopts, Assigns, Reads, r
<1> QED  BY <1>3, <1>4, <1>5

\* mt_udc_ep0_handler takes a pending address before it reads a request.
LEMMA HandlerHandles ==
  ASSUME NEW s, IsState(s), s.state \in States
  PROVE  Handles(s, mt_udc_ep0_handler(s))
<1> DEFINE e == Ended(s)
           a == Addressed(e)
           r == mt_udc_ep0_handler(s)
<1>1. /\ IsState(e) /\ e.csr = s.csr \ {"SENTSTALL", "SETUPEND"} /\ e.fifo = s.fifo
      /\ e.address = s.address /\ e.faddr = s.faddr /\ e.pending = s.pending
      /\ e.state \in States
  BY EndedIs DEF States
<1>2. /\ e.state = "IDLE" => r = mt_udc_ep0_setup(a)
      /\ e.state = "TX" => r = mt_udc_ep0_write(e)
      /\ e.state = "RX" => r = mt_udc_ep0_read(e)
  BY DEF mt_udc_ep0_handler
<1> HIDE DEF e, r
<1>3. (e.pending => s.pending) /\ (s.pending => e.pending)
  BY <1>1, Zenon
<1>4. ASSUME Handles(e, r) PROVE Handles(s, r)
  BY <1>1, <1>3, <1>4 DEF Handles, Adopts, Assigns, Reads
<1>5. CASE e.state = "IDLE"
  <2>1. /\ IsState(a) /\ a.csr = e.csr /\ a.fifo = e.fifo /\ a.address = e.address
        /\ e.pending => a.faddr = e.address /\ ~a.pending
        /\ ~e.pending => a.faddr = e.faddr /\ a.pending = e.pending
    BY <1>1, AddressedIs
  <2> HIDE DEF a
  <2>2. a.pending => e.pending
    BY <2>1, Zenon
  <2>3. Handles(a, r) /\ r.faddr = a.faddr
    BY <1>2, <1>5, <2>1, SetupHandles
  <2>4. Adopts(e, r)
    BY <2>1, <2>3 DEF Adopts
  <2>5. Assigns(e, r) /\ Reads(e, r)
    BY <2>1, <2>2, <2>3 DEF Handles, Assigns, Reads
  <2>6. Handles(e, r)
    BY <2>4, <2>5 DEF Handles
  <2> QED  BY <1>4, <2>6 DEF r
<1>6. CASE e.state = "TX"
  <2>1. Handles(e, r)
    BY <1>1, <1>2, <1>6, WriteHandles
  <2> QED  BY <1>4, <2>1 DEF r
<1>7. CASE e.state = "RX"
  <2>1. Handles(e, r)
    BY <1>1, <1>2, <1>7, ReadHandles
  <2> QED  BY <1>4, <2>1 DEF r
<1> QED  BY <1>1, <1>5, <1>6, <1>7 DEF States

-----------------------------------------------------------------------------
(* The address: the invariant and the steps.                               *)

\* An address that was assigned and not taken.
Assigned ==
  set_address /\ address # 0 =>
    \/ hostAddress = ADDRESS
    \/ /\ irq = {} /\ seen = {} /\ stage = "status" /\ Request.kind = "SET_ADDRESS"
       /\ "SENDSTALL" \notin CSR0
    \/ irq = {"reset"} /\ seen = {}
    \/ irq = {} /\ seen = {"reset"}

\* A SET_ADDRESS that waits to be handled is the one the host is making.
Waits == "RXPKTRDY" \in CSR0 =>
  /\ "SENDSTALL" \notin CSR0
  /\ fifo.kind = "SET_ADDRESS" => stage = "status" /\ Request.kind = "SET_ADDRESS"

\* What holds as long as the host never races with a poll or aborts a transfer.
Taking == /\ Assigned /\ Waits /\ (seen # {} => irq = {})
          /\ FADDR # 0 => hostAddress = ADDRESS /\ FADDR = ADDRESS

\* The types that the steps need.
Kinds == /\ races \in Nat /\ aborts \in Nat /\ address \in {0, ADDRESS} /\ ep0_state \in States
         /\ irq \subseteq {"ep0", "reset"} /\ seen \subseteq {"ep0", "reset"}

\* The inductive invariant of AddressIsAgreed.
AInv == Kinds /\ (races = 0 /\ aborts = 0 => Taking)

\* It holds before the first reset.
LEMMA InitAInv == Init => AInv
BY Sizes DEF Init, AInv, Kinds, Taking, Assigned, Waits, States

\* A host that never races with a poll acts when no copy of the latches is being
\* handled and no reset is latched.
LEMMA Unraced ==
  ASSUME races \in Nat, Raced, races' = 0
  PROVE  races = 0 /\ seen = {} /\ "reset" \notin irq
BY DEF Raced, Between

\* mt_udc_ep0_write stays in the states of the endpoint.
LEMMA WriteState ==
  ASSUME NEW s, IsState(s), s.state \in States
  PROVE  mt_udc_ep0_write(s).state \in States
<1> DEFINE r == mt_udc_ep0_write(s)
           n == Count(s)
<1>1. CASE "TXPKTRDY" \in s.csr
  BY <1>1 DEF mt_udc_ep0_write
<1>2. CASE "TXPKTRDY" \notin s.csr
  <2>1. /\ n < PACKET => r.state = "IDLE"
        /\ ~(n < PACKET) => r.state = s.state
    BY <1>2, WriteIs
  <2> HIDE DEF n, r
  <2>2. r.state \in States
    BY <2>1 DEF States
  <2> QED  BY <2>2 DEF r
<1> QED  BY <1>1, <1>2

\* So does mt_udc_ep0_handler, in every branch.
LEMMA HandlerState ==
  ASSUME NEW s, IsState(s), s.state \in States
  PROVE  mt_udc_ep0_handler(s).state \in States
<1> DEFINE e == Ended(s)
           a == Addressed(e)
           t == [a EXCEPT !.actual = 0, !.fifo = NONE]
           q == a.fifo
           r == mt_udc_ep0_handler(s)
<1>1. IsState(e) /\ e.state \in States
  BY EndedIs DEF States
<1>2. /\ e.state = "IDLE" => r = mt_udc_ep0_setup(a)
      /\ e.state = "TX" => r = mt_udc_ep0_write(e)
      /\ e.state = "RX" => r = mt_udc_ep0_read(e)
  BY DEF mt_udc_ep0_handler
<1> HIDE DEF e
<1>3. CASE e.state = "TX"
  <2>1. mt_udc_ep0_write(e).state \in States
    BY <1>1, WriteState
  <2> HIDE DEF r
  <2>2. r.state \in States
    BY <1>2, <1>3, <2>1
  <2> QED  BY <2>2 DEF r
<1>4. CASE e.state = "RX"
  <2>1. mt_udc_ep0_read(e).state \in States
    BY <1>1 DEF mt_udc_ep0_read, IsState, States
  <2> HIDE DEF r
  <2>2. r.state \in States
    BY <1>2, <1>4, <2>1
  <2> QED  BY <2>2 DEF r
<1>5. CASE e.state = "IDLE"
  <2>1. IsState(a) /\ a.state = "IDLE"
    BY <1>1, <1>5, AddressedIs
  <2> HIDE DEF a
  <2>2. IsState(t) /\ t.state = "IDLE"
    BY <2>1 DEF IsState
  <2>3. /\ "RXPKTRDY" \notin a.csr => mt_udc_ep0_setup(a) = a
        /\ "RXPKTRDY" \in a.csr => mt_udc_ep0_setup(a) = Answered(t, q)
    BY DEF mt_udc_ep0_setup
  <2> HIDE DEF t, q
  <2>4. Answered(t, q).state \in States
    <3>1. CASE q.kind = "read"
      <4> DEFINE v == Serviced(usb_get_descriptor(t, q))
      <4>1. IsState(v) /\ v.state = "TX"
        BY <2>2 DEF IsState, Serviced, usb_get_descriptor
      <4>2. Answered(t, q) = mt_udc_ep0_write(v)
        BY <3>1 DEF Answered
      <4> HIDE DEF v
      <4> QED  BY <4>1, <4>2, WriteState DEF States
    <3>2. CASE q.kind = "SET_ADDRESS"
      BY <2>2, <3>2 DEF Answered, NoDataStage, Serviced, IsState, States
    <3>3. CASE q.kind = "SET_CONFIGURATION"
      BY <2>2, <3>3 DEF Answered, NoDataStage, Serviced, IsState, States
    <3>4. CASE q.kind = "SET_LINE_CODING"
      BY <2>2, <3>4 DEF Answered, Serviced, ep0_class_setup, IsState, States
    <3>5. CASE q.kind \notin {"read", "SET_ADDRESS", "SET_CONFIGURATION", "SET_LINE_CODING"}
      <4>1. Answered(t, q) = udc_stall_ep(t)
        BY <3>5 DEF Answered
      <4> QED  BY <2>2, <4>1, StallIs DEF States
    <3> QED  BY <3>1, <3>2, <3>3, <3>4, <3>5
  <2> HIDE DEF r
  <2>5. r.state \in States
    BY <1>2, <1>5, <2>1, <2>3, <2>4 DEF States
  <2> QED  BY <2>5 DEF r
<1> QED  BY <1>1, <1>3, <1>4, <1>5 DEF States

\* The second half of a poll.
LEMMA IrqTaking ==
  ASSUME AInv, mt_udc_irq
  PROVE  AInv'
<1> DEFINE s == IF "reset" \in seen THEN mt_udc_reset(Current) ELSE Current
           r == IF "ep0" \in seen THEN mt_udc_ep0_handler(s) ELSE s
<1>1. /\ IsState(s) /\ s.state = ep0_state /\ s.faddr = FADDR
      /\ "reset" \notin seen => s.address = address /\ s.csr = CSR0 /\ s.fifo = fifo
      /\ "reset" \in seen => s.address = 0 /\ "RXPKTRDY" \notin s.csr
  <2>1. /\ Current.state = ep0_state /\ Current.faddr = FADDR /\ Current.address = address
        /\ Current.csr = CSR0 /\ Current.fifo = fifo
    BY DEF Current
  <2> QED  BY <2>1, CurrentIs, ResetIs
<1>2. s.pending => set_address
  <2>1. Current.pending = set_address
    BY DEF Current
  <2>2. s.pending = Current.pending
    BY CurrentIs, ResetIs
  <2> QED  BY <2>1, <2>2, Zenon
<1>3. /\ seen # {} /\ seen' = {} /\ Becomes(r) /\ UNCHANGED <<irq, races, aborts, stage, step, hostAddress>>
  BY DEF mt_udc_irq, host, counts
<1> HIDE DEF s
<1>4. r.state \in States /\ Handles(s, r)
  <2>1. "ep0" \in seen => r.state \in States /\ Handles(s, r)
    BY <1>1, HandlerState, HandlerHandles DEF AInv, Kinds
  <2>2. "ep0" \notin seen => r.state \in States /\ Handles(s, r)
    BY <1>1 DEF AInv, Kinds, Handles, Adopts, Assigns, Reads
  <2> QED  BY <2>1, <2>2
<1>5. "ep0" \notin seen => r.faddr = s.faddr /\ r.address = s.address /\ r.csr = s.csr
  OBVIOUS
<1> HIDE DEF r
<1>6. /\ ep0_state' = r.state /\ address' = r.address /\ FADDR' = r.faddr
      /\ CSR0' = r.csr /\ fifo' = r.fifo
  BY <1>3 DEF Becomes
<1>7. set_address' => r.pending
  BY <1>3, Zenon DEF Becomes
<1>8. Kinds'
  BY <1>1, <1>3, <1>4, <1>6 DEF AInv, Kinds, Handles, Assigns
<1> SUFFICES ASSUME races = 0, aborts = 0, Taking PROVE Taking'
  BY <1>3, <1>8 DEF AInv
<1>10. irq = {} /\ seen \subseteq {"ep0", "reset"} /\ address \in {0, ADDRESS}
  BY <1>3 DEF AInv, Kinds, Taking
<1>11. (set_address /\ address # 0) => (hostAddress = ADDRESS \/ seen = {"reset"})
  BY <1>3 DEF Taking, Assigned
<1>12. FADDR' # 0 => hostAddress' = ADDRESS /\ FADDR' = ADDRESS
  <2>1. CASE r.faddr = s.faddr
    BY <1>1, <1>3, <1>6, <2>1 DEF Taking
  <2>2. CASE r.faddr # s.faddr
    <3>1. s.pending /\ r.faddr = s.address /\ "ep0" \in seen
      BY <1>4, <1>5, <2>2 DEF Handles, Adopts
    <3> QED
      BY <1>1, <1>2, <1>3, <1>6, <1>10, <1>11, <3>1
  <2> QED  BY <2>1, <2>2
<1>13. Waits'
  BY <1>1, <1>3, <1>4, <1>6 DEF Taking, Waits, Handles, Reads, Request
<1>14. Assigned'
  <2> SUFFICES ASSUME set_address', address' # 0
               PROVE  \/ hostAddress = ADDRESS
                      \/ /\ stage = "status" /\ Request.kind = "SET_ADDRESS"
                         /\ "SENDSTALL" \notin CSR0'
      BY <1>3, <1>10 DEF Assigned, Request
  <2>1. r.pending
    BY <1>7
  <2>2. CASE r.address = s.address /\ (r.pending => s.pending)
    BY <1>1, <1>2, <1>6, <1>11, <2>1, <2>2
  <2>3. CASE /\ "RXPKTRDY" \in s.csr /\ s.fifo.kind = "SET_ADDRESS"
             /\ "SENDSTALL" \in r.csr => "SENDSTALL" \in s.csr
    BY <1>1, <1>6, <2>3 DEF Taking, Waits
  <2> QED  BY <1>4, <2>2, <2>3 DEF Handles, Assigns
<1> QED  BY <1>3, <1>12, <1>13, <1>14 DEF Taking

\* A step of the host that follows Raced.
LEMMA HostTaking ==
  ASSUME AInv, Raced, UNCHANGED <<address, ep0_state, aborts, seen, set_address, FADDR>>,
         irq' = irq \cup {"ep0"}, hostAddress' \in {hostAddress, ADDRESS}, Waits',
         stage = "status" /\ Request.kind = "SET_ADDRESS" /\ "SENDSTALL" \notin CSR0
           => hostAddress' = ADDRESS
  PROVE  AInv'
<1>1. races' \in Nat
  BY DEF AInv, Kinds, Raced
<1>2. Kinds'
  BY <1>1 DEF AInv, Kinds
<1> SUFFICES ASSUME races' = 0, aborts' = 0 PROVE Taking'
    BY <1>2 DEF AInv
<1>3. races = 0 /\ aborts = 0 /\ seen = {} /\ "reset" \notin irq
  BY Unraced DEF AInv, Kinds
<1>4. Taking
  BY <1>3 DEF AInv
<1>5. set_address' => set_address
  BY Zenon
<1>6. Assigned'
  BY <1>3, <1>4, <1>5 DEF Taking, Assigned
<1> QED  BY <1>3, <1>4, <1>6 DEF Taking

\* A reset of the bus between two polls.
LEMMA AgainTaking ==
  ASSUME AInv, BeginAgain, seen = {}, races' \in Nat
  PROVE  AInv'
BY DEF AInv, Kinds, Taking, Assigned, Waits, BeginAgain, software

\* Every step keeps the invariant.
LEMMA StepAInv == ASSUME AInv, [Next]_vars PROVE AInv'
<1>1. CASE HostSetup
  <2>1. /\ Raced /\ stage = "setup" /\ irq' = irq \cup {"ep0"} /\ fifo' = Request
        /\ "SENDSTALL" \notin CSR0'
        /\ stage' = IF Request.kind \in {"read", "SET_LINE_CODING"} THEN "data" ELSE "status"
        /\ UNCHANGED <<step, address, ep0_state, aborts, seen, set_address, FADDR, hostAddress>>
    BY <1>1 DEF HostSetup, Interrupt, software
  <2>2. Waits'
    BY <2>1 DEF Waits, Request
  <2> QED  BY <2>1, <2>2, HostTaking
<1>2. CASE HostReads
  <2>1. /\ Raced /\ stage = "data" /\ irq' = irq \cup {"ep0"} /\ "RXPKTRDY" \notin CSR0'
        /\ UNCHANGED <<address, ep0_state, aborts, seen, set_address, FADDR, hostAddress>>
    BY <1>2 DEF HostReads, Interrupt, software, Taken
  <2>2. Waits'
    BY <2>1 DEF Waits
  <2> QED  BY <2>1, <2>2, HostTaking
<1>3. CASE HostWrites
  <2>1. /\ Raced /\ stage = "data" /\ irq' = irq \cup {"ep0"} /\ fifo'.kind = "data"
        /\ "SENDSTALL" \notin CSR0'
        /\ UNCHANGED <<address, ep0_state, aborts, seen, set_address, FADDR, hostAddress>>
    BY <1>3 DEF HostWrites, Interrupt, software, Taken
  <2>2. Waits'
    BY <2>1 DEF Waits
  <2> QED  BY <2>1, <2>2, HostTaking
<1>4. CASE HostStatus
  <2>1. /\ Raced /\ irq' = irq \cup {"ep0"} /\ "RXPKTRDY" \notin CSR0'
        /\ hostAddress' = IF Request.kind = "SET_ADDRESS" THEN ADDRESS ELSE hostAddress
        /\ UNCHANGED <<address, ep0_state, aborts, seen, set_address, FADDR>>
    BY <1>4 DEF HostStatus, Interrupt, software, Taken
  <2>2. Waits'
    BY <2>1 DEF Waits
  <2> QED  BY <2>1, <2>2, HostTaking
<1>5. CASE HostStalled
  <2>1. /\ Raced /\ irq' = irq \cup {"ep0"} /\ "SENDSTALL" \in CSR0 /\ fifo' = fifo
        /\ CSR0' = (CSR0 \ {"SENDSTALL"}) \cup {"SENTSTALL"}
        /\ UNCHANGED <<address, ep0_state, aborts, seen, set_address, FADDR, hostAddress>>
    BY <1>5 DEF HostStalled, Interrupt, software
  <2>2. CASE races' = 0 /\ aborts = 0
    <3>1. Taking
      BY <2>1, <2>2, Unraced DEF AInv, Kinds
    <3>2. Waits'
      BY <2>1, <3>1 DEF Taking, Waits
    <3> QED  BY <2>1, <3>2, HostTaking
  <2>3. CASE ~(races' = 0 /\ aborts = 0)
    BY <2>1, <2>3 DEF AInv, Kinds, Raced
  <2> QED  BY <2>2, <2>3
<1>6. CASE HostAborts
  BY <1>6 DEF AInv, Kinds, HostAborts, software
<1>7. CASE BusReset
  <2>1. Raced /\ BeginAgain /\ races' \in Nat
    BY <1>7 DEF BusReset, AInv, Kinds, Raced
  <2>2. CASE races' = 0
    BY <2>1, <2>2, AgainTaking, Unraced DEF AInv, Kinds
  <2>3. CASE races' # 0
    BY <2>1, <2>3 DEF AInv, Kinds, BeginAgain, software
  <2> QED  BY <2>2, <2>3
<1>8. CASE HostTimesOut
  BY <1>8, AgainTaking DEF HostTimesOut, AInv, Kinds
<1>9. CASE service_interrupts
  BY <1>9 DEF service_interrupts, software, controller, host, counts, AInv, Kinds, Taking, Assigned,
       Waits, Request
<1>10. CASE mt_udc_irq
  BY <1>10, IrqTaking
<1>11. CASE UNCHANGED vars
  BY <1>11 DEF vars, software, controller, host, counts, AInv, Kinds, Taking, Assigned, Waits, Request
<1> QED
  BY <1>1, <1>2, <1>3, <1>4, <1>5, <1>6, <1>7, <1>8, <1>9, <1>10, <1>11
     DEF Next, HostGoesOn, Device

\* The device never listens to an address that the host is not about to use: a
\* pending address that a reset of the bus overtakes is taken as 0, as long as
\* the host does not race with a poll or abort a transfer (usbd.c).
THEOREM AddressAgreed == Spec => []AddressIsAgreed
<1>1. Init => AInv
  BY InitAInv
<1>2. AInv /\ [Next]_vars => AInv'
  BY StepAInv
<1>3. AInv => AddressIsAgreed
  BY DEF AInv, Kinds, Taking, AddressIsAgreed
<1> QED  BY <1>1, <1>2, <1>3, PTL DEF Spec
=============================================================================
