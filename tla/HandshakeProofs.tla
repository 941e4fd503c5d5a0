--------------------------- MODULE HandshakeProofs ---------------------------
(***************************************************************************)
(* Theorems about Handshake, for tokens of any length, any tokens the      *)
(* tools may send, and any number of slips and hasty answers.              *)
(*                                                                         *)
(* The argument: the index of usbdl_check_start_command is exactly how     *)
(* much of the sequence the bytes read so far end with (HeardIsIndex, by   *)
(* NextIndexIsMatched), the answer to the last byte is on its way only     *)
(* when the device is in download mode (LastAnswer), and a mode is granted *)
(* by one answer over USB and at most one over UART (Decision).            *)
(***************************************************************************)
EXTENDS Handshake, SequenceTheorems, TLAPS

Undecided == {"usb_connect", "usb_listen", "start", "commands"}
Meta      == {"META_BOOT", "ADVMETA_BOOT"}

HeardIsIndex ==
  /\ start.heard = SubSeq(Sequence, 1, start.i)
  /\ pc = "start" => start.i < 4
  /\ pc = "commands" => start.i = 4

Sent(s) == \E k \in DOMAIN s : s[k] = Complement(StartByte(4))

LastAnswer == Sent(tx) => pc = "commands"

Agreed ==
  \/ Grants = {} /\ g_boot_mode = "NORMAL_BOOT" /\ g_meta_com_type = "none"
  \/ \E last \in Grants :
       /\ \A k \in Grants : k <= last
       /\ answers[last] = [port |-> g_meta_com_type, says |-> g_boot_mode]

Decision ==
  /\ pc \in Undecided => answers = <<>>
  /\ pc # "boot" => Agreed
  /\ pc = "uart_listen" =>
       \A k \in DOMAIN answers : answers[k].says \notin Meta

IInv == TypeOK /\ HeardIsIndex /\ LastAnswer /\ InStep /\ Decision /\ MetaIsKept

-----------------------------------------------------------------------------
(* The start sequence.                                                     *)

LEMMA SequenceIs ==
  /\ Sequence \in Seq({"start"} \X (1..4)) /\ Len(Sequence) = 4
  /\ \A k \in 1..4 : Sequence[k] = StartByte(k)
BY DEF Sequence, StartByte

\* A beginning of the sequence, byte by byte.
LEMMA BeginningIs ==
  ASSUME NEW n \in 0..4
  PROVE  /\ SubSeq(Sequence, 1, n) \in Seq({"start"} \X (1..4))
         /\ Len(SubSeq(Sequence, 1, n)) = n
         /\ \A k \in 1..n : SubSeq(Sequence, 1, n)[k] = StartByte(k)
BY SequenceIs

LEMMA StartBytesDiffer ==
  \A j, k \in 1..4 : StartByte(j) = StartByte(k) => j = k
BY DEF StartByte

\* What a sequence ends with, byte by byte.
LEMMA EndsWithIs ==
  ASSUME NEW S, NEW s \in Seq(S), NEW k \in 0..4
  PROVE  EndsWith(s, k) <=>
           k <= Len(s) /\ \A j \in 1..k : s[Len(s) - k + j] = StartByte(j)
<1>1. CASE k <= Len(s)
  <2> DEFINE end == SubSeq(s, Len(s) - k + 1, Len(s))
  <2>1. end \in Seq(S) /\ Len(end) = k /\ \A j \in 1..k : end[j] = s[Len(s) - k + j]
    BY <1>1
  <2> DEFINE beg == SubSeq(Sequence, 1, k)
  <2>2. Len(beg) = k /\ \A j \in 1..k : beg[j] = StartByte(j)
    BY BeginningIs
  <2>3. beg \in Seq({"start"} \X (1..4))  BY BeginningIs
  <2>4. (end = beg) <=> \A j \in 1..k : end[j] = beg[j]
    <3> HIDE DEF end, beg
    <3> QED  BY <2>1, <2>2, <2>3
  <2> QED  BY <1>1, <2>1, <2>2, <2>4 DEF EndsWith
<1>2. CASE ~(k <= Len(s))  BY <1>2 DEF EndsWith
<1> QED  BY <1>1, <1>2

\* One more byte: the index of usbdl_check_start_command is the longest
\* beginning of the sequence that the bytes read end with.
LEMMA NextIndexIsMatched ==
  ASSUME NEW S, NEW i \in 0..3, NEW b,
         NEW heard \in Seq(S), Len(heard) = i,
         \A j \in 1..i : heard[j] = StartByte(j),
         b \in S
  PROVE  Matched(Append(heard, b)) =
           SubSeq(Sequence, 1, IF b = StartByte(1) /\ i > 0 THEN 1
                               ELSE IF b = Sequence[i + 1] THEN i + 1 ELSE 0)
<1> DEFINE s == Append(heard, b)
           n == IF b = StartByte(1) /\ i > 0 THEN 1
                ELSE IF b = Sequence[i + 1] THEN i + 1 ELSE 0
<1>1. s \in Seq(S) /\ Len(s) = i + 1 /\ s[i + 1] = b /\ \A j \in 1..i : s[j] = StartByte(j)
  OBVIOUS
<1>2. n \in 0..4 /\ n <= i + 1
  OBVIOUS
<1>3. Sequence[i + 1] = StartByte(i + 1)  BY SequenceIs
<1>10. \A k \in 0..4 :
         EndsWith(s, k) <=> k <= i + 1 /\ \A j \in 1..k : s[i + 1 - k + j] = StartByte(j)
  <2> HIDE DEF s
  <2> SUFFICES ASSUME NEW k \in 0..4
               PROVE  EndsWith(s, k) <=>
                        k <= i + 1 /\ \A j \in 1..k : s[i + 1 - k + j] = StartByte(j)
      OBVIOUS
  <2>1. s \in Seq(S) /\ Len(s) = i + 1  BY <1>1
  <2>2. EndsWith(s, k) <=>
          k <= Len(s) /\ \A j \in 1..k : s[Len(s) - k + j] = StartByte(j)
    BY <2>1, EndsWithIs
  <2> QED  BY <2>1, <2>2
<1>4. EndsWith(s, n)
  <2> SUFFICES \A j \in 1..n : s[i + 1 - n + j] = StartByte(j)
    BY <1>2, <1>10
  <2>1. CASE n = 0  BY <2>1
  <2>2. CASE n = 1
    <3>1. b = StartByte(1)  BY <2>2, <1>3
    <3> QED  BY <3>1, <2>2, <1>1
  <2>3. CASE n = i + 1 /\ i > 0
    <3>1. b = StartByte(i + 1)  BY <2>3, <1>3
    <3> QED  BY <3>1, <2>3, <1>1
  <2> QED  BY <2>1, <2>2, <2>3
<1>5. ASSUME NEW k \in 0..4, EndsWith(s, k) PROVE k <= n
  <2>1. k <= i + 1 /\ \A j \in 1..k : s[i + 1 - k + j] = StartByte(j)
    BY <1>5, <1>10
  <2>2. CASE k = 0  BY <2>2, <1>2
  <2>3. CASE k > 0
    <3>1. b = StartByte(k)  BY <2>1, <2>3, <1>1
    <3>2. CASE k = i + 1
      <4>1. b = StartByte(1) => i = 0  BY <3>1, <3>2, StartBytesDiffer
      <4> QED  BY <4>1, <3>1, <3>2, <1>3
    <3>3. CASE k # i + 1
      <4>1. s[i + 1 - k + 1] = StartByte(1)  BY <2>1, <2>3
      <4>2. i + 1 - k + 1 \in 1..(i + 1)  BY <2>1, <2>3
      <4>3. CASE k = 1  BY <4>3, <3>1, <3>3
      <4>4. CASE k > 1
        <5>1. i + 1 - k + 1 \in 2..i  BY <2>1, <4>4, <3>3
        <5>2. s[i + 1 - k + 1] = StartByte(i + 1 - k + 1)  BY <5>1, <1>1
        <5> QED  BY <5>1, <5>2, <4>1, StartBytesDiffer
      <4> QED  BY <4>3, <4>4, <2>3
    <3> QED  BY <3>2, <3>3
  <2> QED  BY <2>2, <2>3
<1> HIDE DEF s, n
<1>6. EndsWith(s, n) /\ \A j \in n + 1..4 : ~EndsWith(s, j)
  BY <1>2, <1>4, <1>5
<1>7. \A k \in 0..4 : EndsWith(s, k) /\ (\A j \in k + 1..4 : ~EndsWith(s, j)) => k = n
  BY <1>2, <1>4, <1>5
<1>8. n = CHOOSE k \in 0..4 : EndsWith(s, k) /\ \A j \in k + 1..4 : ~EndsWith(s, j)
  BY <1>2, <1>6, <1>7
<1>9. Matched(s) = SubSeq(Sequence, 1, n)
  BY <1>8 DEF Matched
<1> QED  BY <1>9 DEF s, n
-----------------------------------------------------------------------------
(* Types.                                                                  *)

LEMMA ModeType ==
  /\ \A t \in DOMAIN MODE : MODE[t] \in Modes
  /\ "UNKONWN" \notin Modes /\ "FORBIDDEN" \notin Modes /\ "NORMAL_BOOT" \in Modes
  /\ "META_BOOT" \in Modes /\ "ADVMETA_BOOT" \in Modes
<1>1. DOMAIN MODE = {"META", "FACT", "ADVEMETA", "FACTORYM", "FASTBOOT", "ATNBOOT"}
  BY DEF MODE
<1>2. Modes = {"META_BOOT", "FACTORY_BOOT", "ADVMETA_BOOT", "ATE_FACTORY_BOOT", "FASTBOOT",
               "NORMAL_BOOT"}
  BY <1>1 DEF Modes, MODE
<1>3. \A t \in DOMAIN MODE : MODE[t] \in Modes  BY DEF Modes
<1> QED  BY <1>2, <1>3

LEMMA TokensType ==
  /\ "none" \notin TOKENS /\ "download" \notin TOKENS /\ "noise" \notin TOKENS
  /\ "start" \notin TOKENS
<1>1. DOMAIN MODE = {"META", "FACT", "ADVEMETA", "FACTORYM", "FASTBOOT", "ATNBOOT"}
  BY DEF MODE
<1> QED  BY <1>1, HandshakeAssumption DEF HandshakeAssumption

LEMMA ByteType ==
  /\ \A k \in 1..4 : StartByte(k) \in Bytes
  /\ \A t \in TOKENS, k \in 1..TOKEN_SZ : <<t, k>> \in Bytes
  /\ \A b \in Bytes : Complement(b) \in Replies /\ PlusOne(b) \in Replies /\ Echo(b) \in Replies
BY DEF Bytes, StartByte, Replies, Complement, PlusOne, Echo

LEMMA BeginningType ==
  \A n \in 0..4 : SubSeq(Sequence, 1, n) \in Seq(Bytes)
<1> SUFFICES ASSUME NEW n \in 0..4 PROVE SubSeq(Sequence, 1, n) \in Seq(Bytes)
    OBVIOUS
<1>1. \A k \in 1..n : Sequence[k] \in Bytes
  <2> SUFFICES ASSUME NEW k \in 1..n PROVE Sequence[k] \in Bytes
      OBVIOUS
  <2>1. k \in 1..4  OBVIOUS
  <2> QED  BY <2>1, SequenceIs, ByteType
<1> QED  BY <1>1, SubSeqProperties

LEMMA RequestType == Request \in DOMAIN MODE \cup {"AT", "unknown"}
BY DEF Request

\* A token that is answered has one answer more; an answer names a mode just
\* when the request is granted.
LEMMA AnsweredIs ==
  ASSUME NEW port \in Ports, answers \in Seq(AnswersToTokens)
  PROVE  /\ Answered(port) \in Seq(AnswersToTokens)
         /\ ~Granted => \/ Answered(port) = answers
                        \/ Answered(port) = Append(answers, [port |-> port, says |-> Says])
                           /\ Says \notin Modes
         /\ Granted => /\ Answered(port) = Append(answers, [port |-> port, says |-> MODE[Request]])
                       /\ MODE[Request] \in Modes
<1>1. Request # "unknown" => Says \in Modes \cup {"UNKONWN", "FORBIDDEN"}
  BY RequestType, ModeType DEF Says
<1>2. [port |-> port, says |-> Says] \in AnswersToTokens \/ Request = "unknown"
  BY <1>1 DEF AnswersToTokens
<1>3. DOMAIN MODE = {"META", "FACT", "ADVEMETA", "FACTORYM", "FASTBOOT", "ATNBOOT"}
  BY DEF MODE
<1>4. Answered(port) \in Seq(AnswersToTokens)
  BY <1>2 DEF Answered
<1>5. ASSUME Granted
      PROVE  /\ Answered(port) = Append(answers, [port |-> port, says |-> MODE[Request]])
             /\ MODE[Request] \in Modes
  <2>1. Request \in DOMAIN MODE /\ ~(sla /\ Request \in FORBIDDEN)  BY <1>5 DEF Granted
  <2>2. Request # "unknown" /\ Request # "AT"  BY <2>1, <1>3
  <2> QED  BY <2>1, <2>2, ModeType DEF Answered, Says
<1>6. ASSUME ~Granted, Request # "unknown" PROVE Says \notin Modes
  <2>1. CASE Request = "AT"  BY <2>1, ModeType DEF Says
  <2>2. CASE Request # "AT"
    <3>1. Request \in DOMAIN MODE  BY <1>6, <2>2, RequestType
    <3>2. sla /\ Request \in FORBIDDEN  BY <1>6, <3>1 DEF Granted
    <3> QED  BY <2>2, <3>2, ModeType DEF Says
  <2> QED  BY <2>1, <2>2
<1> QED  BY <1>4, <1>5, <1>6 DEF Answered

LEMMA ChunkType ==
  ASSUME TypeOK, rx # <<>>, Len(buf) < TOKEN_SZ
  PROVE  /\ Chunk \in Seq(Bytes) /\ Len(buf) + Len(Chunk) <= TOKEN_SZ
         /\ SubSeq(rx, Len(Chunk) + 1, Len(rx)) \in Seq(Bytes)
<1> DEFINE n == Least(Len(rx), TOKEN_SZ - Len(buf))
<1>1. rx \in Seq(Bytes) /\ Len(rx) \in Nat /\ buf \in Seq(Bytes) /\ Len(buf) \in Nat
  BY DEF TypeOK
<1>2. n \in 1..Len(rx) /\ n <= TOKEN_SZ - Len(buf)
  <2>1. Len(rx) > 0  BY <1>1
  <2> QED  BY <1>1, <2>1, HandshakeAssumption DEF Least, HandshakeAssumption
<1>3. \A k \in 1..Len(rx) : rx[k] \in Bytes  BY <1>1, ElementOfSeq
<1> HIDE DEF n
<1>4. SubSeq(rx, 1, n) \in Seq(Bytes) /\ Len(SubSeq(rx, 1, n)) = n
  BY <1>1, <1>2, <1>3, SubSeqProperties
<1>5. Chunk = SubSeq(rx, 1, n)  BY DEF Chunk, n
<1>6. SubSeq(rx, n + 1, Len(rx)) \in Seq(Bytes)
  BY <1>1, <1>2, <1>3, SubSeqProperties
<1> QED
  BY <1>1, <1>2, <1>4, <1>5, <1>6, HandshakeAssumption DEF HandshakeAssumption

LEMMA InitType == Init => TypeOK
<1> SUFFICES ASSUME Init PROVE TypeOK
    OBVIOUS
<1>1. start \in [i : 0..4, late : BOOLEAN, heard : Seq(Bytes)]
  BY DEF Init, Fresh
<1>2. usb \in [wants : USB_TOOLS, at : Nat] /\ com \in [wants : {"none"} \cup TOKENS, at : Nat]
  BY DEF Init
<1>3. com.at = 0  BY DEF Init
<1>4. TOKEN_SZ \in Nat  BY HandshakeAssumption DEF HandshakeAssumption
<1>5. forced \in BOOLEAN /\ sla \in BOOLEAN /\ late \in BOOLEAN  BY DEF Init
<1> QED  BY <1>1, <1>2, <1>3, <1>4, <1>5, ModeType DEF Init, TypeOK

\* usbdl_check_start_command moves its index as NextIndexIsMatched says.
LEMMA CheckStartIndex ==
  ASSUME TypeOK, HeardIsIndex, usbdl_check_start_command
  PROVE  /\ start'.i = NextIndex(Head(rx)) /\ start'.i \in 0..4
         /\ start'.heard = SubSeq(Sequence, 1, start'.i)
         /\ start' \in [i : 0..4, late : BOOLEAN, heard : Seq(Bytes)]
<1> DEFINE b == Head(rx)
<1>1. start \in [i : 0..4, late : BOOLEAN, heard : Seq(Bytes)]  BY DEF TypeOK
<1>2. start.i \in 0..3 /\ start.heard = SubSeq(Sequence, 1, start.i)
  BY <1>1 DEF HeardIsIndex, usbdl_check_start_command
<1>3. b \in Bytes
  BY HeadTailProperties DEF TypeOK, usbdl_check_start_command
<1>4. NextIndex(b) \in 0..4  BY <1>2 DEF NextIndex
<1>5. start' = [start EXCEPT !.i = NextIndex(b), !.heard = Matched(Append(start.heard, b))]
  BY DEF usbdl_check_start_command
<1>6. start.heard \in Seq(Bytes) /\ Len(start.heard) = start.i
      /\ \A j \in 1..start.i : start.heard[j] = StartByte(j)
  BY <1>1, <1>2, BeginningIs
<1> HIDE DEF b
<1>7. Matched(Append(start.heard, b)) = SubSeq(Sequence, 1, NextIndex(b))
  BY <1>2, <1>3, <1>6, NextIndexIsMatched DEF NextIndex
<1>8. SubSeq(Sequence, 1, NextIndex(b)) \in Seq(Bytes)  BY <1>4, BeginningType
<1>9. start'.i = NextIndex(b) /\ start'.heard = SubSeq(Sequence, 1, NextIndex(b))
      /\ start' \in [i : 0..4, late : BOOLEAN, heard : Seq(Bytes)]
  BY <1>1, <1>4, <1>5, <1>7, <1>8
<1> QED  BY <1>4, <1>9 DEF b

LEMMA StartAnswerType ==
  ASSUME NEW b \in Bytes PROVE StartAnswer(b) \in Seq(Replies) /\ Len(StartAnswer(b)) <= 1
BY ByteType DEF StartAnswer

\* Each step of the device keeps the types.
LEMMA DeviceType ==
  ASSUME TypeOK, HeardIsIndex, Device
  PROVE  TypeOK'
<1> USE DEF given, outcome, tools, counts
<1>1. Fresh \in [i : 0..4, late : BOOLEAN, heard : Seq(Bytes)]
  BY DEF Fresh
<1>12. ASSUME Offline
       PROVE  /\ pc' \in {"decided", "uart_listen"} /\ late' \in BOOLEAN
              /\ buf' = <<>> /\ rx' = <<>> /\ tx' = <<>>
              /\ start' \in [i : 0..4, late : BOOLEAN, heard : Seq(Bytes)]
  BY <1>1, <1>12 DEF Offline
<1>2. CASE usb_connect \/ StartTimeout \/ UartListenTimeout
  BY <1>2 DEF usb_connect, StartTimeout, UartListenTimeout, TypeOK
<1>3. CASE NoUsb \/ UsbListenTimeout
  <2>1. Offline /\ UNCHANGED <<forced, sla, g_boot_mode, g_meta_com_type, answers, c, fifo, usb, com>>
    BY <1>3 DEF NoUsb, UsbListenTimeout
  <2>2. TOKEN_SZ \in Nat  BY HandshakeAssumption DEF HandshakeAssumption
  <2> QED  BY <1>12, <2>1, <2>2 DEF TypeOK
<1>4. CASE usb_listen
  <2>1. Chunk \in Seq(Bytes) /\ Len(buf) + Len(Chunk) <= TOKEN_SZ /\ rx' \in Seq(Bytes)
    BY <1>4, ChunkType DEF usb_listen
  <2>2. CASE Head(Chunk) = StartByte(1)
    BY <1>1, <1>4, <2>1, <2>2 DEF usb_listen, TypeOK
  <2>3. CASE Head(Chunk) # StartByte(1)
    <3>1. buf' = buf \o Chunk /\ UNCHANGED <<pc, start>>  BY <1>4, <2>3 DEF usb_listen
    <3>2. buf' \in Seq(Bytes) /\ Len(buf') <= TOKEN_SZ
      BY <2>1, <3>1, ConcatProperties DEF TypeOK
    <3> QED  BY <1>4, <2>1, <3>1, <3>2 DEF usb_listen, TypeOK
  <2> QED  BY <2>2, <2>3
<1>5. CASE usbdl_check_start_command
  <2>1. Head(rx) \in Bytes /\ rx' \in Seq(Bytes)
    BY <1>5, HeadTailProperties DEF usbdl_check_start_command, TypeOK
  <2>2. tx' \in Seq(Replies)
    BY <1>5, <2>1, StartAnswerType, ConcatProperties DEF usbdl_check_start_command, TypeOK
  <2>3. start' \in [i : 0..4, late : BOOLEAN, heard : Seq(Bytes)]
    BY <1>5, CheckStartIndex
  <2>4. pc' \in {"commands", "start"}
    BY <1>5 DEF usbdl_check_start_command
  <2> QED  BY <1>5, <2>1, <2>2, <2>3, <2>4 DEF usbdl_check_start_command, TypeOK
<1>6. CASE usbdl_handler
  <2>1. Head(rx) \in Bytes /\ rx' \in Seq(Bytes)
    BY <1>6, HeadTailProperties DEF usbdl_handler, TypeOK
  <2>2. tx' \in Seq(Replies)
    BY <1>6, <2>1, ByteType DEF usbdl_handler, TypeOK
  <2> QED  BY <1>6, <2>1, <2>2 DEF usbdl_handler, TypeOK
<1>7. ASSUME NEW port \in Ports, bldr_cmd_handler(port)
      PROVE  /\ answers' \in Seq(AnswersToTokens)
             /\ g_boot_mode' \in Modes \cup {"RECOVERY_BOOT"}
             /\ g_meta_com_type' \in Ports \cup {"none"}
  <2>1. answers' \in Seq(AnswersToTokens)
    BY <1>7, AnsweredIs DEF bldr_cmd_handler, TypeOK
  <2>2. g_boot_mode' \in Modes \cup {"RECOVERY_BOOT"}
    BY <1>7, ModeType DEF bldr_cmd_handler, Granted, TypeOK
  <2>3. g_meta_com_type' \in Ports \cup {"none"}
    BY <1>7 DEF bldr_cmd_handler, TypeOK
  <2> QED  BY <2>1, <2>2, <2>3
<1>8. CASE usb_handshake_handler
  <2>1. bldr_cmd_handler("META_USB_COM") /\ "META_USB_COM" \in Ports
    BY <1>8 DEF usb_handshake_handler, Ports
  <2>2. Offline /\ UNCHANGED <<forced, sla, c, fifo, usb, com>>
    BY <1>8 DEF usb_handshake_handler
  <2>3. TOKEN_SZ \in Nat  BY HandshakeAssumption DEF HandshakeAssumption
  <2> QED  BY <1>7, <1>12, <2>1, <2>2, <2>3 DEF TypeOK
<1>9. CASE uart_listen
  <2>1. c' \in Seq(Bytes) /\ Len(c') <= 1 /\ fifo' \in Seq(Bytes)
    <3>1. CASE fifo # <<>>
      <4>1. Head(fifo) \in Bytes /\ Tail(fifo) \in Seq(Bytes)
        BY <3>1, HeadTailProperties DEF TypeOK
      <4>2. c' = <<Head(fifo)>> /\ fifo' = Tail(fifo)  BY <1>9, <3>1 DEF uart_listen
      <4> QED  BY <4>1, <4>2
    <3>2. CASE fifo = <<>>
      BY <1>9, <3>2 DEF uart_listen, TypeOK
    <3> QED  BY <3>1, <3>2
  <2>2. buf' \in Seq(Bytes) /\ Len(buf') <= TOKEN_SZ
    <3>1. buf' = buf \o c' /\ Len(buf) < TOKEN_SZ /\ buf \in Seq(Bytes)
      BY <1>9 DEF uart_listen, TypeOK
    <3> QED  BY <2>1, <3>1, ConcatProperties, HandshakeAssumption DEF HandshakeAssumption
  <2> QED  BY <1>9, <2>1, <2>2 DEF uart_listen, TypeOK
<1>10. CASE uart_handshake_handler
  <2>1. bldr_cmd_handler("META_UART_COM") /\ "META_UART_COM" \in Ports
    BY <1>10 DEF uart_handshake_handler, Ports
  <2> QED  BY <1>7, <1>10, <2>1 DEF uart_handshake_handler, TypeOK
<1>11. CASE main
  BY <1>11 DEF main, TypeOK
<1> QED
  BY <1>2, <1>3, <1>4, <1>5, <1>6, <1>8, <1>9, <1>10, <1>11 DEF Device

\* So does each step of a tool, and the passing of time.
LEMMA ToolsType ==
  ASSUME TypeOK, Tools \/ Time
  PROVE  TypeOK'
<1> USE DEF given, outcome, tools, counts
<1>1. usb \in [wants : USB_TOOLS, at : Nat] /\ com \in [wants : {"none"} \cup TOKENS, at : Nat]
  BY DEF TypeOK
<1>2. ASSUME NEW hurry \in BOOLEAN, Retry(hurry) PROVE TypeOK'
  <2>1. rx' \in Seq(Bytes)  BY <1>2, ByteType DEF Retry, TypeOK
  <2>2. usb' \in [wants : USB_TOOLS, at : Nat]  BY <1>1, <1>2 DEF Retry
  <2> QED  BY <1>2, <2>1, <2>2 DEF Retry, TypeOK
<1>3. CASE ToolReads
  <2>1. tx' \in Seq(Replies)  BY <1>3, HeadTailProperties DEF ToolReads, TypeOK
  <2>2. usb' \in [wants : USB_TOOLS, at : Nat] /\ usb'.at \in 0..4
    BY <1>1, <1>3 DEF ToolReads
  <2>3. rx' \in Seq(Bytes)
    <3>1. CASE usb'.at = 4  BY <1>3, <3>1 DEF ToolReads, TypeOK
    <3>2. CASE usb'.at # 4
      <4>1. StartByte(usb'.at + 1) \in Bytes  BY <2>2, <3>2, ByteType
      <4> QED  BY <1>3, <3>2, <4>1 DEF ToolReads, TypeOK
    <3> QED  BY <3>1, <3>2
  <2> QED  BY <1>3, <2>1, <2>2, <2>3 DEF ToolReads, TypeOK
<1>4. CASE Noise
  <2>1. rx' \in Seq(Bytes) /\ tx' \in Seq(Replies)  BY <1>4, ByteType DEF Noise
  <2> QED  BY <1>4, <2>1 DEF Noise, TypeOK
<1>5. CASE UsbTokenSent
  <2>1. usb.at + 1 \in 1..TOKEN_SZ /\ usb.wants \in TOKENS
    BY <1>1, <1>5, HandshakeAssumption DEF UsbTokenSent, HandshakeAssumption
  <2>2. rx' \in Seq(Bytes)  BY <1>5, <2>1, ByteType DEF UsbTokenSent, TypeOK
  <2>3. usb' \in [wants : USB_TOOLS, at : Nat]  BY <1>1, <1>5 DEF UsbTokenSent
  <2> QED  BY <1>5, <2>2, <2>3 DEF UsbTokenSent, TypeOK
<1>6. CASE NextTool
  <2>1. usb' \in [wants : USB_TOOLS, at : Nat] /\ tx' \in Seq(Replies)
    BY <1>6 DEF NextTool, USB_TOOLS
  <2> QED  BY <1>6, <2>1 DEF NextTool, TypeOK
<1>7. CASE UartTokenSent
  <2>1. PICK t \in IF com.at = 0 THEN TOKENS ELSE {com.wants} :
          com' = [wants |-> t, at |-> com.at + 1] /\ fifo' = Append(fifo, <<t, com.at + 1>>)
    BY <1>7 DEF UartTokenSent
  <2>2. com.at + 1 \in 1..TOKEN_SZ
    BY <1>1, <1>7, HandshakeAssumption DEF UartTokenSent, HandshakeAssumption
  <2>3. t \in TOKENS
    BY <1>1, <2>1 DEF TypeOK
  <2>4. fifo' \in Seq(Bytes)  BY <2>1, <2>2, <2>3, ByteType DEF TypeOK
  <2>5. com' \in [wants : {"none"} \cup TOKENS, at : Nat]  BY <1>1, <2>1, <2>3
  <2> QED  BY <1>7, <2>4, <2>5 DEF UartTokenSent, TypeOK
<1>8. CASE ListenDeadline
  BY <1>8 DEF ListenDeadline, TypeOK
<1>9. ASSUME NEW slip \in BOOLEAN, StartDeadline(slip) PROVE TypeOK'
  <2>1. start' \in [i : 0..4, late : BOOLEAN, heard : Seq(Bytes)]
    BY <1>9 DEF StartDeadline, TypeOK
  <2> QED  BY <1>9, <2>1 DEF StartDeadline, TypeOK
<1> QED
  BY <1>2, <1>3, <1>4, <1>5, <1>6, <1>7, <1>8, <1>9 DEF Tools, Time
-----------------------------------------------------------------------------
(* The induction.                                                          *)

\* The index and what has been heard move together, and only in
\* usbdl_check_start_command; elsewhere both begin again.
LEMMA HeardStep ==
  ASSUME TypeOK, HeardIsIndex, [Next]_vars
  PROVE  HeardIsIndex'
<1> USE DEF given, outcome, tools, counts
<1>1. start \in [i : 0..4, late : BOOLEAN, heard : Seq(Bytes)]  BY DEF TypeOK
<1>2. Fresh.i < 4 /\ Fresh.heard = SubSeq(Sequence, 1, Fresh.i)
  BY SubSeqEmpty DEF Fresh
<1>3. CASE start' = Fresh /\ pc' # "commands"
  BY <1>2, <1>3, Zenon DEF HeardIsIndex
<1>4. CASE /\ start'.i = start.i /\ start'.heard = start.heard
           /\ pc' = pc \/ pc' \notin {"start", "commands"}
  BY <1>4 DEF HeardIsIndex
<1>5. CASE usbdl_check_start_command
  <2>1. /\ start'.i = NextIndex(Head(rx)) /\ start'.i \in 0..4
        /\ start'.heard = SubSeq(Sequence, 1, start'.i)
    BY <1>5, CheckStartIndex
  <2>2. pc' = IF start'.i = 4 THEN "commands" ELSE "start"
    BY <1>5, <2>1 DEF usbdl_check_start_command
  <2> QED  BY <2>1, <2>2 DEF HeardIsIndex
<1>6. CASE NoUsb \/ UsbListenTimeout \/ usb_handshake_handler
  <2>1. Offline  BY <1>6 DEF NoUsb, UsbListenTimeout, usb_handshake_handler
  <2> QED  BY <1>3, <2>1 DEF Offline
<1>7. CASE usb_listen
  BY <1>3, <1>4, <1>7 DEF usb_listen
<1>8. CASE \/ usb_connect \/ StartTimeout \/ usbdl_handler \/ uart_listen \/ UartListenTimeout
           \/ uart_handshake_handler \/ main \/ UNCHANGED vars
  BY <1>4, <1>8 DEF usb_connect, StartTimeout, usbdl_handler, uart_listen, UartListenTimeout,
     uart_handshake_handler, main, vars
<1>9. CASE Tools
  BY <1>4, <1>9 DEF Tools, Retry, ToolReads, Noise, UsbTokenSent, NextTool, UartTokenSent
<1>10. CASE Time
  BY <1>1, <1>4, <1>10 DEF Time, ListenDeadline, StartDeadline
<1> QED
  BY <1>5, <1>6, <1>7, <1>8, <1>9, <1>10 DEF Next, Device

LEMMA OneMore ==
  \A m, n \in Nat : \A k \in 1..m + n : k > m /\ n <= 1 => n = 1 /\ k = m + 1
OBVIOUS

\* An answer that is new on its way to the tool.
LEMMA AppendedAnswer ==
  ASSUME NEW old \in Seq(Replies), NEW more \in Seq(Replies), Len(more) <= 1,
         Sent(old \o more)
  PROVE  Sent(old) \/ (Len(more) = 1 /\ more[1] = Complement(StartByte(4)))
<1>1. PICK k \in DOMAIN (old \o more) : (old \o more)[k] = Complement(StartByte(4))
  BY DEF Sent
<1>2. Len(old) \in Nat /\ DOMAIN old = 1..Len(old) /\ Len(more) \in Nat
  BY LenProperties
<1>3. old \o more \in Seq(Replies) /\ Len(old \o more) = Len(old) + Len(more)
  BY ConcatProperties
<1>4. k \in 1..Len(old) + Len(more)  BY <1>1, <1>3, LenProperties
<1>5. CASE k <= Len(old)
  <2>1. (old \o more)[k] = old[k]  BY <1>2, <1>4, <1>5, ConcatProperties
  <2>2. k \in DOMAIN old  BY <1>2, <1>4, <1>5
  <2> QED  BY <1>1, <2>1, <2>2, Zenon DEF Sent
<1>6. CASE k > Len(old)
  <2>1. Len(more) = 1 /\ k = Len(old) + 1  BY <1>2, <1>4, <1>6, OneMore
  <2>2. (old \o more)[k] = more[1]  BY <1>2, <1>4, <2>1, ConcatProperties
  <2> QED  BY <1>1, <2>1, <2>2
<1> QED  BY <1>2, <1>4, <1>5, <1>6

\* The complement of the last byte is sent only by the step that enters
\* download mode, and that is never left.
LEMMA LastAnswerStep ==
  ASSUME TypeOK, HeardIsIndex, LastAnswer, [Next]_vars
  PROVE  LastAnswer'
<1> USE DEF given, outcome, tools, counts
<1>1. CASE tx' = <<>>
  <2>1. ~Sent(tx')  BY <1>1 DEF Sent
  <2> QED  BY <2>1 DEF LastAnswer
<1>2. CASE tx' = tx /\ (pc = "commands" => pc' = "commands")
  BY <1>2 DEF LastAnswer
<1>3. CASE usbdl_check_start_command
  <2> DEFINE b == Head(rx)
  <2>1. b \in Bytes /\ tx' = tx \o StartAnswer(b) /\ tx \in Seq(Replies) /\ pc = "start"
    BY <1>3, HeadTailProperties DEF usbdl_check_start_command, TypeOK
  <2>2. start.i \in 0..3  BY <2>1 DEF TypeOK, HeardIsIndex
  <2>3. pc' = IF NextIndex(b) = 4 THEN "commands" ELSE "start"
    BY <1>3 DEF usbdl_check_start_command
  <2>4. StartAnswer(b) \in Seq(Replies) /\ Len(StartAnswer(b)) <= 1
    BY <2>1, StartAnswerType
  <2> HIDE DEF b
  <2>5. ASSUME Sent(tx') PROVE pc' = "commands"
    <3>1. Sent(tx) \/ (Len(StartAnswer(b)) = 1 /\ StartAnswer(b)[1] = Complement(StartByte(4)))
      <4>1. Sent(tx \o StartAnswer(b))  BY <2>1, <2>5
      <4> QED  BY <2>1, <2>4, <4>1, AppendedAnswer
    <3>2. ~Sent(tx)  BY <2>1 DEF LastAnswer
    <3>3. CASE b = StartByte(1) /\ start.i > 0
      BY <3>1, <3>2, <3>3 DEF StartAnswer
    <3>4. CASE ~(b = StartByte(1) /\ start.i > 0) /\ b = Sequence[start.i + 1]
      <4>1. Complement(b) = Complement(StartByte(4))  BY <3>1, <3>2, <3>4 DEF StartAnswer
      <4>2. b = StartByte(4)  BY <4>1 DEF Complement
      <4>3. b = StartByte(start.i + 1)  BY <2>2, <3>4, SequenceIs
      <4>4. start.i + 1 = 4  BY <2>2, <4>2, <4>3, StartBytesDiffer
      <4> QED  BY <2>3, <3>4, <4>4 DEF NextIndex
    <3>5. CASE ~(b = StartByte(1) /\ start.i > 0) /\ b # Sequence[start.i + 1]
      <4>1. PlusOne(b) = Complement(StartByte(4))  BY <3>1, <3>2, <3>5 DEF StartAnswer
      <4> QED  BY <4>1 DEF PlusOne, Complement
    <3> QED  BY <3>3, <3>4, <3>5
  <2> QED  BY <2>5 DEF LastAnswer
<1>4. CASE usbdl_handler
  BY <1>4 DEF usbdl_handler, LastAnswer
<1>5. CASE ToolReads
  <2>1. tx \in Seq(Replies) /\ tx # <<>> /\ tx' = Tail(tx) /\ pc' = pc
    BY <1>5 DEF ToolReads, TypeOK
  <2>2. Len(tx) \in Nat /\ Tail(tx) \in Seq(Replies) /\ Len(Tail(tx)) = Len(tx) - 1
        /\ \A k \in 1..Len(Tail(tx)) : Tail(tx)[k] = tx[k + 1]
    BY <2>1, HeadTailProperties
  <2>3. ASSUME NEW k \in DOMAIN tx', tx'[k] = Complement(StartByte(4)) PROVE Sent(tx)
    <3>1. k \in 1..Len(Tail(tx))  BY <2>1, <2>2, LenProperties
    <3>2. k + 1 \in DOMAIN tx  BY <2>1, <2>2, <3>1, LenProperties
    <3> QED  BY <2>1, <2>2, <2>3, <3>1, <3>2 DEF Sent
  <2> QED  BY <2>1, <2>3 DEF LastAnswer, Sent
<1>6. CASE NoUsb \/ UsbListenTimeout \/ usb_handshake_handler
  BY <1>1, <1>6 DEF NoUsb, UsbListenTimeout, usb_handshake_handler, Offline
<1>7. CASE \/ usb_connect \/ usb_listen \/ StartTimeout \/ uart_listen \/ UartListenTimeout
           \/ uart_handshake_handler \/ main \/ UNCHANGED vars
  BY <1>2, <1>7 DEF usb_connect, usb_listen, StartTimeout, uart_listen, UartListenTimeout,
     uart_handshake_handler, main, vars
<1>8. CASE Noise \/ NextTool
  BY <1>1, <1>8 DEF Noise, NextTool
<1>9. CASE Time \/ UsbTokenSent \/ UartTokenSent \/ \E hurry \in BOOLEAN : Retry(hurry)
  BY <1>2, <1>9 DEF Time, ListenDeadline, StartDeadline, UsbTokenSent, UartTokenSent, Retry
<1> QED
  BY <1>3, <1>4, <1>5, <1>6, <1>7, <1>8, <1>9 DEF Next, Device, Tools

\* The tool counts its fourth answer only when it reads the last one.
LEMMA InStepStep ==
  ASSUME TypeOK, LastAnswer, InStep, [Next]_vars
  PROVE  InStep'
<1> USE DEF given, outcome, tools, counts
<1>1. usb \in [wants : USB_TOOLS, at : Nat]  BY DEF TypeOK
<1>2. CASE usb' = usb /\ (pc = "commands" => pc' = "commands")
  BY <1>2 DEF InStep
<1>3. CASE usb'.at = 0 \/ usb'.wants # "download"
  BY <1>3 DEF InStep
<1>4. CASE ToolReads
  <2>1. /\ pc' = pc /\ tx # <<>> /\ tx \in Seq(Replies) /\ usb.at < 4
        /\ usb' = [usb EXCEPT !.at = IF Head(tx) = Complement(StartByte(@ + 1)) THEN @ + 1 ELSE 0]
    BY <1>4 DEF ToolReads, TypeOK
  <2>2. ASSUME usb'.at = 4 PROVE pc = "commands"
    <3>1. Head(tx) = Complement(StartByte(4)) \* the answer that was awaited
      BY <1>1, <2>1, <2>2
    <3>2. 1 \in DOMAIN tx /\ Head(tx) = tx[1]  BY <2>1
    <3> QED  BY <3>1, <3>2 DEF LastAnswer, Sent
  <2> QED  BY <2>1, <2>2 DEF InStep
<1>5. CASE UsbTokenSent
  <2>1. usb'.wants = usb.wants /\ usb.wants \in TOKENS  BY <1>1, <1>5 DEF UsbTokenSent
  <2> QED  BY <1>3, <2>1, TokensType
<1>6. CASE \E hurry \in BOOLEAN : Retry(hurry)
  <2>1. usb'.at = 0  BY <1>1, <1>6 DEF Retry
  <2> QED  BY <1>3, <2>1
<1>7. CASE NextTool
  BY <1>3, <1>7 DEF NextTool
<1>8. CASE NoUsb \/ UsbListenTimeout \/ usb_handshake_handler
  BY <1>2, <1>8 DEF NoUsb, UsbListenTimeout, usb_handshake_handler
<1>9. CASE \/ usb_connect \/ usb_listen \/ StartTimeout \/ usbdl_check_start_command
           \/ usbdl_handler \/ uart_listen \/ UartListenTimeout
           \/ uart_handshake_handler \/ main \/ UNCHANGED vars
  BY <1>2, <1>9 DEF usb_connect, usb_listen, StartTimeout, usbdl_check_start_command,
     usbdl_handler, uart_listen, UartListenTimeout, uart_handshake_handler, main, vars
<1>10. CASE Time \/ UartTokenSent \/ Noise
  BY <1>2, <1>10 DEF Time, ListenDeadline, StartDeadline, UartTokenSent, Noise
<1> QED
  BY <1>4, <1>5, <1>6, <1>7, <1>8, <1>9, <1>10 DEF Next, Device, Tools

\* The handlers of a whole token: what was agreed before still is, or the new
\* answer is what is agreed.
LEMMA AnswerAgrees ==
  ASSUME NEW port \in Ports, TypeOK, Agreed, bldr_cmd_handler(port)
  PROVE  /\ Agreed'
         /\ \/ answers' = answers /\ g_boot_mode' = g_boot_mode
            \/ /\ Len(answers') = Len(answers) + 1
               /\ \A k \in 1..Len(answers) : answers'[k] = answers[k]
               /\ \/ answers'[Len(answers) + 1].says = g_boot_mode'
                  \/ /\ answers'[Len(answers) + 1].says \notin Modes
                     /\ g_boot_mode' = g_boot_mode
<1>1. answers \in Seq(AnswersToTokens) /\ Len(answers) \in Nat
  BY DEF TypeOK
<1>2. answers' = Answered(port) /\ answers' \in Seq(AnswersToTokens)
  BY <1>1, AnsweredIs DEF bldr_cmd_handler
<1>3. CASE ~Granted
  <2>1. g_boot_mode' = g_boot_mode /\ g_meta_com_type' = g_meta_com_type
    BY <1>3 DEF bldr_cmd_handler
  <2>2. CASE answers' = answers
    BY <2>1, <2>2 DEF Agreed, Grants
  <2>3. CASE answers' = Append(answers, [port |-> port, says |-> Says]) /\ Says \notin Modes
    <3>1. /\ Len(answers') = Len(answers) + 1
          /\ \A k \in 1..Len(answers) : answers'[k] = answers[k]
          /\ answers'[Len(answers) + 1] = [port |-> port, says |-> Says]
      BY <1>1, <2>3
    <3>2. Grants' = Grants /\ \A k \in Grants : answers'[k] = answers[k]
      BY <1>1, <1>2, <2>3, <3>1 DEF Grants
    <3>3. Agreed'  BY <2>1, <3>2 DEF Agreed
    <3> QED  BY <2>1, <2>3, <3>1, <3>3
  <2> QED  BY <1>1, <1>2, <1>3, <2>2, <2>3, AnsweredIs
<1>4. CASE Granted
  <2>1. g_boot_mode' = MODE[Request] /\ g_meta_com_type' = port
    BY <1>4 DEF bldr_cmd_handler
  <2>2. answers' = Append(answers, [port |-> port, says |-> MODE[Request]]) /\ MODE[Request] \in Modes
    BY <1>1, <1>2, <1>4, AnsweredIs
  <2>3. /\ Len(answers') = Len(answers) + 1
        /\ \A k \in 1..Len(answers) : answers'[k] = answers[k]
        /\ answers'[Len(answers) + 1] = [port |-> port, says |-> MODE[Request]]
    BY <1>1, <2>2
  <2>4. Len(answers) + 1 \in Grants' /\ \A k \in Grants' : k <= Len(answers) + 1
    BY <1>1, <1>2, <2>2, <2>3 DEF Grants
  <2>5. Agreed'  BY <2>1, <2>3, <2>4 DEF Agreed
  <2> QED  BY <2>1, <2>3, <2>5
<1> QED  BY <1>3, <1>4

\* A mode is decided by the one answer over USB, or else the one over UART.
LEMMA DecisionStep ==
  ASSUME TypeOK, Decision, MetaIsKept, [Next]_vars
  PROVE  Decision' /\ MetaIsKept'
<1> USE DEF given, outcome, tools, counts
<1>1. answers \in Seq(AnswersToTokens) /\ Len(answers) \in Nat /\ DOMAIN answers = 1..Len(answers)
  BY DEF TypeOK
<1>2. CASE /\ UNCHANGED <<answers, g_boot_mode, g_meta_com_type>>
           /\ \/ pc' = pc
              \/ pc \in Undecided /\ pc' \in Undecided
              \/ pc \in Undecided /\ pc' \in {"uart_listen", "decided"}
              \/ pc = "uart_listen" /\ pc' = "decided"
  <2>1. Agreed' <=> Agreed  BY <1>2 DEF Agreed, Grants
  <2>2. pc \in Undecided => \A k \in DOMAIN answers : FALSE
    BY <1>1 DEF Decision
  <2> QED  BY <1>2, <2>1, <2>2 DEF Decision, MetaIsKept, Undecided, Meta
<1>3. CASE usb_handshake_handler
  <2>1. /\ pc = "usb_listen" /\ bldr_cmd_handler("META_USB_COM") /\ "META_USB_COM" \in Ports
        /\ pc' = IF g_boot_mode' \in Meta THEN "decided" ELSE "uart_listen"
    BY <1>3 DEF usb_handshake_handler, Offline, Ports, Meta
  <2>2. answers = <<>> /\ Agreed  BY <2>1 DEF Decision, Undecided
  <2>3. Len(answers) = 0  BY <2>2
  <2>4. Agreed'  BY <2>1, <2>2, AnswerAgrees
  <2>5. DOMAIN answers' = 1..Len(answers')
    BY <1>1, <2>1, AnsweredIs DEF bldr_cmd_handler
  <2>6. ASSUME NEW k \in DOMAIN answers', answers'[k].says \in Meta
        PROVE  answers'[k].says = g_boot_mode'
    <3>1. answers' # answers  BY <2>2
    <3>2. k = 1  BY <2>1, <2>2, <2>3, <2>5, <3>1, AnswerAgrees
    <3>3. answers'[1].says = g_boot_mode' \/ answers'[1].says \notin Modes
      BY <2>1, <2>2, <2>3, <3>1, AnswerAgrees
    <3> QED  BY <2>6, <3>2, <3>3, ModeType DEF Meta
  <2> QED  BY <2>1, <2>4, <2>6 DEF Decision, MetaIsKept, Undecided, Meta
<1>4. CASE uart_handshake_handler
  <2>1. /\ pc = "uart_listen" /\ bldr_cmd_handler("META_UART_COM") /\ "META_UART_COM" \in Ports
        /\ pc' = "decided"
    BY <1>4 DEF uart_handshake_handler, Ports
  <2>2. Agreed /\ \A k \in DOMAIN answers : answers[k].says \notin Meta
    BY <2>1 DEF Decision, Meta
  <2>3. Agreed'  BY <2>1, <2>2, AnswerAgrees
  <2>4. DOMAIN answers' = 1..Len(answers')
    BY <1>1, <2>1, AnsweredIs DEF bldr_cmd_handler
  <2>5. ASSUME NEW k \in DOMAIN answers', answers'[k].says \in Meta
        PROVE  answers'[k].says = g_boot_mode'
    <3>1. answers' # answers  BY <2>2, <2>5
    <3>2. k \in 1..Len(answers) + 1 /\ (k <= Len(answers) => answers'[k] = answers[k])
      <4>1. /\ Len(answers') = Len(answers) + 1
            /\ \A j \in 1..Len(answers) : answers'[j] = answers[j]
        BY <2>1, <2>2, <3>1, AnswerAgrees
      <4>2. k \in 1..Len(answers')  BY <2>4
      <4> QED  BY <1>1, <4>1, <4>2
    <3>3. k = Len(answers) + 1  BY <1>1, <2>2, <2>5, <3>2
    <3>4. answers'[k].says = g_boot_mode' \/ answers'[k].says \notin Modes
      BY <2>1, <2>2, <3>1, <3>3, AnswerAgrees
    <3> QED  BY <2>5, <3>4, ModeType DEF Meta
  <2> QED  BY <2>1, <2>3, <2>5 DEF Decision, MetaIsKept, Undecided, Meta
<1>5. CASE main
  BY <1>5 DEF main, Decision, MetaIsKept, Undecided
<1>6. CASE NoUsb \/ UsbListenTimeout
  BY <1>2, <1>6 DEF NoUsb, UsbListenTimeout, Offline, Undecided
<1>7. CASE \/ usb_connect \/ usb_listen \/ StartTimeout \/ usbdl_check_start_command
           \/ usbdl_handler \/ uart_listen \/ UartListenTimeout \/ UNCHANGED vars
  BY <1>2, <1>7 DEF usb_connect, usb_listen, StartTimeout, usbdl_check_start_command,
     usbdl_handler, uart_listen, UartListenTimeout, Undecided, vars
<1>8. CASE Tools \/ Time
  BY <1>2, <1>8 DEF Tools, Retry, ToolReads, Noise, UsbTokenSent, NextTool, UartTokenSent,
     Time, ListenDeadline, StartDeadline
<1> QED
  BY <1>3, <1>4, <1>5, <1>6, <1>7, <1>8 DEF Next, Device

-----------------------------------------------------------------------------
(* The theorems.                                                           *)

LEMMA InitInv == Init => IInv
<1> SUFFICES ASSUME Init PROVE IInv
    OBVIOUS
<1>1. TypeOK  BY InitType
<1>2. start = Fresh /\ pc = "usb_connect" /\ tx = <<>> /\ answers = <<>> /\ usb.at = 0
      /\ g_boot_mode = "NORMAL_BOOT" /\ g_meta_com_type = "none"
  BY DEF Init
<1>3. HeardIsIndex  BY <1>2, SubSeqEmpty DEF HeardIsIndex, Fresh
<1>4. LastAnswer /\ InStep  BY <1>2 DEF LastAnswer, Sent, InStep
<1>5. Grants = {}  BY <1>2 DEF Grants
<1>6. Decision /\ MetaIsKept  BY <1>2, <1>5 DEF Decision, Agreed, MetaIsKept
<1> QED  BY <1>1, <1>3, <1>4, <1>6 DEF IInv

LEMMA Inductive == IInv /\ [Next]_vars => IInv'
<1> SUFFICES ASSUME IInv, [Next]_vars PROVE IInv'
    OBVIOUS
<1>1. TypeOK'
  <2>1. CASE Device  BY <2>1, DeviceType DEF IInv
  <2>2. CASE Tools \/ Time  BY <2>2, ToolsType DEF IInv
  <2>3. CASE UNCHANGED vars
    BY <2>3 DEF IInv, TypeOK, vars, given, outcome, tools, counts
  <2> QED  BY <2>1, <2>2, <2>3 DEF Next
<1>2. HeardIsIndex'  BY HeardStep DEF IInv
<1>3. LastAnswer'  BY LastAnswerStep DEF IInv
<1>4. InStep'  BY InStepStep DEF IInv
<1>5. Decision' /\ MetaIsKept'  BY DecisionStep DEF IInv
<1> QED  BY <1>1, <1>2, <1>3, <1>4, <1>5 DEF IInv

LEMMA Invariance == Spec => []IInv
BY InitInv, Inductive, PTL DEF Spec

\* Every variable keeps its type, for tokens of any length.
THEOREM TypeCorrect == Spec => []TypeOK
<1>1. IInv => TypeOK  BY DEF IInv
<1> QED  BY <1>1, Invariance, PTL

\* usbdl_handler begins its loop of commands only after the four bytes of the
\* start sequence one after the other, whatever was sent before them.
THEOREM StartComplete == Spec => []StartIsComplete
<1>1. IInv => StartIsComplete
  <2> SUFFICES ASSUME IInv, pc = "commands" PROVE start.heard = Sequence
      BY DEF StartIsComplete
  <2>1. start.heard = SubSeq(Sequence, 1, 4)  BY DEF IInv, HeardIsIndex
  <2>2. SubSeq(Sequence, 1, 4) = Sequence  BY SequenceIs, SubSeqFull
  <2> QED  BY <2>1, <2>2
<1> QED  BY <1>1, Invariance, PTL

\* A tool that has read the four answers has a device in download mode.
THEOREM ToolInStep == Spec => []InStep
<1>1. IInv => InStep  BY DEF IInv
<1> QED  BY <1>1, Invariance, PTL

\* What bldr_handshake leaves in g_boot_mode and g_meta_com_type is what its
\* last granting answer told the tool at that port.
THEOREM ModeAgreed == Spec => []ModeIsAgreed
<1>1. IInv => ModeIsAgreed  BY DEF IInv, Decision, Agreed, ModeIsAgreed
<1> QED  BY <1>1, Invariance, PTL

\* A META mode granted over one port is not displaced over the other.
THEOREM MetaKept == Spec => []MetaIsKept
<1>1. IInv => MetaIsKept  BY DEF IInv
<1> QED  BY <1>1, Invariance, PTL
=============================================================================
