----------------------------- MODULE Handshake ------------------------------
(***************************************************************************)
(* bldr_handshake: the tools at the other end of the cables before the     *)
(* boot goes on.  Over USB a tool either sends the four bytes that start   *)
(* download mode (usbdl_check_start_command) or a token that selects a     *)
(* boot mode; over UART there are tokens only.  Both sides give up waiting *)
(* and begin again, so that bytes and answers meet a peer that is          *)
(* elsewhere in the sequence.                                              *)
(*                                                                         *)
(* A byte is <<"start", k>>, the k-th byte of the start sequence, or       *)
(* <<t, k>>, the k-th piece of token t.  The tools are not part of the     *)
(* repository: their actions are what the protocol expects of them.        *)
(***************************************************************************)
EXTENDS Integers, Sequences

CONSTANTS
  TOKEN_SZ,   \* HSHK_TOKEN_SZ: pieces of a token
  TOKENS,     \* the tokens the tools may send
  MaxSlips,   \* bound: start deadlines that pass though the tool is prompt
  MaxHaste    \* bound: answers the tool does not wait for

\* The tokens of meta.h and the boot mode each selects.
MODE == [META     |-> "META_BOOT",        FACT     |-> "FACTORY_BOOT",
         ADVEMETA |-> "ADVMETA_BOOT",     FACTORYM |-> "ATE_FACTORY_BOOT",
         FASTBOOT |-> "FASTBOOT",         ATNBOOT  |-> "NORMAL_BOOT"]

ASSUME HandshakeAssumption ==
  /\ TOKEN_SZ \in Nat \ {0}
  /\ TOKENS \subseteq DOMAIN MODE \cup {"AT", "unknown"}
  /\ {MaxSlips, MaxHaste} \subseteq Nat

VARIABLES
  forced,          \* platform_com_wait_forever_check: no timeouts over USB
  sla,             \* seclib_sla_enabled: attr gets CMD_HNDL_ATTR_COM_FORBIDDEN
  pc,              \* where the processor is
  late,            \* the deadline of usb_listen has passed
  start,           \* usbdl_check_start_command: its index i, whether its
                   \* 300 ms have passed; history: what of the
                   \* sequence the bytes it has read end with
  buf, c,          \* what the listening call has collected; c of uart_listen
  g_boot_mode, g_meta_com_type,
  answers,         \* history: the answers to tokens, with the port of each
  rx, tx,          \* bytes on their way from and to the USB tool
  fifo,            \* bytes in the receive FIFO of the UART
  usb, com,        \* the tools: what each wants and how far it is
  slips, haste

given   == <<forced, sla>>
outcome == <<g_boot_mode, g_meta_com_type, answers>>
tools   == <<usb, com>>
counts  == <<slips, haste>>
vars    == <<given, pc, late, start, buf, c, outcome, rx, tx, fifo, tools, counts>>

StartByte(k) == <<"start", k>>
Sequence     == [k \in 1..4 |-> StartByte(k)]         \* a0 0a 50 05
Pieces(t)    == [k \in 1..TOKEN_SZ |-> <<t, k>>]

\* Answers to a byte.
Complement(b) == <<"complement", b>>
PlusOne(b)    == <<"plus_one", b>>
Echo(b)       == <<"echo", b>>

Least(a, b) == IF a < b THEN a ELSE b

\* The longest end of s that is a beginning of the sequence.
EndsWith(s, k) == k <= Len(s) /\ SubSeq(s, Len(s) - k + 1, Len(s)) = SubSeq(Sequence, 1, k)
Matched(s) ==
  SubSeq(Sequence, 1, CHOOSE k \in 0..4 : EndsWith(s, k) /\ \A j \in k + 1..4 : ~EndsWith(s, j))

USB_TOOLS == {"none", "download", "noise"} \cup TOKENS
Fresh     == [i |-> 0, late |-> FALSE, heard |-> <<>>]

Init == /\ forced \in BOOLEAN /\ sla \in BOOLEAN
        /\ pc = "usb_connect" /\ late = FALSE /\ start = Fresh
        /\ buf = <<>> /\ c = <<>>
        /\ g_boot_mode = "NORMAL_BOOT" /\ g_meta_com_type = "none" /\ answers = <<>>
        /\ rx = <<>> /\ tx = <<>> /\ fifo = <<>>
        /\ usb \in [wants : USB_TOOLS, at : {0}]
        /\ com = [wants |-> "none", at |-> 0]
        /\ slips = 0 /\ haste = 0

-----------------------------------------------------------------------------
(* usb_handshake and usb_listen.                                           *)

usb_connect ==
  /\ pc = "usb_connect" /\ usb.wants # "none"
  /\ pc' = "usb_listen"
  /\ UNCHANGED <<given, late, start, buf, c, outcome, rx, tx, fifo, tools, counts>>

\* usb_service_offline; uart_handshake_handler goes on only if no META tool
\* has been there.
Offline ==
  /\ pc' = IF g_boot_mode' \in {"META_BOOT", "ADVMETA_BOOT"} THEN "decided" ELSE "uart_listen"
  /\ buf' = <<>> /\ rx' = <<>> /\ tx' = <<>> /\ late' = FALSE /\ start' = Fresh

\* No cable, or no host that enumerates the device in time.
NoUsb ==
  /\ pc = "usb_connect" /\ ~forced
  /\ UNCHANGED outcome /\ Offline
  /\ UNCHANGED <<given, c, fifo, tools, counts>>

\* What has arrived, up to the rest of the token.
Chunk == SubSeq(rx, 1, Least(Len(rx), TOKEN_SZ - Len(buf)))

\* A chunk that begins with a0 starts usbdl_handler, and is dropped whole
\* and unanswered.
usb_listen ==
  /\ pc = "usb_listen" /\ ~late /\ Len(buf) < TOKEN_SZ /\ rx # <<>>
  /\ rx' = SubSeq(rx, Len(Chunk) + 1, Len(rx))
  /\ IF Head(Chunk) = StartByte(1)
     THEN pc' = "start" /\ start' = Fresh /\ UNCHANGED buf
     ELSE buf' = buf \o Chunk /\ UNCHANGED <<pc, start>>
  /\ UNCHANGED <<given, late, c, outcome, tx, fifo, tools, counts>>

UsbListenTimeout ==
  /\ pc = "usb_listen" /\ late /\ Len(buf) < TOKEN_SZ
  /\ UNCHANGED outcome /\ Offline
  /\ UNCHANGED <<given, c, fifo, tools, counts>>

-----------------------------------------------------------------------------
(* usbdl_check_start_command and, after it, the loop of usbdl_handler.     *)

\* An extra a0 in the middle sets the index back, without an answer.
\* Mutant: it is skipped, and the index kept.
NextIndexKept(cmd) ==
  IF cmd = StartByte(1) /\ start.i > 0 THEN start.i
  ELSE IF cmd = Sequence[start.i + 1] THEN start.i + 1 ELSE 0
NextIndex(cmd) ==
  IF cmd = StartByte(1) /\ start.i > 0 THEN 1
  ELSE IF cmd = Sequence[start.i + 1] THEN start.i + 1 ELSE 0

StartAnswer(cmd) ==
  IF cmd = StartByte(1) /\ start.i > 0 THEN <<>>
  ELSE IF cmd = Sequence[start.i + 1] THEN <<Complement(cmd)>> ELSE <<PlusOne(cmd)>>

\* Mutant: the deadline is looked at once more after the last answer.
CheckStartThenTimer ==
  /\ pc = "start" /\ ~start.late /\ rx # <<>>
  /\ rx' = Tail(rx) /\ tx' = tx \o StartAnswer(Head(rx))
  /\ start' = [start EXCEPT !.i = NextIndex(Head(rx)), !.heard = Matched(Append(@, Head(rx)))]
  /\ pc' \in IF NextIndex(Head(rx)) = 4 THEN {"commands", "usb_listen"} ELSE {"start"}
  /\ UNCHANGED <<given, late, buf, c, outcome, fifo, tools, counts>>
usbdl_check_start_command ==
  /\ pc = "start" /\ ~start.late /\ rx # <<>>
  /\ rx' = Tail(rx) /\ tx' = tx \o StartAnswer(Head(rx))
  /\ start' = [start EXCEPT !.i = NextIndex(Head(rx)), !.heard = Matched(Append(@, Head(rx)))]
  /\ pc' = IF NextIndex(Head(rx)) = 4 THEN "commands" ELSE "start"
  /\ UNCHANGED <<given, late, buf, c, outcome, fifo, tools, counts>>

\* Mutants: usb_listen measures its time from here on; never.
StartTimeoutAnew ==
  /\ pc = "start" /\ start.late
  /\ pc' = "usb_listen" /\ late' = FALSE
  /\ UNCHANGED <<given, start, buf, c, outcome, rx, tx, fifo, tools, counts>>
StartTimeoutNever == FALSE /\ UNCHANGED vars
StartTimeout ==
  /\ pc = "start" /\ start.late
  /\ pc' = "usb_listen"
  /\ UNCHANGED <<given, late, start, buf, c, outcome, rx, tx, fifo, tools, counts>>

\* Each command is echoed; none of the bytes here is a command.  There is
\* no timeout.
usbdl_handler ==
  /\ pc = "commands" /\ rx # <<>>
  /\ rx' = Tail(rx) /\ tx' = Append(tx, Echo(Head(rx)))
  /\ UNCHANGED <<given, pc, late, start, buf, c, outcome, fifo, tools, counts>>

-----------------------------------------------------------------------------
(* The token: bldr_cmd_handler, and bldr_handshake with its result.        *)

FORBIDDEN == {"META", "FACT", "ADVEMETA", "FACTORYM"}

\* CMD_MATCH: the whole token, or the prefix "AT+" that any AT command has.
Request ==
  IF \E t \in DOMAIN MODE : buf = Pieces(t)
  THEN CHOOSE t \in DOMAIN MODE : buf = Pieces(t)
  ELSE IF Head(buf) \in {<<"AT", 1>>, <<"ATNBOOT", 1>>} THEN "AT" ELSE "unknown"

Granted == Request \in DOMAIN MODE /\ ~(sla /\ Request \in FORBIDDEN)

Says == IF Request = "AT" THEN "UNKONWN"
        ELSE IF sla /\ Request \in FORBIDDEN THEN "FORBIDDEN" ELSE MODE[Request]

Answered(port) ==
  IF Request = "unknown" THEN answers ELSE Append(answers, [port |-> port, says |-> Says])

\* The mode is set after the answer; META's parameters and DISCONNECT may
\* fail to come without any effect on it.
\* Mutant: the port is noted whatever the result.
CmdHandlerPort(port) ==
  /\ answers' = Answered(port)
  /\ g_boot_mode' = IF Granted THEN MODE[Request] ELSE g_boot_mode
  /\ g_meta_com_type' = port
bldr_cmd_handler(port) ==
  /\ answers' = Answered(port)
  /\ g_boot_mode' = IF Granted THEN MODE[Request] ELSE g_boot_mode
  /\ g_meta_com_type' = IF Granted THEN port ELSE g_meta_com_type

usb_handshake_handler ==
  /\ pc = "usb_listen" /\ Len(buf) = TOKEN_SZ
  /\ bldr_cmd_handler("META_USB_COM") /\ Offline
  /\ UNCHANGED <<given, c, fifo, tools, counts>>

\* GetUARTBytes leaves c as it was if no byte comes within 10 ms, and a c
\* that is not 0 is stored again.
uart_listen ==
  /\ pc = "uart_listen" /\ Len(buf) < TOKEN_SZ
  /\ IF fifo # <<>> THEN c' = <<Head(fifo)>> /\ fifo' = Tail(fifo) ELSE UNCHANGED <<c, fifo>>
  /\ buf' = buf \o c'
  /\ UNCHANGED <<given, pc, late, start, outcome, rx, tx, tools, counts>>

\* The rest of UART_SYNC_TIME is over.
UartListenTimeout ==
  /\ pc = "uart_listen" /\ Len(buf) < TOKEN_SZ
  /\ pc' = "decided"
  /\ UNCHANGED <<given, late, start, buf, c, outcome, rx, tx, fifo, tools, counts>>

uart_handshake_handler ==
  /\ pc = "uart_listen" /\ Len(buf) = TOKEN_SZ
  /\ bldr_cmd_handler("META_UART_COM") /\ pc' = "decided"
  /\ UNCHANGED <<given, late, start, buf, c, rx, tx, fifo, tools, counts>>

\* main: recovery, if ab_ota_boot_check has decided on it before, is not
\* undone by a tool.
main ==
  /\ pc = "decided" /\ pc' = "boot"
  /\ \E ab_boot_mode \in {"NORMAL_BOOT", "RECOVERY_BOOT"} :
       g_boot_mode' = IF ab_boot_mode = "RECOVERY_BOOT" THEN ab_boot_mode ELSE g_boot_mode
  /\ UNCHANGED <<given, late, start, buf, c, g_meta_com_type, answers, rx, tx, fifo, tools, counts>>

-----------------------------------------------------------------------------
(* The tools and the time.                                                 *)

Connected == pc \in {"usb_listen", "start", "commands"}
Quiet     == rx = <<>> /\ tx = <<>>

\* A download tool begins, and begins again when no answer comes.
Retry(hurry) ==
  /\ Connected /\ usb.wants = "download" /\ usb.at < 4
  /\ IF hurry THEN ~Quiet /\ haste < MaxHaste ELSE Quiet
  /\ haste' = IF hurry THEN haste + 1 ELSE haste
  /\ rx' = Append(rx, StartByte(1)) /\ usb' = [usb EXCEPT !.at = 0]
  /\ UNCHANGED <<given, pc, late, start, buf, c, outcome, tx, fifo, com, slips>>

\* The next byte for the right answer, the first one for any other.
ToolReads ==
  /\ Connected /\ usb.wants = "download" /\ usb.at < 4 /\ tx # <<>>
  /\ tx' = Tail(tx)
  /\ usb' = [usb EXCEPT !.at = IF Head(tx) = Complement(StartByte(@ + 1)) THEN @ + 1 ELSE 0]
  /\ rx' = IF usb'.at = 4 THEN rx ELSE Append(rx, StartByte(usb'.at + 1))
  /\ UNCHANGED <<given, pc, late, start, buf, c, outcome, fifo, com, counts>>

\* Not a tool, or one that never reads: start bytes in any order.
Noise ==
  /\ Connected /\ usb.wants = "noise" /\ rx = <<>>
  /\ (\E k \in 1..4 : rx' = <<StartByte(k)>>) /\ tx' = <<>>
  /\ UNCHANGED <<given, pc, late, start, buf, c, outcome, fifo, tools, counts>>

UsbTokenSent ==
  /\ Connected /\ usb.wants \in TOKENS /\ usb.at < TOKEN_SZ
  /\ rx' = Append(rx, <<usb.wants, usb.at + 1>>) /\ usb' = [usb EXCEPT !.at = @ + 1]
  /\ UNCHANGED <<given, pc, late, start, buf, c, outcome, tx, fifo, com, counts>>

\* The user ends one tool and may start another on the same cable.
NextTool ==
  /\ Connected /\ usb.wants \in {"download", "noise"} /\ usb.at < 4
  /\ usb' \in [wants : {"none"} \cup TOKENS, at : {0}] /\ tx' = <<>>
  /\ UNCHANGED <<given, pc, late, start, buf, c, outcome, rx, fifo, com, counts>>

\* The UART tool has had its READY from uart_handshake_init; what it sends
\* before uart_listen begins waits in the FIFO, as if sent now.
UartTokenSent ==
  /\ pc = "uart_listen" /\ com.at < TOKEN_SZ
  /\ \E t \in IF com.at = 0 THEN TOKENS ELSE {com.wants} :
       com' = [wants |-> t, at |-> com.at + 1] /\ fifo' = Append(fifo, <<t, com.at + 1>>)
  /\ UNCHANGED <<given, pc, late, start, buf, c, outcome, rx, tx, usb, counts>>

ListenDeadline ==
  /\ pc \in {"usb_listen", "start"} /\ ~forced /\ ~late
  /\ late' = TRUE
  /\ UNCHANGED <<given, pc, start, buf, c, outcome, rx, tx, fifo, tools, counts>>

\* A tool that goes on, or has yet to repeat the a0 that usb_listen dropped,
\* is faster than 300 ms, but for MaxSlips times.
Prompt == usb.wants = "download" /\ (~Quiet \/ start.heard = <<>>)

StartDeadline(slip) ==
  /\ pc = "start" /\ ~start.late
  /\ IF slip THEN Prompt /\ slips < MaxSlips ELSE ~Prompt
  /\ slips' = IF slip THEN slips + 1 ELSE slips
  /\ start' = [start EXCEPT !.late = TRUE]
  /\ UNCHANGED <<given, pc, late, buf, c, outcome, rx, tx, fifo, tools, haste>>

-----------------------------------------------------------------------------
Device == \/ usb_connect \/ NoUsb \/ usb_listen \/ UsbListenTimeout
          \/ usbdl_check_start_command \/ StartTimeout \/ usbdl_handler
          \/ usb_handshake_handler
          \/ uart_listen \/ UartListenTimeout \/ uart_handshake_handler
          \/ main

Tools == \/ \E hurry \in BOOLEAN : Retry(hurry)
         \/ ToolReads \/ Noise \/ UsbTokenSent \/ NextTool \/ UartTokenSent

Time == ListenDeadline \/ \E slip \in BOOLEAN : StartDeadline(slip)

Next == Device \/ Tools \/ Time

\* The processor runs and time passes, the 300 ms also while a tool repeats
\* itself; a download tool reads what is there and repeats its first byte
\* if nothing comes.  Nothing is assumed of the other tools.
Fairness == /\ WF_vars(Device) /\ WF_vars(ListenDeadline) /\ SF_vars(StartDeadline(FALSE))
            /\ WF_vars(ToolReads) /\ WF_vars(Retry(FALSE))

Spec == Init /\ [][Next]_vars /\ Fairness

-----------------------------------------------------------------------------
(* Properties.                                                             *)

Bytes   == ({"start"} \X (1..4)) \cup (TOKENS \X (1..TOKEN_SZ))
Replies == {"complement", "plus_one", "echo"} \X Bytes
Ports   == {"META_USB_COM", "META_UART_COM"}
Modes   == {MODE[t] : t \in DOMAIN MODE}

AnswersToTokens == [port : Ports, says : Modes \cup {"UNKONWN", "FORBIDDEN"}]

TypeOK ==
  /\ forced \in BOOLEAN /\ sla \in BOOLEAN /\ late \in BOOLEAN
  /\ pc \in {"usb_connect", "usb_listen", "start", "commands", "uart_listen", "decided", "boot"}
  /\ start \in [i : 0..4, late : BOOLEAN, heard : Seq(Bytes)]
  /\ buf \in Seq(Bytes) /\ Len(buf) <= TOKEN_SZ /\ c \in Seq(Bytes) /\ Len(c) <= 1
  /\ g_boot_mode \in Modes \cup {"RECOVERY_BOOT"} /\ g_meta_com_type \in Ports \cup {"none"}
  /\ answers \in Seq(AnswersToTokens)
  /\ rx \in Seq(Bytes) /\ tx \in Seq(Replies) /\ fifo \in Seq(Bytes)
  /\ usb \in [wants : USB_TOOLS, at : Nat] /\ com \in [wants : {"none"} \cup TOKENS, at : Nat]
  /\ com.at > 0 => com.wants \in TOKENS

\* Download mode is entered by the four bytes of usbdl_check_start_command one
\* after the other, however many came before, in whatever order, and however
\* often the sequence was begun.
StartIsComplete == pc = "commands" => start.heard = Sequence

\* A tool that has all four answers has a device in download mode: no deadline
\* takes usbdl_check_start_command away between its last answer and its result.
InStep == usb.wants = "download" /\ usb.at = 4 => pc = "commands"

\* The mode that boots, and the port handed to the next stage, are those of
\* the last tool whose request was granted by its answer.
Grants == {k \in DOMAIN answers : answers[k].says \in Modes}
ModeIsAgreed ==
  pc = "decided" =>
    \/ Grants = {} /\ g_boot_mode = "NORMAL_BOOT" /\ g_meta_com_type = "none"
    \/ \E last \in Grants :
         /\ \A k \in Grants : k <= last
         /\ answers[last] = [port |-> g_meta_com_type, says |-> g_boot_mode]

\* A META tool on USB that has its answer is not displaced by a UART tool
\* whose token has been waiting in the FIFO (uart_handshake_handler).
MetaIsKept ==
  \A k \in DOMAIN answers :
    pc = "decided" /\ answers[k].says \in {"META_BOOT", "ADVMETA_BOOT"}
      => g_boot_mode = answers[k].says

\* Unless it was forced to wait, the preloader gets through the handshake or
\* into download mode, whatever the tools send (usb_listen's deadline counts
\* on while usbdl_handler is tried).
BootGoesOn == (~forced) ~> (pc \in {"boot", "commands"})

\* A download tool that goes on trying reaches download mode, though the two
\* sides give up at different times and late answers meet the next attempt;
\* and it knows it, unless it did not wait for an answer.
StartIsReached ==
  (forced /\ usb.wants = "download")
    ~> (usb.wants # "download" \/ (pc = "commands" /\ (haste > 0 \/ usb.at = 4)))

=============================================================================
