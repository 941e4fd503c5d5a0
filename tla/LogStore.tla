------------------------------ MODULE LogStore -------------------------------
(***************************************************************************)
(* log_store_pl.c: the log of each boot is kept over a warm reset.  SRAM   *)
(* holds the headers, DRAM the log of this boot and, behind it, the two    *)
(* halves of the mirror with the logs of the boots before; at some reboots *)
(* the mirror is copied to the end of the expdb partition.                 *)
(*                                                                         *)
(* A watchdog reset may come between any two steps.  It keeps SRAM and     *)
(* DRAM, so that the next boot finds the headers in whatever state they    *)
(* were; losing power loses both.                                          *)
(***************************************************************************)
EXTENDS Integers, FiniteSets

CONSTANTS
  HALF,       \* LOG_STORE_SIZE_MIRROR / 2
  FULL,       \* LOG_STORE_SIZE
  TOP,        \* 3 in code: saves before the schedule thins out
  SCALE,      \* 5 in code
  MaxBoots,   \* bound: boots
  MaxPower,   \* bound: losses of power
  MaxFaults   \* bound: failures of storage and of the allocation

ASSUME SizesAssumption ==
  /\ {HALF, FULL, TOP, SCALE, MaxBoots} \subseteq Nat \ {0} /\ HALF <= FULL
  /\ {MaxPower, MaxFaults} \subseteq Nat

VARIABLES
  sram,        \* sram_log_header
  buf,         \* the log in DRAM: the boot that wrote it, and its length
  mirror,      \* the contents of the two halves
  expdb,       \* the mirror as last written to the partition
  log_store_status,
  pc, boot,
  logged,      \* the logs of the last two boots that had one, as a half can hold them
  rough,       \* boots in a row that logged nothing
  calm,        \* boots in a row that did, without a fault or a reset within
  owed,        \* 1 while a save that was due has not been completed
  power, faults

memory == <<sram, buf, mirror, expdb>>
history == <<logged, rough, calm, owed>>
vars == <<memory, log_store_status, pc, boot, history, power, faults>>

Halves == {0, 1}
Blank == [of |-> 0, n |-> 0]
Log(b, n) == [of |-> b, n |-> n]

SIG == 1                 \* of each header, the magic number that makes it valid
NEED_SAVE_TO_EMMC == 4   \* the only flag that is read

\* dram_buf[LOG_PL_LK]; addr is 0, 1 or, where the reservation moved, 2.
NoBuffer == [sig |-> 0, flag |-> 0, addr |-> 0, mirrorAddr |-> 0]
ZeroSram == [sig |-> 0, reboot_count |-> 0, save_to_emmc |-> 0, dram |-> NoBuffer,
             cur  |-> [sig |-> 0, n |-> 0],
             mlog |-> [sig |-> 0, addr |-> 0, count |-> 0, size |-> [h \in Halves |-> 0]]]

Init == /\ sram = ZeroSram /\ buf = Blank /\ mirror = [h \in Halves |-> Blank]
        /\ expdb = [h \in Halves |-> Blank] /\ log_store_status = "NOT_READY"
        /\ pc = "log_store_init" /\ boot = 1
        /\ logged = <<Blank, Blank>> /\ rough = 0 /\ calm = 0 /\ owed = 0
        /\ power = 0 /\ faults = 0

At(p) == pc = p
Fault == faults < MaxFaults /\ faults' = faults + 1 /\ calm' = 0
Sound == UNCHANGED <<faults, calm>>

-----------------------------------------------------------------------------
logbuf_valid == sram.cur.sig = SIG
mirrorbuf_valid(s) == s.mlog.sig = SIG /\ s.mlog.addr = s.dram.mirrorAddr
BufferKept == sram.dram.sig = SIG /\ sram.dram.addr # 0

log_store_init ==
  /\ At("log_store_init")
  /\ sram' = IF sram.sig = SIG THEN sram ELSE [ZeroSram EXCEPT !.sig = SIG]
  /\ pc' = "log_to_mirror_buffer"
  /\ UNCHANGED <<buf, mirror, expdb, log_store_status, boot, history, power, faults>>

\* "both buffer was filled with logs"
Filled == sram.mlog.count > 0 /\ sram.mlog.size[1] > 0

log_to_mirror_buffer ==
  /\ At("log_to_mirror_buffer")
  /\ pc' = IF BufferKept /\ logbuf_valid /\ mirrorbuf_valid(sram)
           THEN IF Filled THEN "clear_0" ELSE "copy_log"
           ELSE "log_to_emmc"
  /\ UNCHANGED <<memory, log_store_status, boot, history, power, faults>>

\* The move, one call of memset or memcpy or one assignment a step.
MirrorStep(at, next, m, s) ==
  /\ At(at) /\ pc' = next /\ mirror' = m /\ sram' = s
  /\ UNCHANGED <<buf, expdb, log_store_status, boot, history, power, faults>>

SetSize(h, n) == [sram EXCEPT !.mlog.size[h] = n]
Clear0  == MirrorStep("clear_0", "move", [mirror EXCEPT ![0] = Blank], sram)
Move    == MirrorStep("move", "size_0", [mirror EXCEPT ![0] = mirror[1]], sram)
Size0   == MirrorStep("size_0", "clear_1", mirror, SetSize(0, sram.mlog.size[1]))
Clear1  == MirrorStep("clear_1", "copy_log", [mirror EXCEPT ![1] = Blank], sram)

\* m_log, chosen by the count the call began with; a longer log is cut.
TargetLate == IF sram.mlog.count > 1 THEN 1 ELSE 0    \* mutant
Target == IF sram.mlog.count > 0 THEN 1 ELSE 0
Kept == IF sram.cur.n > HALF THEN HALF ELSE sram.cur.n
CopyLog == MirrorStep("copy_log", IF sram.cur.n > 0 THEN "size" ELSE "log_to_emmc",
                      IF sram.cur.n > 0 THEN [mirror EXCEPT ![Target] = Log(buf.of, Kept)] ELSE mirror,
                      sram)
SizeLog == MirrorStep("size", "count", mirror, SetSize(Target, Kept))
Counted == MirrorStep("count", "log_to_emmc", mirror, [sram EXCEPT !.mlog.count = @ + 1])

-----------------------------------------------------------------------------
(* log_to_emmc.  A failing write returns with the schedule as it was.      *)

Due == sram.reboot_count + 1 >= sram.save_to_emmc

log_to_emmc ==
  /\ At("log_to_emmc")
  /\ IF BufferKept /\ sram.dram.flag = NEED_SAVE_TO_EMMC
     THEN /\ sram' = [sram EXCEPT !.reboot_count = @ + 1]
          /\ pc' = IF logbuf_valid /\ Due THEN "part_get" ELSE "clear_header"
          /\ owed' = IF logbuf_valid /\ Due THEN 1 ELSE owed
     ELSE UNCHANGED <<sram, owed>> /\ pc' = "clear_header"
  /\ UNCHANGED <<buf, mirror, expdb, log_store_status, boot, logged, rough, calm, power, faults>>

\* Without the partition nothing is written, and the schedule moves on.
PartGet ==
  /\ At("part_get")
  /\ \/ Sound /\ pc' = "write_prefix" /\ UNCHANGED owed
     \/ Fault /\ pc' = "clear_header" /\ UNCHANGED owed   \* blkdev_get
     \/ Fault /\ pc' = "schedule" /\ owed' = 0
  /\ UNCHANGED <<memory, log_store_status, boot, logged, rough, power>>

WriteIgnored(at, next, area) ==                       \* mutant
  /\ At(at)
  /\ \/ Sound /\ pc' = next /\ expdb' = area
     \/ Fault /\ pc' = "schedule" /\ expdb' \in {expdb, area}
  /\ UNCHANGED <<sram, buf, mirror, log_store_status, boot, logged, rough, owed, power>>

Write(at, next, area) ==
  /\ At(at)
  /\ \/ Sound /\ pc' = next /\ expdb' = area
     \/ Fault /\ pc' = "clear_header" /\ expdb' \in {expdb, area}
  /\ UNCHANGED <<sram, buf, mirror, log_store_status, boot, logged, rough, owed, power>>

\* The mirror is taken from where the header says it is.
WritePrefix  == Write("write_prefix", "write_mirror", expdb)
WriteMirror  == Write("write_mirror", "write_others", IF sram.dram.mirrorAddr = 0
                                                      THEN [h \in Halves |-> Blank] ELSE mirror)
\* The logs of ATF and of the early kernel, where there are any.
WriteOthers  == Write("write_others", "write_end", expdb)
WriteEnd     == Write("write_end", "write_postfix", expdb)
WritePostfix == /\ At("write_postfix")
                /\ \/ Sound /\ pc' = "schedule" /\ owed' = 0
                   \/ Fault /\ pc' = "clear_header" /\ UNCHANGED owed
                /\ UNCHANGED <<memory, log_store_status, boot, logged, rough, power>>

\* "save the top 3 times, after that, 10 times scale"
NextSaveAlways(s) == SCALE * s.reboot_count              \* mutant
NextSave(s) == IF s.reboot_count >= TOP THEN SCALE * s.reboot_count ELSE s.save_to_emmc
Schedule ==
  /\ At("schedule") /\ pc' = "clear_header"
  /\ sram' = [sram EXCEPT !.save_to_emmc = NextSave(sram)]
  /\ UNCHANGED <<buf, mirror, expdb, log_store_status, boot, history, power, faults>>

-----------------------------------------------------------------------------
(* The rest of log_store_init: a buffer for this boot.                     *)

ClearHeader ==
  /\ At("clear_header") /\ pc' = "mblock_reserve_ext"
  /\ sram' = [sram EXCEPT !.dram = [NoBuffer EXCEPT !.sig = SIG]]
  /\ UNCHANGED <<buf, mirror, expdb, log_store_status, boot, history, power, faults>>

Same(a) == sram.mlog.sig = SIG => sram.mlog.addr = a

\* The reservation fails, or finds the place of the boot before or another.
mblock_reserve_ext ==
  /\ At("mblock_reserve_ext")
  /\ \/ /\ Fault /\ pc' = "run" /\ log_store_status' = "ALLOC_ERROR"
        /\ UNCHANGED <<memory, logged>>
     \/ \E a \in {1, 2} :
          /\ IF Same(a) THEN Sound ELSE Fault
          /\ pc' = "fill_header" /\ buf' = Blank
          /\ sram' = [sram EXCEPT !.dram = [@ EXCEPT !.addr = a, !.flag = NEED_SAVE_TO_EMMC]]
          /\ logged' = IF Same(a) THEN logged ELSE <<Blank, Blank>>
          /\ UNCHANGED <<mirror, expdb, log_store_status>>
  /\ UNCHANGED <<boot, rough, owed, power>>

\* Behind another buffer lies another mirror, with nothing in it.
FillHeader ==
  /\ At("fill_header") /\ pc' = "format_log_buff"
  /\ sram' = [sram EXCEPT !.dram.mirrorAddr = sram.dram.addr]
  /\ mirror' = IF Same(sram.dram.addr) THEN mirror ELSE [h \in Halves |-> Blank]
  /\ UNCHANGED <<buf, expdb, log_store_status, boot, history, power, faults>>

FormattedAlways(s) ==                                 \* mutant
  [s EXCEPT !.mlog = [sig |-> SIG, addr |-> s.dram.mirrorAddr, count |-> 0,
                      size |-> [h \in Halves |-> 0]]]
Formatted(s) ==
  IF mirrorbuf_valid(s) THEN s
  ELSE [s EXCEPT !.mlog = [sig |-> SIG, addr |-> s.dram.mirrorAddr, count |-> 0,
                           size |-> [h \in Halves |-> 0]]]

format_log_buff ==
  /\ At("format_log_buff") /\ pc' = "run" /\ log_store_status' = "READY"
  /\ sram' = Formatted([sram EXCEPT !.cur = [sig |-> SIG, n |-> 0]])
  /\ UNCHANGED <<buf, mirror, expdb, boot, history, power, faults>>

\* Characters of this boot, by the preloader and then by lk.
pl_log_store ==
  /\ At("run") /\ log_store_status = "READY" /\ logbuf_valid /\ mirrorbuf_valid(sram)
  /\ buf' = Log(boot, buf.n + 1)
  /\ sram' = [sram EXCEPT !.cur.n = @ + 1]
  /\ log_store_status' = IF sram'.cur.n >= FULL THEN "FULL" ELSE log_store_status
  /\ UNCHANGED <<mirror, expdb, pc, boot, history, power, faults>>

-----------------------------------------------------------------------------
Again == /\ boot < MaxBoots /\ boot' = boot + 1
         /\ pc' = "log_store_init" /\ log_store_status' = "NOT_READY"

\* A warm reset, at any step.
Reset ==
  /\ Again
  /\ LET spoke == At("run") /\ sram.cur.n > 0 /\ log_store_status # "ALLOC_ERROR"
     IN  /\ logged' = IF spoke THEN <<logged[2], Log(boot, Kept)>> ELSE logged
         /\ rough'  = IF spoke THEN 0 ELSE rough + 1
         /\ calm'   = IF spoke THEN calm + 1 ELSE 0
  /\ UNCHANGED <<memory, owed, power, faults>>

PowerLoss ==
  /\ Again /\ power < MaxPower /\ power' = power + 1
  /\ sram' = ZeroSram /\ buf' = Blank /\ mirror' = [h \in Halves |-> Blank]
  /\ logged' = <<Blank, Blank>> /\ rough' = 0 /\ calm' = 0 /\ owed' = 0
  /\ UNCHANGED <<expdb, faults>>

MirrorSteps == Clear0 \/ Move \/ Size0 \/ Clear1 \/ CopyLog \/ SizeLog \/ Counted
SaveSteps   == PartGet \/ WritePrefix \/ WriteMirror \/ WriteOthers \/ WriteEnd \/ WritePostfix \/ Schedule
Next == \/ log_store_init \/ log_to_mirror_buffer \/ MirrorSteps \/ log_to_emmc \/ SaveSteps
        \/ ClearHeader \/ mblock_reserve_ext \/ FillHeader \/ format_log_buff \/ pl_log_store
        \/ Reset \/ PowerLoss

Spec == Init /\ [][Next]_vars

-----------------------------------------------------------------------------
Logs == [of : 0 .. MaxBoots, n : 0 .. HALF]
Sram == [sig : {0, SIG}, reboot_count : Nat, save_to_emmc : Nat,
         dram : [sig : {0, SIG}, flag : {0, NEED_SAVE_TO_EMMC}, addr : 0 .. 2, mirrorAddr : 0 .. 2],
         cur  : [sig : {0, SIG}, n : 0 .. FULL],
         mlog : [sig : {0, SIG}, addr : 0 .. 2, count : 0 .. MaxBoots, size : [Halves -> 0 .. HALF]]]
Steps == {"log_store_init", "log_to_mirror_buffer", "clear_0", "move", "size_0", "clear_1",
          "copy_log", "size", "count", "log_to_emmc", "part_get", "write_prefix", "write_mirror",
          "write_others", "write_end", "write_postfix", "schedule", "clear_header", "mblock_reserve_ext",
          "fill_header", "format_log_buff", "run"}

\* Types: a log never outgrows its buffer, nor a copy of it its half, and a
\* size in the header never outgrows the half (log_to_mirror_buffer).
TypeOK ==
  /\ sram \in Sram /\ sram.dram.mirrorAddr \in {0, sram.dram.addr}
  /\ buf \in [of : 0 .. MaxBoots, n : 0 .. FULL]
  /\ mirror \in [Halves -> Logs] /\ expdb \in [Halves -> Logs]
  /\ log_store_status \in {"NOT_READY", "READY", "FULL", "ALLOC_ERROR"}
  /\ pc \in Steps /\ boot \in 1 .. MaxBoots
  /\ logged[1] \in Logs /\ logged[2] \in Logs
  /\ rough \in Nat /\ calm \in Nat /\ owed \in {0, 1}

Ready == log_store_status \in {"READY", "FULL"}
HasHalf(h, log) == mirror[h] = log /\ sram.mlog.size[h] = log.n

\* The log of the latest boot that wrote one is in the mirror, whole or as
\* much as a half holds, with its size, when the next boot runs; and it is
\* still there after one boot that was cut short or wrote nothing, wherever
\* the reset cut it (the order of log_to_mirror_buffer and format_log_buff).
NewestIsKept == Ready /\ rough <= 1 /\ logged[2] # Blank => \E h \in Halves : HasHalf(h, logged[2])

\* Two boots in a row with a log, neither cut short: the mirror holds both
\* logs, the older one first (the move of log_to_mirror_buffer).
PreviousIsKept ==
  Ready /\ calm >= 2 => \A h \in Halves : HasHalf(h, logged[h + 1])

\* A save that was due and did not end, whatever write failed or reset came
\* in between, is due again at the next boot that finds the log; only a
\* missing partition passes for a save (the end of log_to_emmc).
OwedIsDue == At("log_to_emmc") /\ owed > 0 => Due

\* The partition holds the latest log after each of the first TOP warm
\* reboots (log_to_emmc: "save the top 3 times").
TopAreSaved ==
  Ready /\ calm >= 1 /\ sram.reboot_count \in 1 .. TOP => \E h \in Halves : expdb[h] = logged[2]
=============================================================================
