--------------------------- MODULE LogStoreProofs -----------------------------
(***************************************************************************)
(* The invariants of LogStore for every size of the log and of its half,   *)
(* and any number of resets, losses of power and failures.                 *)
(***************************************************************************)
EXTENDS LogStore, TLAPS

Newest == logged[2]

\* The phases of a boot, before the move of the mirror, after each of its
\* steps, up to the loss of the old header, and after it.
Early   == {"log_store_init", "log_to_mirror_buffer"}
Moving  == {"clear_0", "move", "size_0", "clear_1"}
Copying == {"copy_log", "size", "count"}
Saving  == {"log_to_emmc", "part_get", "write_prefix", "write_mirror", "write_others",
            "write_end", "write_postfix", "schedule", "clear_header"}
Filling == {"mblock_reserve_ext", "fill_header", "format_log_buff", "run"}
Saved   == {"write_others", "write_end", "write_postfix", "schedule", "clear_header"} \cup Filling

-----------------------------------------------------------------------------
(* What is known of the headers at each step.                              *)

Located == sram.dram.sig = SIG /\ sram.dram.addr # 0 /\ sram.dram.flag = NEED_SAVE_TO_EMMC
Valid   == /\ sram.sig = SIG /\ Located /\ sram.dram.mirrorAddr = sram.dram.addr
           /\ sram.cur.sig = SIG /\ sram.mlog.sig = SIG /\ sram.mlog.addr = sram.dram.addr

Headers ==
  /\ pc # "log_store_init" => sram.sig = SIG
  /\ pc \in Filling => sram.dram.sig = SIG
  /\ pc \in {"fill_header", "format_log_buff"} => Located
  /\ pc \in {"mblock_reserve_ext", "fill_header"} => sram.dram.mirrorAddr = 0
  /\ pc = "format_log_buff" => sram.dram.mirrorAddr = sram.dram.addr
  /\ pc \in {"fill_header", "format_log_buff"} => buf = Blank

Status ==
  /\ log_store_status = "NOT_READY" <=> pc # "run"
  /\ Ready => /\ Valid
              /\ buf.n = sram.cur.n /\ (sram.cur.n > 0 => buf.of = boot)
  /\ log_store_status = "READY" => sram.cur.n < FULL

\* A boot counts its log once.
Counts ==
  /\ sram.mlog.count = 0 => sram.mlog.size[1] = 0
  /\ sram.mlog.count <= IF pc \in Early \cup Moving \cup Copying THEN boot - 1 ELSE boot

\* The headers are of the buffer behind which the newest log is.
Home == Newest # Blank =>
          /\ sram.sig = SIG /\ sram.mlog.sig = SIG
          /\ sram.dram.addr # 0 => sram.mlog.addr = sram.dram.addr

Histories ==
  /\ Newest # Blank => Newest.n > 0
  /\ calm >= 1 => rough = 0 /\ Newest # Blank

-----------------------------------------------------------------------------
(* Where a log is, while the boot after its own moves it.                  *)

\* In the half that was written last.
Top(log) == /\ sram.mlog.count > 0
            /\ HasHalf(IF sram.mlog.size[1] > 0 THEN 1 ELSE 0, log)

\* Not yet in the mirror, but the header leads to it.
Pending(log) == Valid /\ sram.cur.n > 0 /\ log = Log(buf.of, Kept)

\* A log that is pushed into the mirror by this boot, or was by the last.
Pushed(log) ==
  /\ pc \in Early \cup Moving \cup Copying \cup Saving => Pending(log)
  /\ pc = "size"  => mirror[Target] = log
  /\ pc = "count" => HasHalf(Target, log)
  /\ pc \in Saving \cup Filling => Top(log)

\* A log that was on top, and may have to give way to a newer one.
Moved(log) ==
  /\ pc \in Early => Top(log)
  /\ pc \in Moving => Filled
  /\ pc \in {"clear_0", "move", "size_0"} => HasHalf(1, log)
  /\ pc = "size_0"  => mirror[0] = log
  /\ pc \in {"clear_1"} \cup Copying => HasHalf(0, log) /\ sram.mlog.count > 0

Found(log) == pc \in Saving \cup Filling => \E h \in Halves : HasHalf(h, log)

NewestHeld ==
  Newest # Blank => /\ rough = 0 => Pushed(Newest)
                    /\ rough = 1 => Pushed(Newest) \/ (Moved(Newest) /\ Found(Newest))

PreviousHeld ==
  calm >= 2 => /\ Moved(logged[1])
               /\ pc \in Saving \cup Filling => HasHalf(0, logged[1]) /\ HasHalf(1, Newest)

-----------------------------------------------------------------------------
(* The schedule of saves.                                                  *)

OwedDue == /\ owed > 0 => sram.reboot_count >= sram.save_to_emmc
           /\ pc = "schedule" => owed = 0

FirstSaves ==
  /\ sram.reboot_count < TOP => sram.save_to_emmc = 0
  /\ pc \in Saved /\ calm >= 1 /\ sram.reboot_count <= TOP => \E h \in Halves : expdb[h] = Newest

IInv == /\ TypeOK /\ Headers /\ Status /\ Counts /\ Home /\ Histories
        /\ NewestHeld /\ PreviousHeld /\ OwedDue /\ FirstSaves
-----------------------------------------------------------------------------
(* What each assignment to the headers changes.                            *)

\* The sizes, one by one.
LEMMA Sizes == /\ HALF \in Nat /\ HALF > 0 /\ FULL \in Nat /\ FULL > 0 /\ HALF <= FULL
               /\ TOP \in Nat /\ TOP > 0 /\ SCALE \in Nat /\ MaxBoots \in Nat /\ MaxBoots > 0
BY SizesAssumption

\* m_log->size = last_pl_lk_log_size
LEMMA SetSizeFields ==
  ASSUME sram \in Sram, NEW h \in Halves, NEW n \in 0 .. HALF
  PROVE  LET s == SetSize(h, n)
         IN  /\ s \in Sram
             /\ s.sig = sram.sig /\ s.reboot_count = sram.reboot_count
             /\ s.save_to_emmc = sram.save_to_emmc /\ s.dram = sram.dram /\ s.cur = sram.cur
             /\ s.mlog.sig = sram.mlog.sig /\ s.mlog.addr = sram.mlog.addr
             /\ s.mlog.count = sram.mlog.count
             /\ s.mlog.size[h] = n
             /\ \A g \in Halves \ {h} : s.mlog.size[g] = sram.mlog.size[g]
BY DEF SetSize, Sram

\* The header that format_log_buff leaves.
LEMMA FormattedFields ==
  ASSUME sram \in Sram, NEW s, s = Formatted([sram EXCEPT !.cur = [sig |-> SIG, n |-> 0]])
  PROVE  /\ s \in Sram /\ s.dram = sram.dram /\ s.sig = sram.sig
         /\ s.reboot_count = sram.reboot_count /\ s.save_to_emmc = sram.save_to_emmc
         /\ s.cur.sig = SIG /\ s.cur.n = 0
         /\ s.mlog.sig = SIG /\ s.mlog.addr = sram.dram.mirrorAddr
         /\ IF mirrorbuf_valid(sram) THEN s.mlog = sram.mlog
            ELSE s.mlog.count = 0 /\ s.mlog.size[0] = 0 /\ s.mlog.size[1] = 0
<1> DEFINE t == [sram EXCEPT !.cur = [sig |-> SIG, n |-> 0]]
<1>1. /\ t \in Sram /\ t.dram = sram.dram /\ t.sig = sram.sig /\ t.mlog = sram.mlog
      /\ t.reboot_count = sram.reboot_count /\ t.save_to_emmc = sram.save_to_emmc
      /\ t.cur.sig = SIG /\ t.cur.n = 0
  BY Sizes DEF Sram, SIG
<1>2. s = Formatted(t)
  OBVIOUS
<1> HIDE DEF t
<1>3. CASE mirrorbuf_valid(t)
  <2>1. s = t /\ mirrorbuf_valid(sram)
    BY <1>1, <1>2, <1>3 DEF Formatted, mirrorbuf_valid
  <2>2. QED
    BY <1>1, <1>3, <2>1 DEF mirrorbuf_valid
<1>4. CASE ~mirrorbuf_valid(t)
  <2>1. ~mirrorbuf_valid(sram)
    BY <1>1, <1>4 DEF mirrorbuf_valid
  <2>2. s = [t EXCEPT !.mlog = [sig |-> SIG, addr |-> t.dram.mirrorAddr, count |-> 0,
                                size |-> [h \in Halves |-> 0]]]
    BY <1>2, <1>4 DEF Formatted
  <2>3. s \in Sram
    BY <1>1, <2>2, Sizes DEF Sram, SIG
  <2>4. QED
    BY <1>1, <2>1, <2>2, <2>3 DEF Sram, Halves
<1>5. QED
  BY <1>3, <1>4

\* The header of a buffer at a.
LEMMA ReservedFields ==
  ASSUME sram \in Sram, NEW a \in {1, 2}, NEW s,
         s = [sram EXCEPT !.dram = [@ EXCEPT !.addr = a, !.flag = NEED_SAVE_TO_EMMC]]
  PROVE  /\ s \in Sram /\ s.sig = sram.sig /\ s.cur = sram.cur /\ s.mlog = sram.mlog
         /\ s.reboot_count = sram.reboot_count /\ s.save_to_emmc = sram.save_to_emmc
         /\ s.dram.sig = sram.dram.sig /\ s.dram.mirrorAddr = sram.dram.mirrorAddr
         /\ s.dram.addr = a /\ s.dram.flag = NEED_SAVE_TO_EMMC
<1> DEFINE d == [sram.dram EXCEPT !.addr = a, !.flag = NEED_SAVE_TO_EMMC]
<1>1. /\ d \in [sig : {0, SIG}, flag : {0, NEED_SAVE_TO_EMMC}, addr : 0 .. 2, mirrorAddr : 0 .. 2]
      /\ d.sig = sram.dram.sig /\ d.mirrorAddr = sram.dram.mirrorAddr
      /\ d.addr = a /\ d.flag = NEED_SAVE_TO_EMMC
  <2> DEFINE r == [sram.dram EXCEPT !.addr = a]
  <2>1. /\ r \in [sig : {0, SIG}, flag : {0, NEED_SAVE_TO_EMMC}, addr : 0 .. 2, mirrorAddr : 0 .. 2]
        /\ r.sig = sram.dram.sig /\ r.mirrorAddr = sram.dram.mirrorAddr /\ r.addr = a
    BY DEF Sram
  <2>2. d = [r EXCEPT !.flag = NEED_SAVE_TO_EMMC]
    BY Zenon
  <2> HIDE DEF d, r
  <2>3. QED
    BY <2>1, <2>2
<1>2. s = [sram EXCEPT !.dram = d]
  BY Zenon
<1> HIDE DEF d
<1>3. QED
  BY <1>1, <1>2 DEF Sram

-----------------------------------------------------------------------------
(* Types, headers and the schedule.                                        *)

\* Every step keeps the types.
LEMMA TypeStep == TypeOK /\ Headers /\ Status /\ Counts /\ [Next]_vars => TypeOK'
<1> SUFFICES ASSUME TypeOK, Headers, Status, Counts, [Next]_vars
             PROVE  TypeOK'
    OBVIOUS
<1>1. CASE log_store_init
  BY <1>1, Sizes
     DEF log_store_init, At, ZeroSram, NoBuffer, SIG, TypeOK, Steps, Sram, Logs, Halves, vars,
         memory, history
<1>2. CASE log_to_mirror_buffer
  BY <1>2 DEF log_to_mirror_buffer, At, TypeOK, Steps, Sram, Logs, Halves, vars, memory, history
<1>3. CASE Clear0 \/ Clear1
  BY <1>3, Sizes
     DEF Clear0, MirrorStep, At, Blank, Clear1, TypeOK, Steps, Sram, Logs, Halves, vars, memory,
         history
<1>4. CASE Move
  BY <1>4 DEF Move, MirrorStep, At, TypeOK, Steps, Sram, Logs, Halves, vars, memory, history
<1>5. CASE Size0
  BY <1>5
     DEF Size0, MirrorStep, At, SetSize, TypeOK, Steps, Sram, Logs, Halves, vars, memory, history
<1>6. CASE CopyLog
  <2>1. Target \in Halves /\ Kept \in 0 .. HALF /\ Log(buf.of, Kept) \in Logs
    BY Sizes DEF TypeOK, Sram, Target, Kept, Log, Logs, Halves
  <2>2. QED
    BY <1>6, <2>1 DEF CopyLog, MirrorStep, At, TypeOK, Steps, vars, memory, history
<1>7. CASE SizeLog
  <2>1. Target \in Halves /\ Kept \in 0 .. HALF
    BY Sizes DEF TypeOK, Sram, Target, Kept, Halves
  <2>2. sram' \in Sram /\ sram'.dram = sram.dram
    BY <1>7, <2>1 DEF SizeLog, MirrorStep, SetSize, TypeOK, Sram
  <2>3. QED
    BY <1>7, <2>2 DEF SizeLog, MirrorStep, TypeOK, Steps, vars, memory, history
<1>8. CASE Counted
  <2>1. sram.mlog.count + 1 \in 0 .. MaxBoots
    <3>1. sram.mlog.count <= boot - 1
      BY <1>8 DEF Counted, MirrorStep, At, Counts, Copying
    <3>2. QED
      BY <3>1, Sizes DEF TypeOK, Sram
  <2>2. sram' \in Sram /\ sram'.dram = sram.dram
    BY <1>8, <2>1 DEF Counted, MirrorStep, TypeOK, Sram
  <2>3. QED
    BY <1>8, <2>2 DEF Counted, MirrorStep, TypeOK, Steps, vars, memory, history
<1>9. CASE log_to_emmc
  BY <1>9 DEF log_to_emmc, At, TypeOK, Steps, Sram, Logs, Halves, vars, memory, history
<1>10. CASE PartGet \/ WritePostfix
  BY <1>10
     DEF PartGet, At, Sound, Fault, WritePostfix, TypeOK, Steps, Sram, Logs, Halves, vars, memory,
         history
<1>11. CASE WritePrefix \/ WriteOthers \/ WriteEnd
  BY <1>11
     DEF WritePrefix, Write, At, Sound, Fault, WriteOthers, WriteEnd, TypeOK, Steps, Sram, Logs,
         Halves, vars, memory, history
<1>12. CASE WriteMirror
  BY <1>12, Sizes
     DEF WriteMirror, Write, At, Sound, Fault, TypeOK, Steps, Sram, Logs, Halves, Blank, vars,
         memory, history
<1>13. CASE Schedule
  <2>1. NextSave(sram) \in Nat
    BY Sizes DEF NextSave, TypeOK, Sram
  <2>2. QED
    BY <1>13, <2>1 DEF Schedule, TypeOK, Steps, Sram, vars, memory, history
<1>14. CASE ClearHeader
  BY <1>14
     DEF ClearHeader, At, NoBuffer, SIG, TypeOK, Steps, Sram, Logs, Halves, vars, memory, history
<1>15. CASE mblock_reserve_ext
  <2>1. CASE UNCHANGED <<memory, logged>> /\ log_store_status' = "ALLOC_ERROR" /\ pc' = "run" /\ calm' = 0
    BY <1>15, <2>1 DEF mblock_reserve_ext, TypeOK, Steps, memory
  <2>2. ASSUME NEW a \in {1, 2},
               sram' = [sram EXCEPT !.dram = [@ EXCEPT !.addr = a, !.flag = NEED_SAVE_TO_EMMC]],
               IF Same(a) THEN Sound ELSE Fault, pc' = "fill_header", buf' = Blank,
               logged' = IF Same(a) THEN logged ELSE <<Blank, Blank>>,
               UNCHANGED <<mirror, expdb, log_store_status>>
        PROVE  TypeOK'
    <3>1. sram' \in Sram /\ sram'.dram.mirrorAddr = 0
      BY <1>15, <2>2, ReservedFields DEF TypeOK, Headers, mblock_reserve_ext, At
    <3>2. QED
      BY <1>15, <2>2, <3>1, Sizes DEF mblock_reserve_ext, TypeOK, Steps, Sound, Fault, Blank, Logs
  <2>3. QED
    BY <1>15, <2>1, <2>2 DEF mblock_reserve_ext, Fault
<1>16. CASE FillHeader
  BY <1>16, Sizes
     DEF FillHeader, At, TypeOK, Steps, Sram, Logs, Halves, Blank, vars, memory, history
<1>17. CASE format_log_buff
  <2>1. sram' \in Sram /\ sram'.dram = sram.dram
    BY <1>17, FormattedFields DEF format_log_buff, TypeOK
  <2>2. QED
    BY <1>17, <2>1 DEF format_log_buff, TypeOK, Steps, vars, memory, history
<1>18. CASE pl_log_store
  <2>1. sram.cur.n + 1 \in 0 .. FULL /\ buf.n + 1 \in 0 .. FULL
    BY <1>18, Sizes DEF pl_log_store, TypeOK, Sram, Status, Ready
  <2>2. sram' \in Sram /\ sram'.dram = sram.dram
    BY <1>18, <2>1 DEF pl_log_store, TypeOK, Sram
  <2>3. buf' \in [of : 0 .. MaxBoots, n : 0 .. FULL]
    BY <1>18, <2>1 DEF pl_log_store, Log, TypeOK
  <2>4. QED
    BY <1>18, <2>2, <2>3 DEF pl_log_store, TypeOK, vars, memory, history
<1>19. CASE Reset
  <2>1. Kept \in 0 .. HALF /\ Log(boot, Kept) \in Logs
    BY Sizes DEF TypeOK, Sram, Kept, Log, Logs
  <2>2. logged'[1] \in Logs /\ logged'[2] \in Logs
    BY <1>19, <2>1 DEF Reset, TypeOK
  <2>3. rough' \in Nat /\ calm' \in Nat
    BY <1>19 DEF Reset, TypeOK
  <2>4. QED
    BY <1>19, <2>2, <2>3, Sizes DEF Reset, Again, TypeOK, Steps, memory
<1>20. CASE PowerLoss
  <2>1. ZeroSram \in Sram /\ ZeroSram.dram.mirrorAddr = 0
    BY Sizes DEF ZeroSram, NoBuffer, Sram, Halves
  <2>2. Blank \in Logs /\ Blank \in [of : 0 .. MaxBoots, n : 0 .. FULL]
    BY Sizes DEF Blank, Logs
  <2>3. QED
    BY <1>20, <2>1, <2>2, Sizes DEF PowerLoss, Again, TypeOK, Steps
<1>21. CASE UNCHANGED vars
  BY <1>21 DEF TypeOK, Steps, Sram, Logs, Halves, vars, memory, history
<1>22. QED
  BY <1>1, <1>2, <1>3, <1>4, <1>5, <1>6, <1>7, <1>8, <1>9, <1>10, <1>11, <1>12, <1>13, <1>14, <1>15,
     <1>16, <1>17, <1>18, <1>19, <1>20, <1>21
     DEF Next, MirrorSteps, SaveSteps

\* What the header holds at each step from its clearing to format_log_buff.
LEMMA HeadersStep == TypeOK /\ Headers /\ [Next]_vars => Headers'
<1> SUFFICES ASSUME TypeOK, Headers, [Next]_vars
             PROVE  Headers'
    OBVIOUS
<1>1. CASE log_store_init
  BY <1>1
     DEF log_store_init, At, ZeroSram, NoBuffer, SIG, Headers, Located, Filling, TypeOK, Sram, vars,
         memory, history
<1>2. CASE log_to_mirror_buffer
  BY <1>2
     DEF log_to_mirror_buffer, At, Headers, Located, Filling, TypeOK, Sram, vars, memory, history
<1>3. CASE Clear0 \/ Move \/ Clear1
  BY <1>3
     DEF Clear0, MirrorStep, At, Blank, Move, Clear1, Headers, Located, Filling, TypeOK, Sram, vars,
         memory, history
<1>4. CASE Size0 \/ SizeLog \/ Counted
  BY <1>4
     DEF Size0, MirrorStep, At, SetSize, SizeLog, Counted, Headers, Located, Filling, TypeOK, Sram,
         vars, memory, history
<1>5. CASE CopyLog
  BY <1>5
     DEF CopyLog, MirrorStep, At, Headers, Located, Filling, TypeOK, Sram, vars, memory, history
<1>6. CASE log_to_emmc
  BY <1>6 DEF log_to_emmc, At, Headers, Located, Filling, TypeOK, Sram, vars, memory, history
<1>7. CASE PartGet \/ WritePostfix
  BY <1>7
     DEF PartGet, At, Sound, Fault, WritePostfix, Headers, Located, Filling, TypeOK, Sram, vars,
         memory, history
<1>8. CASE WritePrefix \/ WriteMirror \/ WriteOthers \/ WriteEnd
  BY <1>8
     DEF WritePrefix, Write, At, Sound, Fault, WriteMirror, WriteOthers, WriteEnd, Headers, Located,
         Filling, TypeOK, Sram, vars, memory, history
<1>9. CASE Schedule
  BY <1>9 DEF Schedule, At, Headers, Located, Filling, TypeOK, Sram, vars, memory, history
<1>10. CASE ClearHeader
  BY <1>10
     DEF ClearHeader, At, NoBuffer, SIG, Headers, Located, Filling, TypeOK, Sram, vars, memory,
         history
<1>11. CASE mblock_reserve_ext
  <2>1. CASE UNCHANGED memory /\ pc' = "run"
    BY <1>11, <2>1 DEF mblock_reserve_ext, At, Headers, Filling, memory
  <2>2. ASSUME NEW a \in {1, 2}, pc' = "fill_header", buf' = Blank,
               sram' = [sram EXCEPT !.dram = [@ EXCEPT !.addr = a, !.flag = NEED_SAVE_TO_EMMC]]
        PROVE  Headers'
    <3>1. /\ sram'.sig = SIG /\ sram'.dram.sig = SIG /\ sram'.dram.mirrorAddr = 0
          /\ sram'.dram.addr = a /\ sram'.dram.flag = NEED_SAVE_TO_EMMC
      BY <1>11, <2>2, ReservedFields DEF mblock_reserve_ext, At, TypeOK, Headers, Filling
    <3>2. QED
      BY <2>2, <3>1 DEF Headers, Located
  <2>3. QED
    BY <1>11, <2>1, <2>2 DEF mblock_reserve_ext
<1>12. CASE FillHeader
  BY <1>12 DEF FillHeader, At, Headers, Located, Filling, TypeOK, Sram, vars, memory, history
<1>13. CASE format_log_buff
  BY <1>13, FormattedFields DEF format_log_buff, At, TypeOK, Headers, Located, Filling
<1>14. CASE pl_log_store
  BY <1>14 DEF pl_log_store, At, Log, Headers, Located, Filling, TypeOK, Sram, vars, memory, history
<1>15. CASE Reset
  BY <1>15 DEF Reset, Again, At, Headers, Located, Filling, TypeOK, Sram, vars, memory, history
<1>16. CASE PowerLoss
  BY <1>16
     DEF PowerLoss, Again, At, ZeroSram, NoBuffer, Headers, Located, Filling, TypeOK, Sram, vars,
         memory, history
<1>17. CASE UNCHANGED vars
  BY <1>17 DEF Headers, Located, Filling, TypeOK, Sram, vars, memory, history
<1>18. QED
  BY <1>1, <1>2, <1>3, <1>4, <1>5, <1>6, <1>7, <1>8, <1>9, <1>10, <1>11, <1>12, <1>13, <1>14, <1>15,
     <1>16, <1>17
     DEF Next, MirrorSteps, SaveSteps

\* With log_store_status READY or FULL the headers are whole, and the buffer is this boot's.
LEMMA StatusStep == TypeOK /\ Headers /\ Status /\ [Next]_vars => Status'
<1> SUFFICES ASSUME TypeOK, Headers, Status, [Next]_vars
             PROVE  Status'
    OBVIOUS
<1>1. CASE log_store_init
  BY <1>1
     DEF log_store_init, At, ZeroSram, NoBuffer, SIG, Status, Ready, Valid, Located, TypeOK, Sram,
         vars, memory, history
<1>2. CASE log_to_mirror_buffer
  BY <1>2
     DEF log_to_mirror_buffer, At, Status, Ready, Valid, Located, TypeOK, Sram, vars, memory,
         history
<1>3. CASE Clear0 \/ Move \/ Clear1
  BY <1>3
     DEF Clear0, MirrorStep, At, Blank, Move, Clear1, Status, Ready, Valid, Located, TypeOK, Sram,
         vars, memory, history
<1>4. CASE Size0 \/ SizeLog \/ Counted
  BY <1>4
     DEF Size0, MirrorStep, At, SetSize, SizeLog, Counted, Status, Ready, Valid, Located, TypeOK,
         Sram, vars, memory, history
<1>5. CASE CopyLog
  BY <1>5
     DEF CopyLog, MirrorStep, At, Status, Ready, Valid, Located, TypeOK, Sram, vars, memory, history
<1>6. CASE log_to_emmc
  BY <1>6 DEF log_to_emmc, At, Status, Ready, Valid, Located, TypeOK, Sram, vars, memory, history
<1>7. CASE PartGet \/ WritePostfix
  BY <1>7
     DEF PartGet, At, Sound, Fault, WritePostfix, Status, Ready, Valid, Located, TypeOK, Sram, vars,
         memory, history
<1>8. CASE WritePrefix \/ WriteMirror \/ WriteOthers \/ WriteEnd
  BY <1>8
     DEF WritePrefix, Write, At, Sound, Fault, WriteMirror, WriteOthers, WriteEnd, Status, Ready,
         Valid, Located, TypeOK, Sram, vars, memory, history
<1>9. CASE Schedule
  BY <1>9 DEF Schedule, At, Status, Ready, Valid, Located, TypeOK, Sram, vars, memory, history
<1>10. CASE ClearHeader
  BY <1>10
     DEF ClearHeader, At, NoBuffer, SIG, Status, Ready, Valid, Located, TypeOK, Sram, vars, memory,
         history
<1>11. CASE mblock_reserve_ext
  BY <1>11
     DEF mblock_reserve_ext, At, Sound, Fault, Same, NEED_SAVE_TO_EMMC, Status, Ready, Valid,
         Located, TypeOK, Sram, vars, memory, history
<1>12. CASE FillHeader
  BY <1>12 DEF FillHeader, At, Status, Ready, Valid, Located, TypeOK, Sram, vars, memory, history
<1>13. CASE format_log_buff
  <2>1. buf = Blank
    BY <1>13 DEF format_log_buff, At, Headers
  <2>2. QED
    BY <1>13, <2>1, FormattedFields, Sizes
       DEF format_log_buff, At, TypeOK, Headers, Status, Ready, Valid, Located, Blank
<1>14. CASE pl_log_store
  <2>1. Valid /\ buf.n = sram.cur.n /\ sram.cur.n < FULL
    BY <1>14 DEF pl_log_store, Status, Ready
  <2>2. /\ sram'.sig = sram.sig /\ sram'.dram = sram.dram /\ sram'.mlog = sram.mlog
        /\ sram'.cur.sig = sram.cur.sig /\ sram'.cur.n = sram.cur.n + 1
    BY <1>14 DEF pl_log_store, TypeOK, Sram
  <2>3. buf'.n = sram'.cur.n /\ buf'.of = boot /\ boot' = boot
    BY <1>14, <2>1, <2>2 DEF pl_log_store, Log, history
  <2>4. QED
    BY <1>14, <2>1, <2>2, <2>3, Sizes
       DEF pl_log_store, At, Status, Ready, Valid, Located, TypeOK, Sram
<1>15. CASE Reset
  BY <1>15 DEF Reset, Again, At, Status, Ready, Valid, Located, TypeOK, Sram, vars, memory, history
<1>16. CASE PowerLoss
  BY <1>16
     DEF PowerLoss, Again, At, ZeroSram, NoBuffer, Status, Ready, Valid, Located, TypeOK, Sram,
         vars, memory, history
<1>17. CASE UNCHANGED vars
  BY <1>17 DEF Status, Ready, Valid, Located, TypeOK, Sram, vars, memory, history
<1>18. QED
  BY <1>1, <1>2, <1>3, <1>4, <1>5, <1>6, <1>7, <1>8, <1>9, <1>10, <1>11, <1>12, <1>13, <1>14, <1>15,
     <1>16, <1>17
     DEF Next, MirrorSteps, SaveSteps

\* The headers go on leading to the buffer behind which the newest log is: a reservation
\* elsewhere is a loss of the logs (mblock_reserve_ext).
LEMMA HomeStep == TypeOK /\ Headers /\ Status /\ Home /\ [Next]_vars => Home'
<1> SUFFICES ASSUME TypeOK, Headers, Status, Home, [Next]_vars
             PROVE  Home'
    OBVIOUS
<1>1. CASE log_store_init
  BY <1>1
     DEF log_store_init, At, ZeroSram, NoBuffer, SIG, Home, Newest, TypeOK, Sram, vars, memory,
         history
<1>2. CASE log_to_mirror_buffer
  BY <1>2 DEF log_to_mirror_buffer, At, Home, Newest, TypeOK, Sram, vars, memory, history
<1>3. CASE Clear0 \/ Move \/ Clear1
  BY <1>3
     DEF Clear0, MirrorStep, At, Blank, Move, Clear1, Home, Newest, TypeOK, Sram, vars, memory,
         history
<1>4. CASE Size0 \/ SizeLog \/ Counted
  BY <1>4
     DEF Size0, MirrorStep, At, SetSize, SizeLog, Counted, Home, Newest, TypeOK, Sram, vars, memory,
         history
<1>5. CASE CopyLog
  BY <1>5 DEF CopyLog, MirrorStep, At, Home, Newest, TypeOK, Sram, vars, memory, history
<1>6. CASE log_to_emmc
  BY <1>6 DEF log_to_emmc, At, Home, Newest, TypeOK, Sram, vars, memory, history
<1>7. CASE PartGet \/ WritePostfix
  BY <1>7
     DEF PartGet, At, Sound, Fault, WritePostfix, Home, Newest, TypeOK, Sram, vars, memory, history
<1>8. CASE WritePrefix \/ WriteMirror \/ WriteOthers \/ WriteEnd
  BY <1>8
     DEF WritePrefix, Write, At, Sound, Fault, WriteMirror, WriteOthers, WriteEnd, Home, Newest,
         TypeOK, Sram, vars, memory, history
<1>9. CASE Schedule
  BY <1>9 DEF Schedule, At, Home, Newest, TypeOK, Sram, vars, memory, history
<1>10. CASE ClearHeader
  BY <1>10 DEF ClearHeader, At, NoBuffer, SIG, Home, Newest, TypeOK, Sram, vars, memory, history
<1>11. CASE mblock_reserve_ext
  <2>1. CASE UNCHANGED <<memory, logged>>
    BY <2>1 DEF Home, Newest, memory
  <2>2. ASSUME NEW a \in {1, 2},
               sram' = [sram EXCEPT !.dram = [@ EXCEPT !.addr = a, !.flag = NEED_SAVE_TO_EMMC]],
               logged' = IF Same(a) THEN logged ELSE <<Blank, Blank>>
        PROVE  Home'
    BY <2>2, ReservedFields DEF TypeOK, Home, Newest, Same
  <2>3. QED
    BY <1>11, <2>1, <2>2 DEF mblock_reserve_ext
<1>12. CASE FillHeader
  BY <1>12 DEF FillHeader, At, Home, Newest, TypeOK, Sram, vars, memory, history
<1>13. CASE format_log_buff
  BY <1>13, FormattedFields DEF format_log_buff, At, TypeOK, Headers, Home, Newest, history
<1>14. CASE pl_log_store
  BY <1>14 DEF pl_log_store, At, Log, Home, Newest, TypeOK, Sram, vars, memory, history
<1>15. CASE Reset
  BY <1>15
     DEF Reset, Again, At, Home, Newest, TypeOK, Sram, Status, Ready, Valid, Located, vars, memory,
         history
<1>16. CASE PowerLoss
  BY <1>16
     DEF PowerLoss, Again, At, ZeroSram, NoBuffer, Home, Newest, TypeOK, Sram, vars, memory, history
<1>17. CASE UNCHANGED vars
  BY <1>17 DEF Home, Newest, TypeOK, Sram, vars, memory, history
<1>18. QED
  BY <1>1, <1>2, <1>3, <1>4, <1>5, <1>6, <1>7, <1>8, <1>9, <1>10, <1>11, <1>12, <1>13, <1>14, <1>15,
     <1>16, <1>17
     DEF Next, MirrorSteps, SaveSteps

\* A boot counts its log once, and the second half is empty while none is counted.
LEMMA CountsStep == TypeOK /\ Counts /\ [Next]_vars => Counts'
<1> SUFFICES ASSUME TypeOK, Counts, [Next]_vars
             PROVE  Counts'
    OBVIOUS
<1>1. CASE log_store_init
  BY <1>1
     DEF log_store_init, At, ZeroSram, NoBuffer, SIG, Counts, Early, Moving, Copying, TypeOK, Sram,
         Halves, vars, memory, history
<1>2. CASE log_to_mirror_buffer
  BY <1>2
     DEF log_to_mirror_buffer, At, Counts, Early, Moving, Copying, TypeOK, Sram, Halves, vars,
         memory, history
<1>3. CASE Clear0 \/ Move \/ Clear1
  BY <1>3
     DEF Clear0, MirrorStep, At, Blank, Move, Clear1, Counts, Early, Moving, Copying, TypeOK, Sram,
         Halves, vars, memory, history
<1>4. CASE Size0 \/ Counted
  BY <1>4
     DEF Size0, MirrorStep, At, SetSize, Counted, Counts, Early, Moving, Copying, TypeOK, Sram,
         Halves, vars, memory, history
<1>5. CASE CopyLog
  BY <1>5
     DEF CopyLog, MirrorStep, At, Counts, Early, Moving, Copying, TypeOK, Sram, Halves, vars,
         memory, history
<1>6. CASE SizeLog
  <2>1. Target \in Halves /\ Kept \in 0 .. HALF
    BY Sizes DEF TypeOK, Sram, Target, Kept, Halves
  <2>2. /\ sram'.mlog.count = sram.mlog.count
        /\ \A g \in Halves \ {Target} : sram'.mlog.size[g] = sram.mlog.size[g]
    BY <1>6, <2>1, SetSizeFields DEF SizeLog, MirrorStep, TypeOK
  <2>3. QED
    BY <1>6, <2>2 DEF SizeLog, MirrorStep, At, Counts, Early, Moving, Copying, Target, Halves
<1>7. CASE log_to_emmc
  BY <1>7
     DEF log_to_emmc, At, Counts, Early, Moving, Copying, TypeOK, Sram, Halves, vars, memory,
         history
<1>8. CASE PartGet \/ WritePostfix
  BY <1>8
     DEF PartGet, At, Sound, Fault, WritePostfix, Counts, Early, Moving, Copying, TypeOK, Sram,
         Halves, vars, memory, history
<1>9. CASE WritePrefix \/ WriteMirror \/ WriteOthers \/ WriteEnd
  BY <1>9
     DEF WritePrefix, Write, At, Sound, Fault, WriteMirror, WriteOthers, WriteEnd, Counts, Early,
         Moving, Copying, TypeOK, Sram, Halves, vars, memory, history
<1>10. CASE Schedule
  BY <1>10
     DEF Schedule, At, Counts, Early, Moving, Copying, TypeOK, Sram, Halves, vars, memory, history
<1>11. CASE ClearHeader
  BY <1>11
     DEF ClearHeader, At, NoBuffer, SIG, Counts, Early, Moving, Copying, TypeOK, Sram, Halves, vars,
         memory, history
<1>12. CASE mblock_reserve_ext
  BY <1>12
     DEF mblock_reserve_ext, At, Sound, Fault, Same, NEED_SAVE_TO_EMMC, Counts, Early, Moving,
         Copying, TypeOK, Sram, Halves, vars, memory, history
<1>13. CASE FillHeader
  BY <1>13
     DEF FillHeader, At, Counts, Early, Moving, Copying, TypeOK, Sram, Halves, vars, memory, history
<1>14. CASE format_log_buff
  BY <1>14, FormattedFields, Sizes
     DEF format_log_buff, At, TypeOK, Counts, Early, Moving, Copying, history
<1>15. CASE pl_log_store
  BY <1>15
     DEF pl_log_store, At, Log, Counts, Early, Moving, Copying, TypeOK, Sram, Halves, vars, memory,
         history
<1>16. CASE Reset
  BY <1>16
     DEF Reset, Again, At, Counts, Early, Moving, Copying, TypeOK, Sram, Halves, vars, memory,
         history
<1>17. CASE PowerLoss
  BY <1>17
     DEF PowerLoss, Again, At, ZeroSram, NoBuffer, Counts, Early, Moving, Copying, TypeOK, Sram,
         Halves, vars, memory, history
<1>18. CASE UNCHANGED vars
  BY <1>18 DEF Counts, Early, Moving, Copying, TypeOK, Sram, Halves, vars, memory, history
<1>19. QED
  BY <1>1, <1>2, <1>3, <1>4, <1>5, <1>6, <1>7, <1>8, <1>9, <1>10, <1>11, <1>12, <1>13, <1>14, <1>15,
     <1>16, <1>17, <1>18
     DEF Next, MirrorSteps, SaveSteps

\* An owed save stays due: only the end of log_to_emmc moves the schedule on.
LEMMA OwedStep == TypeOK /\ OwedDue /\ [Next]_vars => OwedDue'
<1> SUFFICES ASSUME TypeOK, OwedDue, [Next]_vars
             PROVE  OwedDue'
    OBVIOUS
<1>1. CASE log_store_init
  BY <1>1
     DEF log_store_init, At, ZeroSram, NoBuffer, SIG, OwedDue, TypeOK, Sram, vars, memory, history
<1>2. CASE log_to_mirror_buffer
  BY <1>2 DEF log_to_mirror_buffer, At, OwedDue, TypeOK, Sram, vars, memory, history
<1>3. CASE Clear0 \/ Move \/ Clear1
  BY <1>3
     DEF Clear0, MirrorStep, At, Blank, Move, Clear1, OwedDue, TypeOK, Sram, vars, memory, history
<1>4. CASE Size0 \/ SizeLog \/ Counted
  BY <1>4
     DEF Size0, MirrorStep, At, SetSize, SizeLog, Counted, OwedDue, TypeOK, Sram, vars, memory,
         history
<1>5. CASE CopyLog
  BY <1>5 DEF CopyLog, MirrorStep, At, OwedDue, TypeOK, Sram, vars, memory, history
<1>6. CASE log_to_emmc
  BY <1>6 DEF log_to_emmc, At, OwedDue, TypeOK, Sram, Due, vars, memory, history
<1>7. CASE PartGet \/ WritePostfix
  BY <1>7 DEF PartGet, At, Sound, Fault, WritePostfix, OwedDue, TypeOK, Sram, vars, memory, history
<1>8. CASE WritePrefix \/ WriteMirror \/ WriteOthers \/ WriteEnd
  BY <1>8
     DEF WritePrefix, Write, At, Sound, Fault, WriteMirror, WriteOthers, WriteEnd, OwedDue, TypeOK,
         Sram, vars, memory, history
<1>9. CASE Schedule
  BY <1>9 DEF Schedule, At, OwedDue, TypeOK, Sram, NextSave, vars, memory, history
<1>10. CASE ClearHeader
  BY <1>10 DEF ClearHeader, At, NoBuffer, SIG, OwedDue, TypeOK, Sram, vars, memory, history
<1>11. CASE mblock_reserve_ext
  BY <1>11
     DEF mblock_reserve_ext, At, Sound, Fault, Same, NEED_SAVE_TO_EMMC, OwedDue, TypeOK, Sram, vars,
         memory, history
<1>12. CASE FillHeader
  BY <1>12 DEF FillHeader, At, OwedDue, TypeOK, Sram, vars, memory, history
<1>13. CASE format_log_buff
  BY <1>13, FormattedFields DEF format_log_buff, At, TypeOK, OwedDue, history
<1>14. CASE pl_log_store
  BY <1>14 DEF pl_log_store, At, Log, OwedDue, TypeOK, Sram, vars, memory, history
<1>15. CASE Reset
  BY <1>15 DEF Reset, Again, At, OwedDue, TypeOK, Sram, vars, memory, history
<1>16. CASE PowerLoss
  BY <1>16
     DEF PowerLoss, Again, At, ZeroSram, NoBuffer, OwedDue, TypeOK, Sram, vars, memory, history
<1>17. CASE UNCHANGED vars
  BY <1>17 DEF OwedDue, TypeOK, Sram, vars, memory, history
<1>18. QED
  BY <1>1, <1>2, <1>3, <1>4, <1>5, <1>6, <1>7, <1>8, <1>9, <1>10, <1>11, <1>12, <1>13, <1>14, <1>15,
     <1>16, <1>17
     DEF Next, MirrorSteps, SaveSteps

\* A boot is recorded as having logged only with characters in its log.
LEMMA HistoriesStep == TypeOK /\ Status /\ Histories /\ [Next]_vars => Histories'
<1> SUFFICES ASSUME TypeOK, Status, Histories, [Next]_vars
             PROVE  Histories'
    OBVIOUS
<1>1. CASE log_store_init
  BY <1>1
     DEF log_store_init, At, ZeroSram, NoBuffer, SIG, Histories, Newest, TypeOK, vars, memory,
         history
<1>2. CASE log_to_mirror_buffer
  BY <1>2 DEF log_to_mirror_buffer, At, Histories, Newest, TypeOK, vars, memory, history
<1>3. CASE Clear0 \/ Move \/ Clear1
  BY <1>3
     DEF Clear0, MirrorStep, At, Blank, Move, Clear1, Histories, Newest, TypeOK, vars, memory,
         history
<1>4. CASE Size0 \/ SizeLog \/ Counted
  BY <1>4
     DEF Size0, MirrorStep, At, SetSize, SizeLog, Counted, Histories, Newest, TypeOK, vars, memory,
         history
<1>5. CASE CopyLog
  BY <1>5 DEF CopyLog, MirrorStep, At, Histories, Newest, TypeOK, vars, memory, history
<1>6. CASE log_to_emmc
  BY <1>6 DEF log_to_emmc, At, Histories, Newest, TypeOK, vars, memory, history
<1>7. CASE PartGet \/ WritePostfix
  BY <1>7
     DEF PartGet, At, Sound, Fault, WritePostfix, Histories, Newest, TypeOK, vars, memory, history
<1>8. CASE WritePrefix \/ WriteMirror \/ WriteOthers \/ WriteEnd
  BY <1>8
     DEF WritePrefix, Write, At, Sound, Fault, WriteMirror, WriteOthers, WriteEnd, Histories,
         Newest, TypeOK, vars, memory, history
<1>9. CASE Schedule
  BY <1>9 DEF Schedule, At, Histories, Newest, TypeOK, vars, memory, history
<1>10. CASE ClearHeader
  BY <1>10 DEF ClearHeader, At, NoBuffer, SIG, Histories, Newest, TypeOK, vars, memory, history
<1>11. CASE mblock_reserve_ext
  BY <1>11
     DEF mblock_reserve_ext, At, Sound, Fault, Same, NEED_SAVE_TO_EMMC, Histories, Newest, TypeOK,
         Blank, vars, memory, history
<1>12. CASE FillHeader
  BY <1>12 DEF FillHeader, At, Histories, Newest, TypeOK, vars, memory, history
<1>13. CASE format_log_buff
  BY <1>13
     DEF format_log_buff, At, Formatted, mirrorbuf_valid, SIG, Histories, Newest, TypeOK, vars,
         memory, history
<1>14. CASE pl_log_store
  BY <1>14 DEF pl_log_store, At, Log, Histories, Newest, TypeOK, vars, memory, history
<1>15. CASE Reset
  <2>1. CASE At("run") /\ sram.cur.n > 0 /\ log_store_status # "ALLOC_ERROR"
    <3>1. Kept > 0
      BY <2>1, Sizes DEF Kept, TypeOK, Sram
    <3>2. Log(boot, Kept).n > 0 /\ Log(boot, Kept) # Blank
      BY <3>1 DEF Log, Blank
    <3>3. logged'[2] = Log(boot, Kept) /\ rough' = 0
      BY <1>15, <2>1 DEF Reset
    <3>4. QED
      BY <3>2, <3>3 DEF Histories, Newest
  <2>2. CASE ~(At("run") /\ sram.cur.n > 0 /\ log_store_status # "ALLOC_ERROR")
    BY <1>15, <2>2 DEF Reset, Histories, Newest
  <2>3. QED
    BY <2>1, <2>2
<1>16. CASE PowerLoss
  BY <1>16
     DEF PowerLoss, Again, At, ZeroSram, NoBuffer, Histories, Newest, TypeOK, vars, memory, history
<1>17. CASE UNCHANGED vars
  BY <1>17 DEF Histories, Newest, TypeOK, vars, memory, history
<1>18. QED
  BY <1>1, <1>2, <1>3, <1>4, <1>5, <1>6, <1>7, <1>8, <1>9, <1>10, <1>11, <1>12, <1>13, <1>14, <1>15,
     <1>16, <1>17
     DEF Next, MirrorSteps, SaveSteps

-----------------------------------------------------------------------------
(* The logs.                                                               *)

\* The steps of one boot.
BootStep == \/ log_store_init \/ log_to_mirror_buffer \/ MirrorSteps \/ log_to_emmc \/ SaveSteps
            \/ ClearHeader \/ mblock_reserve_ext \/ FillHeader \/ format_log_buff \/ pl_log_store

\* Within a boot the record of the earlier ones changes only with the place of the buffer.
LEMMA HistoryOfStep ==
  ASSUME TypeOK, BootStep
  PROVE  /\ rough' = rough
         /\ logged' = logged \/ (logged' = <<Blank, Blank>> /\ calm' = 0)
         /\ calm' = calm \/ calm' = 0
<1>1. CASE log_store_init
  BY <1>1 DEF log_store_init, At, ZeroSram, NoBuffer, SIG, TypeOK, vars, memory, history
<1>2. CASE log_to_mirror_buffer
  BY <1>2 DEF log_to_mirror_buffer, At, TypeOK, vars, memory, history
<1>3. CASE Clear0 \/ Move \/ Clear1
  BY <1>3 DEF Clear0, MirrorStep, At, Blank, Move, Clear1, TypeOK, vars, memory, history
<1>4. CASE Size0 \/ SizeLog \/ Counted
  BY <1>4 DEF Size0, MirrorStep, At, SetSize, SizeLog, Counted, TypeOK, vars, memory, history
<1>5. CASE CopyLog
  BY <1>5 DEF CopyLog, MirrorStep, At, TypeOK, vars, memory, history
<1>6. CASE log_to_emmc
  BY <1>6 DEF log_to_emmc, At, TypeOK, vars, memory, history
<1>7. CASE PartGet \/ WritePostfix
  BY <1>7 DEF PartGet, At, Sound, Fault, WritePostfix, TypeOK, vars, memory, history
<1>8. CASE WritePrefix \/ WriteMirror \/ WriteOthers \/ WriteEnd
  BY <1>8
     DEF WritePrefix, Write, At, Sound, Fault, WriteMirror, WriteOthers, WriteEnd, TypeOK, vars,
         memory, history
<1>9. CASE Schedule
  BY <1>9 DEF Schedule, At, TypeOK, vars, memory, history
<1>10. CASE ClearHeader
  BY <1>10 DEF ClearHeader, At, NoBuffer, SIG, TypeOK, vars, memory, history
<1>11. CASE mblock_reserve_ext
  BY <1>11
     DEF mblock_reserve_ext, At, Sound, Fault, Same, NEED_SAVE_TO_EMMC, TypeOK, vars, memory,
         history
<1>12. CASE FillHeader
  BY <1>12 DEF FillHeader, At, TypeOK, vars, memory, history
<1>13. CASE format_log_buff
  BY <1>13 DEF format_log_buff, At, Formatted, mirrorbuf_valid, SIG, TypeOK, vars, memory, history
<1>14. CASE pl_log_store
  BY <1>14 DEF pl_log_store, At, Log, TypeOK, vars, memory, history
<1>15. QED
  BY <1>1, <1>2, <1>3, <1>4, <1>5, <1>6, <1>7, <1>8, <1>9, <1>10, <1>11, <1>12, <1>13, <1>14
     DEF BootStep, MirrorSteps, SaveSteps

\* The steps of a boot push a log into the mirror that the header leads to, and leave it on top.
LEMMA PushedStep ==
  ASSUME TypeOK, Headers, Status, Counts, Home, Newest # Blank,
         NEW log \in Logs, log.n > 0, Pushed(log), BootStep
  PROVE  Pushed(log)'
<1>1. CASE log_store_init
  BY <1>1
     DEF log_store_init, At, ZeroSram, NoBuffer, SIG, Pushed, Pending, Top, HasHalf, Valid, Located,
         mirrorbuf_valid, logbuf_valid, BufferKept, Early, Moving, Copying, Saving, Filling, Kept,
         Target, TypeOK, Sram, Halves, Headers, vars, memory, history
<1>2. CASE log_to_mirror_buffer
  BY <1>2
     DEF log_to_mirror_buffer, At, Pushed, Pending, Top, HasHalf, Valid, Located, mirrorbuf_valid,
         logbuf_valid, BufferKept, Early, Moving, Copying, Saving, Filling, Kept, Target, TypeOK,
         Sram, Halves, Headers, vars, memory, history
<1>3. CASE Clear0 \/ Move \/ Clear1
  BY <1>3
     DEF Clear0, MirrorStep, At, Blank, Move, Clear1, Pushed, Pending, Top, HasHalf, Valid, Located,
         mirrorbuf_valid, logbuf_valid, BufferKept, Early, Moving, Copying, Saving, Filling, Kept,
         Target, TypeOK, Sram, Halves, Headers, vars, memory, history
<1>4. CASE Size0
  BY <1>4
     DEF Size0, MirrorStep, At, SetSize, Pushed, Pending, Top, HasHalf, Valid, Located,
         mirrorbuf_valid, logbuf_valid, BufferKept, Early, Moving, Copying, Saving, Filling, Kept,
         Target, TypeOK, Sram, Halves, Headers, vars, memory, history
<1>5. CASE CopyLog
  BY <1>5
     DEF CopyLog, MirrorStep, At, Pushed, Pending, Top, HasHalf, Valid, Located, mirrorbuf_valid,
         logbuf_valid, BufferKept, Early, Moving, Copying, Saving, Filling, Kept, Target, TypeOK,
         Sram, Halves, Headers, Counts, vars, memory, history
<1>6. CASE SizeLog
  <2>1. Target \in Halves /\ Kept \in 0 .. HALF
    BY Sizes DEF TypeOK, Sram, Target, Kept, Halves
  <2>2. /\ sram'.sig = sram.sig /\ sram'.dram = sram.dram /\ sram'.cur = sram.cur
        /\ sram'.mlog.sig = sram.mlog.sig /\ sram'.mlog.addr = sram.mlog.addr
        /\ sram'.mlog.count = sram.mlog.count /\ sram'.mlog.size[Target] = Kept
    BY <1>6, <2>1, SetSizeFields DEF SizeLog, MirrorStep, TypeOK
  <2>3. /\ Pending(log)' /\ Kept = log.n
    BY <1>6, <2>2
       DEF SizeLog, MirrorStep, At, Pushed, Early, Moving, Copying, Pending, Valid, Located, Kept,
           Log
  <2>4. HasHalf(Target, log)'
    BY <1>6, <2>2, <2>3 DEF SizeLog, MirrorStep, At, Pushed, HasHalf, Target
  <2>5. QED
    BY <1>6, <2>3, <2>4 DEF SizeLog, MirrorStep, At, Pushed, Early, Moving, Copying, Saving, Filling
<1>7. CASE Counted
  BY <1>7
     DEF Counted, MirrorStep, At, Pushed, Pending, Top, HasHalf, Valid, Located, mirrorbuf_valid,
         logbuf_valid, BufferKept, Early, Moving, Copying, Saving, Filling, Kept, Target, TypeOK,
         Sram, Halves, Headers, Counts, vars, memory, history
<1>8. CASE log_to_emmc
  BY <1>8
     DEF log_to_emmc, At, Pushed, Pending, Top, HasHalf, Valid, Located, mirrorbuf_valid,
         logbuf_valid, BufferKept, Early, Moving, Copying, Saving, Filling, Kept, Target, TypeOK,
         Sram, Halves, Headers, vars, memory, history
<1>9. CASE PartGet \/ WritePostfix
  BY <1>9
     DEF PartGet, At, Sound, Fault, WritePostfix, Pushed, Pending, Top, HasHalf, Valid, Located,
         mirrorbuf_valid, logbuf_valid, BufferKept, Early, Moving, Copying, Saving, Filling, Kept,
         Target, TypeOK, Sram, Halves, Headers, vars, memory, history
<1>10. CASE WritePrefix \/ WriteMirror \/ WriteOthers \/ WriteEnd
  BY <1>10
     DEF WritePrefix, Write, At, Sound, Fault, WriteMirror, WriteOthers, WriteEnd, Pushed, Pending,
         Top, HasHalf, Valid, Located, mirrorbuf_valid, logbuf_valid, BufferKept, Early, Moving,
         Copying, Saving, Filling, Kept, Target, TypeOK, Sram, Halves, Headers, vars, memory,
         history
<1>11. CASE Schedule
  BY <1>11
     DEF Schedule, At, Pushed, Pending, Top, HasHalf, Valid, Located, mirrorbuf_valid, logbuf_valid,
         BufferKept, Early, Moving, Copying, Saving, Filling, Kept, Target, TypeOK, Sram, Halves,
         Headers, vars, memory, history
<1>12. CASE ClearHeader
  BY <1>12
     DEF ClearHeader, At, NoBuffer, SIG, Pushed, Pending, Top, HasHalf, Valid, Located,
         mirrorbuf_valid, logbuf_valid, BufferKept, Early, Moving, Copying, Saving, Filling, Kept,
         Target, TypeOK, Sram, Halves, Headers, vars, memory, history
<1>13. CASE mblock_reserve_ext
  BY <1>13
     DEF mblock_reserve_ext, At, Sound, Fault, Same, NEED_SAVE_TO_EMMC, Pushed, Pending, Top,
         HasHalf, Valid, Located, mirrorbuf_valid, logbuf_valid, BufferKept, Early, Moving, Copying,
         Saving, Filling, Kept, Target, TypeOK, Sram, Halves, Headers, vars, memory, history
<1>14. CASE FillHeader
  BY <1>14
     DEF FillHeader, At, Pushed, Pending, Top, HasHalf, Valid, Located, mirrorbuf_valid,
         logbuf_valid, BufferKept, Early, Moving, Copying, Saving, Filling, Kept, Target, TypeOK,
         Sram, Halves, Headers, Home, Newest, Same, vars, memory, history
<1>15. CASE format_log_buff
  <2>1. sram'.mlog = sram.mlog
    BY <1>15, FormattedFields
       DEF format_log_buff, At, TypeOK, Headers, Located, Home, Newest, mirrorbuf_valid
  <2>2. Top(log)'
    BY <1>15, <2>1 DEF format_log_buff, At, Pushed, Filling, Top, HasHalf
  <2>3. QED
    BY <1>15, <2>2 DEF format_log_buff, At, Pushed, Early, Moving, Copying, Saving, Filling
<1>16. CASE pl_log_store
  BY <1>16
     DEF pl_log_store, At, Log, Pushed, Pending, Top, HasHalf, Valid, Located, mirrorbuf_valid,
         logbuf_valid, BufferKept, Early, Moving, Copying, Saving, Filling, Kept, Target, TypeOK,
         Sram, Halves, Headers, vars, memory, history
<1>17. QED
  BY <1>1, <1>2, <1>3, <1>4, <1>5, <1>6, <1>7, <1>8, <1>9, <1>10, <1>11, <1>12, <1>13, <1>14, <1>15,
     <1>16
     DEF BootStep, MirrorSteps, SaveSteps

\* The steps of a boot move the log on top out of the way of a newer one, and not out of the mirror.
LEMMA MovedStep ==
  ASSUME TypeOK, Headers, Home, Newest # Blank, NEW log \in Logs, Moved(log), BootStep
  PROVE  Moved(log)'
<1>1. CASE log_store_init
  BY <1>1
     DEF log_store_init, At, ZeroSram, NoBuffer, SIG, Moved, Top, HasHalf, Filled, Early, Moving,
         Copying, Saving, Filling, Target, TypeOK, Sram, Halves, Home, Newest, vars, memory, history
<1>2. CASE log_to_mirror_buffer
  BY <1>2
     DEF log_to_mirror_buffer, At, Moved, Top, HasHalf, Filled, Early, Moving, Copying, Saving,
         Filling, Target, TypeOK, Sram, Halves, vars, memory, history
<1>3. CASE Clear0 \/ Move \/ Clear1
  BY <1>3
     DEF Clear0, MirrorStep, At, Blank, Move, Clear1, Moved, Top, HasHalf, Filled, Early, Moving,
         Copying, Saving, Filling, Target, TypeOK, Sram, Halves, vars, memory, history
<1>4. CASE Size0 \/ SizeLog \/ Counted
  BY <1>4
     DEF Size0, MirrorStep, At, SetSize, SizeLog, Counted, Moved, Top, HasHalf, Filled, Early,
         Moving, Copying, Saving, Filling, Target, TypeOK, Sram, Halves, vars, memory, history
<1>5. CASE CopyLog
  BY <1>5
     DEF CopyLog, MirrorStep, At, Moved, Top, HasHalf, Filled, Early, Moving, Copying, Saving,
         Filling, Target, TypeOK, Sram, Halves, vars, memory, history
<1>6. CASE log_to_emmc
  BY <1>6
     DEF log_to_emmc, At, Moved, Top, HasHalf, Filled, Early, Moving, Copying, Saving, Filling,
         Target, TypeOK, Sram, Halves, vars, memory, history
<1>7. CASE PartGet \/ WritePostfix
  BY <1>7
     DEF PartGet, At, Sound, Fault, WritePostfix, Moved, Top, HasHalf, Filled, Early, Moving,
         Copying, Saving, Filling, Target, TypeOK, Sram, Halves, vars, memory, history
<1>8. CASE WritePrefix \/ WriteMirror \/ WriteOthers \/ WriteEnd
  BY <1>8
     DEF WritePrefix, Write, At, Sound, Fault, WriteMirror, WriteOthers, WriteEnd, Moved, Top,
         HasHalf, Filled, Early, Moving, Copying, Saving, Filling, Target, TypeOK, Sram, Halves,
         vars, memory, history
<1>9. CASE Schedule
  BY <1>9
     DEF Schedule, At, Moved, Top, HasHalf, Filled, Early, Moving, Copying, Saving, Filling, Target,
         TypeOK, Sram, Halves, vars, memory, history
<1>10. CASE ClearHeader
  BY <1>10
     DEF ClearHeader, At, NoBuffer, SIG, Moved, Top, HasHalf, Filled, Early, Moving, Copying,
         Saving, Filling, Target, TypeOK, Sram, Halves, vars, memory, history
<1>11. CASE mblock_reserve_ext
  BY <1>11
     DEF mblock_reserve_ext, At, Sound, Fault, Same, NEED_SAVE_TO_EMMC, Moved, Top, HasHalf, Filled,
         Early, Moving, Copying, Saving, Filling, Target, TypeOK, Sram, Halves, vars, memory,
         history
<1>12. CASE FillHeader
  BY <1>12
     DEF FillHeader, At, Moved, Top, HasHalf, Filled, Early, Moving, Copying, Saving, Filling,
         Target, TypeOK, Sram, Halves, vars, memory, history
<1>13. CASE format_log_buff
  BY <1>13
     DEF format_log_buff, At, Formatted, mirrorbuf_valid, SIG, Moved, Top, HasHalf, Filled, Early,
         Moving, Copying, Saving, Filling, Target, TypeOK, Sram, Halves, vars, memory, history
<1>14. CASE pl_log_store
  BY <1>14
     DEF pl_log_store, At, Log, Moved, Top, HasHalf, Filled, Early, Moving, Copying, Saving,
         Filling, Target, TypeOK, Sram, Halves, vars, memory, history
<1>15. QED
  BY <1>1, <1>2, <1>3, <1>4, <1>5, <1>6, <1>7, <1>8, <1>9, <1>10, <1>11, <1>12, <1>13, <1>14
     DEF BootStep, MirrorSteps, SaveSteps

\* A log that has been moved is in a half of the mirror, with its size, for the rest of the boot.
LEMMA FoundStep ==
  ASSUME TypeOK, Headers, Home, Newest # Blank, NEW log \in Logs, Moved(log), Found(log), BootStep
  PROVE  Found(log)'
<1>1. CASE log_store_init
  BY <1>1
     DEF log_store_init, At, ZeroSram, NoBuffer, SIG, Moved, Found, Top, HasHalf, Filled, Target,
         Early, Moving, Copying, Saving, Filling, TypeOK, Sram, Halves, vars, memory, history
<1>2. CASE log_to_mirror_buffer
  BY <1>2
     DEF log_to_mirror_buffer, At, Moved, Found, Top, HasHalf, Filled, Target, Early, Moving,
         Copying, Saving, Filling, TypeOK, Sram, Halves, vars, memory, history
<1>3. CASE Clear0 \/ Move \/ Clear1
  BY <1>3
     DEF Clear0, MirrorStep, At, Blank, Move, Clear1, Moved, Found, Top, HasHalf, Filled, Target,
         Early, Moving, Copying, Saving, Filling, TypeOK, Sram, Halves, vars, memory, history
<1>4. CASE Size0 \/ SizeLog \/ Counted
  BY <1>4
     DEF Size0, MirrorStep, At, SetSize, SizeLog, Counted, Moved, Found, Top, HasHalf, Filled,
         Target, Early, Moving, Copying, Saving, Filling, TypeOK, Sram, Halves, vars, memory,
         history
<1>5. CASE CopyLog
  BY <1>5
     DEF CopyLog, MirrorStep, At, Moved, Found, Top, HasHalf, Filled, Target, Early, Moving,
         Copying, Saving, Filling, TypeOK, Sram, Halves, vars, memory, history
<1>6. CASE log_to_emmc
  BY <1>6
     DEF log_to_emmc, At, Moved, Found, Top, HasHalf, Filled, Target, Early, Moving, Copying,
         Saving, Filling, TypeOK, Sram, Halves, vars, memory, history
<1>7. CASE PartGet \/ WritePostfix
  BY <1>7
     DEF PartGet, At, Sound, Fault, WritePostfix, Moved, Found, Top, HasHalf, Filled, Target, Early,
         Moving, Copying, Saving, Filling, TypeOK, Sram, Halves, vars, memory, history
<1>8. CASE WritePrefix \/ WriteMirror \/ WriteOthers \/ WriteEnd
  BY <1>8
     DEF WritePrefix, Write, At, Sound, Fault, WriteMirror, WriteOthers, WriteEnd, Moved, Found,
         Top, HasHalf, Filled, Target, Early, Moving, Copying, Saving, Filling, TypeOK, Sram,
         Halves, vars, memory, history
<1>9. CASE Schedule
  BY <1>9
     DEF Schedule, At, Moved, Found, Top, HasHalf, Filled, Target, Early, Moving, Copying, Saving,
         Filling, TypeOK, Sram, Halves, vars, memory, history
<1>10. CASE ClearHeader
  BY <1>10
     DEF ClearHeader, At, NoBuffer, SIG, Moved, Found, Top, HasHalf, Filled, Target, Early, Moving,
         Copying, Saving, Filling, TypeOK, Sram, Halves, vars, memory, history
<1>11. CASE mblock_reserve_ext
  BY <1>11
     DEF mblock_reserve_ext, At, Sound, Fault, Same, NEED_SAVE_TO_EMMC, Moved, Found, Top, HasHalf,
         Filled, Target, Early, Moving, Copying, Saving, Filling, TypeOK, Sram, Halves, vars,
         memory, history
<1>12. CASE FillHeader
  BY <1>12
     DEF FillHeader, At, Moved, Found, Top, HasHalf, Filled, Target, Early, Moving, Copying, Saving,
         Filling, TypeOK, Sram, Halves, Home, Newest, Same, Headers, Located, vars, memory, history
<1>13. CASE format_log_buff
  <2>1. sram'.mlog = sram.mlog
    BY <1>13, FormattedFields
       DEF format_log_buff, At, TypeOK, Headers, Located, Home, Newest, mirrorbuf_valid
  <2>2. QED
    BY <1>13, <2>1 DEF format_log_buff, At, Found, Filling, HasHalf
<1>14. CASE pl_log_store
  BY <1>14
     DEF pl_log_store, At, Log, Moved, Found, Top, HasHalf, Filled, Target, Early, Moving, Copying,
         Saving, Filling, TypeOK, Sram, Halves, vars, memory, history
<1>15. QED
  BY <1>1, <1>2, <1>3, <1>4, <1>5, <1>6, <1>7, <1>8, <1>9, <1>10, <1>11, <1>12, <1>13, <1>14
     DEF BootStep, MirrorSteps, SaveSteps

\* Every step keeps the newest log: where the boot is cut short, the next one
\* finds it on top of the mirror, or pushes it again.
LEMMA NewestStep ==
  IInv /\ [Next]_vars => NewestHeld'
<1> SUFFICES ASSUME IInv, [Next]_vars, Newest' # Blank
             PROVE  /\ (rough = 0)' => Pushed(Newest)'
                    /\ (rough = 1)' => Pushed(Newest)' \/ (Moved(Newest)' /\ Found(Newest)')
    BY DEF NewestHeld, Newest
<1>1. CASE BootStep
  <2>1. Newest' = Newest /\ Newest # Blank /\ rough' = rough
    BY <1>1, HistoryOfStep DEF IInv, Newest
  <2>2. Newest \in Logs /\ Newest.n > 0
    BY <2>1 DEF IInv, TypeOK, Newest, Histories
  <2>3. Pushed(Newest) => Pushed(Newest)'
    BY <1>1, <2>1, <2>2, PushedStep DEF IInv
  <2>4. Moved(Newest) /\ Found(Newest) => Moved(Newest)' /\ Found(Newest)'
    BY <1>1, <2>1, <2>2, MovedStep, FoundStep DEF IInv
  <2>5. QED
    BY <2>1, <2>3, <2>4 DEF IInv, NewestHeld
<1>2. CASE Reset
  <2>1. sram' = sram /\ buf' = buf /\ mirror' = mirror /\ pc' = "log_store_init"
    BY <1>2 DEF Reset, Again, memory
  <2>2. CASE At("run") /\ sram.cur.n > 0 /\ log_store_status # "ALLOC_ERROR"
    <3>1. Newest' = Log(boot, Kept) /\ rough' = 0
      BY <1>2, <2>2 DEF Reset, Newest
    <3>2. Valid /\ buf.of = boot
      BY <2>2 DEF IInv, TypeOK, Status, Ready, At
    <3>3. Pushed(Newest)'
      BY <2>1, <2>2, <3>1, <3>2
         DEF Pushed, Pending, Valid, Located, Kept, Saving, Filling
    <3>4. QED
      BY <3>1, <3>3
  <2>3. CASE ~(At("run") /\ sram.cur.n > 0 /\ log_store_status # "ALLOC_ERROR")
    <3>1. Newest' = Newest /\ rough' = rough + 1 /\ rough \in Nat
      BY <1>2, <2>3 DEF Reset, Newest, IInv, TypeOK
    <3>2. CASE rough = 0
      <4>1. Pushed(Newest)
        BY <3>1, <3>2 DEF IInv, NewestHeld
      <4>2. CASE pc \in Filling
        <5>1. Top(Newest)'
          BY <2>1, <3>1, <4>1, <4>2 DEF Pushed, Top, HasHalf
        <5>2. QED
          BY <2>1, <3>1, <3>2, <5>1 DEF Moved, Found, Early, Moving, Copying, Saving, Filling
      <4>3. CASE pc \notin Filling
        <5>1. Pending(Newest)
          BY <4>1, <4>3 DEF Pushed, Early, Moving, Copying, Saving, Filling, IInv, TypeOK, Steps
        <5>2. Pushed(Newest)'
          BY <2>1, <3>1, <5>1 DEF Pushed, Pending, Valid, Located, Kept, Saving, Filling
        <5>3. QED
          BY <3>1, <3>2, <5>2
      <4>4. QED
        BY <4>2, <4>3
    <3>3. CASE rough # 0
      BY <3>1, <3>3
    <3>4. QED
      BY <3>2, <3>3
  <2>4. QED
    BY <2>2, <2>3
<1>3. CASE PowerLoss
  BY <1>3 DEF PowerLoss, Newest
<1>4. CASE UNCHANGED vars
  BY <1>4
     DEF vars, memory, history, IInv, NewestHeld, Newest, Pushed, Moved, Found, Pending, Valid,
         Located, Kept,
              Target, Top, HasHalf, Filled
<1>5. QED
  BY <1>1, <1>2, <1>3, <1>4 DEF Next, BootStep

\* A boot that pushes a log onto another leaves both, the older one first.
LEMMA BothStep ==
  ASSUME TypeOK, Headers, Home, Newest # Blank, NEW old \in Logs, Moved(old),
         NEW new \in Logs, new.n > 0, Pushed(new),
         pc \in Saving \cup Filling => HasHalf(0, old) /\ HasHalf(1, new), BootStep
  PROVE  (pc \in Saving \cup Filling)' => HasHalf(0, old)' /\ HasHalf(1, new)'
<1>1. CASE log_store_init
  BY <1>1
     DEF log_store_init, At, ZeroSram, NoBuffer, SIG, Moved, Pushed, HasHalf, Early, Moving,
         Copying, Saving, Filling, vars, memory, history
<1>2. CASE log_to_mirror_buffer
  BY <1>2
     DEF log_to_mirror_buffer, At, Moved, Pushed, HasHalf, Early, Moving, Copying, Saving, Filling,
         Pending, Valid, Located, mirrorbuf_valid, logbuf_valid, BufferKept, Target, TypeOK, Sram,
         Halves, vars, memory, history
<1>3. CASE Clear0 \/ Move \/ Clear1
  BY <1>3
     DEF Clear0, MirrorStep, At, Blank, Move, Clear1, Moved, Pushed, HasHalf, Early, Moving,
         Copying, Saving, Filling, vars, memory, history
<1>4. CASE Size0 \/ SizeLog
  BY <1>4
     DEF Size0, MirrorStep, At, SetSize, SizeLog, Moved, Pushed, HasHalf, Early, Moving, Copying,
         Saving, Filling, vars, memory, history
<1>5. CASE CopyLog
  BY <1>5
     DEF CopyLog, MirrorStep, At, Moved, Pushed, HasHalf, Early, Moving, Copying, Saving, Filling,
         Pending, Valid, Located, mirrorbuf_valid, logbuf_valid, BufferKept, Target, TypeOK, Sram,
         Halves, vars, memory, history
<1>6. CASE Counted
  BY <1>6
     DEF Counted, MirrorStep, At, Moved, Pushed, HasHalf, Early, Moving, Copying, Saving, Filling,
         Pending, Valid, Located, mirrorbuf_valid, logbuf_valid, BufferKept, Target, TypeOK, Sram,
         Halves, vars, memory, history
<1>7. CASE log_to_emmc
  BY <1>7
     DEF log_to_emmc, At, Moved, Pushed, HasHalf, Early, Moving, Copying, Saving, Filling, TypeOK,
         Sram, vars, memory, history
<1>8. CASE PartGet \/ WritePostfix
  BY <1>8
     DEF PartGet, At, Sound, Fault, WritePostfix, Moved, Pushed, HasHalf, Early, Moving, Copying,
         Saving, Filling, vars, memory, history
<1>9. CASE WritePrefix \/ WriteMirror \/ WriteOthers \/ WriteEnd
  BY <1>9
     DEF WritePrefix, Write, At, Sound, Fault, WriteMirror, WriteOthers, WriteEnd, Moved, Pushed,
         HasHalf, Early, Moving, Copying, Saving, Filling, vars, memory, history
<1>10. CASE Schedule
  BY <1>10
     DEF Schedule, At, Moved, Pushed, HasHalf, Early, Moving, Copying, Saving, Filling, TypeOK,
         Sram, vars, memory, history
<1>11. CASE ClearHeader
  BY <1>11
     DEF ClearHeader, At, NoBuffer, SIG, Moved, Pushed, HasHalf, Early, Moving, Copying, Saving,
         Filling, TypeOK, Sram, vars, memory, history
<1>12. CASE mblock_reserve_ext
  BY <1>12
     DEF mblock_reserve_ext, At, Sound, Fault, Same, NEED_SAVE_TO_EMMC, Moved, Pushed, HasHalf,
         Early, Moving, Copying, Saving, Filling, TypeOK, Sram, vars, memory, history
<1>13. CASE FillHeader
  BY <1>13
     DEF FillHeader, At, Moved, Pushed, HasHalf, Early, Moving, Copying, Saving, Filling, Home,
         Newest, Same, Headers, Located, TypeOK, Sram, vars, memory, history
<1>14. CASE format_log_buff
  <2>1. sram'.mlog = sram.mlog
    BY <1>14, FormattedFields
       DEF format_log_buff, At, TypeOK, Headers, Located, Home, Newest, mirrorbuf_valid
  <2>2. QED
    BY <1>14, <2>1 DEF format_log_buff, At, Filling, HasHalf
<1>15. CASE pl_log_store
  BY <1>15
     DEF pl_log_store, At, Log, Moved, Pushed, HasHalf, Early, Moving, Copying, Saving, Filling,
         TypeOK, Sram, vars, memory, history
<1>16. QED
  BY <1>1, <1>2, <1>3, <1>4, <1>5, <1>6, <1>7, <1>8, <1>9, <1>10, <1>11, <1>12, <1>13, <1>14, <1>15
     DEF BootStep, MirrorSteps, SaveSteps

\* Every step keeps the two logs of boots that were not cut short.
LEMMA PreviousStep ==
  IInv /\ [Next]_vars => PreviousHeld'
<1> SUFFICES ASSUME IInv, [Next]_vars, calm' >= 2
             PROVE  /\ Moved(logged[1])'
                    /\ (pc \in Saving \cup Filling)' => HasHalf(0, logged[1])' /\ HasHalf(1, Newest)'
    BY DEF PreviousHeld
<1>1. CASE BootStep
  <2>1. calm >= 2 /\ logged' = logged
    BY <1>1, HistoryOfStep DEF IInv
  <2>2. rough = 0 /\ Newest # Blank /\ Newest.n > 0 /\ Newest \in Logs /\ logged[1] \in Logs
    BY <2>1 DEF IInv, TypeOK, Histories, Newest
  <2>3. /\ Pushed(Newest) /\ Moved(logged[1])
        /\ pc \in Saving \cup Filling => HasHalf(0, logged[1]) /\ HasHalf(1, Newest)
    BY <2>1, <2>2 DEF IInv, NewestHeld, PreviousHeld
  <2>4. Newest' = Newest
    BY <2>1 DEF Newest
  <2>5. Moved(logged[1])'
    BY <1>1, <2>1, <2>2, <2>3, MovedStep DEF IInv
  <2>6. (pc \in Saving \cup Filling)' => HasHalf(0, logged[1])' /\ HasHalf(1, Newest)'
    BY <1>1, <2>1, <2>2, <2>3, <2>4, BothStep DEF IInv
  <2>7. QED
    BY <2>5, <2>6
<1>2. CASE Reset
  <2>1. /\ At("run") /\ log_store_status # "ALLOC_ERROR" /\ calm >= 1 /\ logged'[1] = Newest
        /\ sram' = sram /\ mirror' = mirror /\ pc' = "log_store_init"
    BY <1>2 DEF Reset, Again, Newest, memory, IInv, TypeOK
  <2>2. Top(Newest)
    BY <2>1 DEF IInv, Histories, NewestHeld, Pushed, At, Filling
  <2>3. Top(logged[1])'
    BY <2>1, <2>2 DEF Top, HasHalf
  <2>4. QED
    BY <2>1, <2>3 DEF Moved, Early, Moving, Copying, Saving, Filling
<1>3. CASE PowerLoss
  BY <1>3 DEF PowerLoss
<1>4. CASE UNCHANGED vars
  BY <1>4 DEF vars, memory, history, IInv, PreviousHeld, Newest, Moved, Top, HasHalf, Filled
<1>5. QED
  BY <1>1, <1>2, <1>3, <1>4 DEF Next, BootStep

\* Every step keeps what the first saves wrote.
LEMMA FirstSavesStep == TypeOK /\ Histories /\ NewestHeld /\ FirstSaves /\ [Next]_vars => FirstSaves'
<1> SUFFICES ASSUME TypeOK, Histories, NewestHeld, FirstSaves, [Next]_vars
             PROVE  FirstSaves'
    OBVIOUS
<1>1. CASE log_store_init
  BY <1>1
     DEF log_store_init, At, ZeroSram, NoBuffer, SIG, FirstSaves, Newest, Saved, TypeOK, Sram,
         Filling, vars, memory, history
<1>2. CASE log_to_mirror_buffer
  BY <1>2
     DEF log_to_mirror_buffer, At, FirstSaves, Newest, Saved, TypeOK, Sram, Filling, vars, memory,
         history
<1>3. CASE Clear0 \/ Move \/ Clear1
  BY <1>3
     DEF Clear0, MirrorStep, At, Blank, Move, Clear1, FirstSaves, Newest, Saved, TypeOK, Sram,
         Filling, vars, memory, history
<1>4. CASE Size0 \/ SizeLog \/ Counted
  BY <1>4
     DEF Size0, MirrorStep, At, SetSize, SizeLog, Counted, FirstSaves, Newest, Saved, TypeOK, Sram,
         Filling, vars, memory, history
<1>5. CASE CopyLog
  BY <1>5
     DEF CopyLog, MirrorStep, At, FirstSaves, Newest, Saved, TypeOK, Sram, Filling, vars, memory,
         history
<1>6. CASE log_to_emmc
  <2>1. calm >= 1 /\ sram'.reboot_count <= TOP => pc' = "part_get"
    <3>1. SUFFICES ASSUME calm >= 1, sram'.reboot_count <= TOP
                   PROVE  pc' = "part_get"
      OBVIOUS
    <3>2. Valid
      BY <1>6, <3>1 DEF log_to_emmc, At, Histories, NewestHeld, Pushed, Pending, Saving
    <3>3. sram'.reboot_count = sram.reboot_count + 1
      BY <1>6, <3>2 DEF log_to_emmc, Valid, Located, BufferKept, TypeOK, Sram
    <3>4. Due
      BY <3>1, <3>3, Sizes DEF FirstSaves, Due, TypeOK, Sram
    <3>5. QED
      BY <1>6, <3>2, <3>4 DEF log_to_emmc, Valid, Located, BufferKept, logbuf_valid
  <2>2. sram'.reboot_count < TOP => sram'.save_to_emmc = 0
    BY <1>6, Sizes DEF log_to_emmc, FirstSaves, TypeOK, Sram
  <2>3. QED
    BY <1>6, <2>1, <2>2 DEF log_to_emmc, FirstSaves, Saved, Filling
<1>7. CASE PartGet \/ WritePostfix
  BY <1>7
     DEF PartGet, At, Sound, Fault, WritePostfix, FirstSaves, Newest, Saved, TypeOK, Sram, Filling,
         vars, memory, history
<1>8. CASE WritePrefix \/ WriteOthers \/ WriteEnd
  BY <1>8
     DEF WritePrefix, Write, At, Sound, Fault, WriteOthers, WriteEnd, FirstSaves, Newest, Saved,
         TypeOK, Sram, Filling, vars, memory, history
<1>9. CASE WriteMirror
  <2>1. calm' >= 1 => \E h \in Halves : expdb'[h] = Newest
    <3>1. SUFFICES ASSUME calm' >= 1
                   PROVE  \E h \in Halves : expdb'[h] = Newest
      OBVIOUS
    <3>2. Sound /\ calm >= 1
      BY <1>9, <3>1 DEF WriteMirror, Write, Sound, Fault
    <3>3. Valid /\ Top(Newest)
      BY <1>9, <3>2 DEF WriteMirror, Write, At, Histories, NewestHeld, Pushed, Pending, Saving
    <3>4. expdb' = mirror
      BY <1>9, <3>1, <3>3 DEF WriteMirror, Write, Sound, Fault, Valid, Located
    <3>5. QED
      BY <3>3, <3>4 DEF Top, HasHalf, Halves
  <2>2. QED
    BY <1>9, <2>1 DEF WriteMirror, Write, FirstSaves, Newest
<1>10. CASE Schedule
  BY <1>10, Sizes
     DEF Schedule, At, FirstSaves, Newest, Saved, TypeOK, Sram, Filling, NextSave, vars, memory,
         history
<1>11. CASE ClearHeader
  BY <1>11
     DEF ClearHeader, At, NoBuffer, SIG, FirstSaves, Newest, Saved, TypeOK, Sram, Filling, vars,
         memory, history
<1>12. CASE mblock_reserve_ext
  BY <1>12
     DEF mblock_reserve_ext, At, Sound, Fault, Same, NEED_SAVE_TO_EMMC, FirstSaves, Newest, Saved,
         TypeOK, Sram, Filling, vars, memory, history
<1>13. CASE FillHeader
  BY <1>13
     DEF FillHeader, At, FirstSaves, Newest, Saved, TypeOK, Sram, Filling, vars, memory, history
<1>14. CASE format_log_buff
  BY <1>14, FormattedFields
     DEF format_log_buff, At, TypeOK, FirstSaves, Saved, Filling, Newest, history
<1>15. CASE pl_log_store
  BY <1>15
     DEF pl_log_store, At, Log, FirstSaves, Newest, Saved, TypeOK, Sram, Filling, vars, memory,
         history
<1>16. CASE Reset
  BY <1>16
     DEF Reset, Again, At, FirstSaves, Newest, Saved, TypeOK, Sram, Filling, vars, memory, history
<1>17. CASE PowerLoss
  BY <1>17
     DEF PowerLoss, Again, At, ZeroSram, NoBuffer, FirstSaves, Newest, Saved, TypeOK, Sram, Filling,
         vars, memory, history
<1>18. CASE UNCHANGED vars
  BY <1>18 DEF FirstSaves, Newest, Saved, TypeOK, Sram, Filling, vars, memory, history
<1>19. QED
  BY <1>1, <1>2, <1>3, <1>4, <1>5, <1>6, <1>7, <1>8, <1>9, <1>10, <1>11, <1>12, <1>13, <1>14, <1>15,
     <1>16, <1>17, <1>18
     DEF Next, MirrorSteps, SaveSteps

-----------------------------------------------------------------------------
(* The theorems.                                                           *)

\* The headers are empty, and so is all that the invariant speaks of.
LEMMA InitIInv == Init => IInv
<1> SUFFICES ASSUME Init
             PROVE  IInv
    OBVIOUS
<1> USE DEF Init
<1>1. ZeroSram \in Sram
  BY Sizes DEF ZeroSram, NoBuffer, Sram, Halves
<1>2. TypeOK
  <2>1. Blank \in Logs /\ Blank \in [of : 0 .. MaxBoots, n : 0 .. FULL]
    BY Sizes DEF Blank, Logs
  <2>2. 1 \in 1 .. MaxBoots
    BY Sizes
  <2>3. QED
    BY <1>1, <2>1, <2>2 DEF TypeOK, ZeroSram, NoBuffer, Steps
<1>3. Headers /\ Status /\ Home /\ Counts
  BY DEF Headers, Status, Ready, Home, Newest, Counts, ZeroSram, Early, Filling, Halves, Blank
<1>4. Histories /\ NewestHeld /\ PreviousHeld /\ OwedDue /\ FirstSaves
  BY DEF Histories, NewestHeld, PreviousHeld, OwedDue, FirstSaves, Newest, ZeroSram, Blank
<1>5. QED
  BY <1>2, <1>3, <1>4 DEF IInv

LEMMA StepIInv == IInv /\ [Next]_vars => IInv'
BY TypeStep, HeadersStep, StatusStep, CountsStep, HomeStep, OwedStep, HistoriesStep,
   NewestStep, PreviousStep, FirstSavesStep DEF IInv

LEMMA Invariant == Spec => []IInv
BY InitIInv, StepIInv, PTL DEF Spec

\* Types: a log never outgrows its buffer, nor a copy of it its half, for
\* every size of the two and any number of resets.
THEOREM TypeCorrect == Spec => []TypeOK
<1>1. IInv => TypeOK
  BY DEF IInv
<1>2. QED
  BY Invariant, <1>1, PTL

\* The log of the latest boot that wrote one is in the mirror when the next
\* boot runs, and after one more that was cut short or wrote nothing: wherever
\* the resets come in log_to_mirror_buffer and format_log_buff.
THEOREM NewestKept == Spec => []NewestIsKept
<1>1. IInv => NewestIsKept
  <2> SUFFICES ASSUME IInv, Ready, rough <= 1, Newest # Blank
               PROVE  \E h \in Halves : HasHalf(h, Newest)
    BY DEF NewestIsKept, Newest
  <2>1. pc = "run"
    BY DEF IInv, Status, Ready
  <2>2. Top(Newest) => \E h \in Halves : HasHalf(h, Newest)
    BY DEF Top, Halves
  <2>3. CASE rough = 0
    BY <2>1, <2>2, <2>3 DEF IInv, NewestHeld, Pushed, Filling
  <2>4. CASE rough = 1
    BY <2>1, <2>2, <2>4 DEF IInv, NewestHeld, Pushed, Found, Filling
  <2>5. QED
    BY <2>3, <2>4 DEF IInv, TypeOK
<1>2. QED
  BY Invariant, <1>1, PTL

\* After two boots with a log and without a fault the mirror holds both logs,
\* the older one first (the move of log_to_mirror_buffer).
THEOREM PreviousKept == Spec => []PreviousIsKept
<1>1. IInv => PreviousIsKept
  <2> SUFFICES ASSUME IInv, Ready, calm >= 2
               PROVE  \A h \in Halves : HasHalf(h, logged[h + 1])
    BY DEF PreviousIsKept
  <2>1. pc = "run"
    BY DEF IInv, Status, Ready
  <2>2. HasHalf(0, logged[1]) /\ HasHalf(1, logged[2])
    BY <2>1 DEF IInv, PreviousHeld, Filling, Newest
  <2>3. QED
    BY <2>2 DEF Halves
<1>2. QED
  BY Invariant, <1>1, PTL

\* A save that was due and did not end is due again (the end of log_to_emmc).
THEOREM OwedStaysDue == Spec => []OwedIsDue
<1>1. IInv => OwedIsDue
  BY DEF IInv, TypeOK, Sram, OwedDue, OwedIsDue, Due
<1>2. QED
  BY Invariant, <1>1, PTL

\* The partition holds the latest log after each of the first TOP warm
\* reboots, whatever TOP is (log_to_emmc: "save the top 3 times").
THEOREM FirstAreSaved == Spec => []TopAreSaved
<1>1. IInv => TopAreSaved
  <2> SUFFICES ASSUME IInv, Ready, calm >= 1, sram.reboot_count \in 1 .. TOP
               PROVE  \E h \in Halves : expdb[h] = Newest
    BY DEF TopAreSaved, Newest
  <2>1. pc \in Saved
    BY DEF IInv, Status, Ready, Saved, Filling
  <2>2. QED
    BY <2>1, Sizes DEF IInv, FirstSaves
<1>2. QED
  BY Invariant, <1>1, PTL
=============================================================================
