------------------------------- MODULE AbBoot --------------------------------
(***************************************************************************)
(* The A/B slot decision of the preloader (common/ab_bootcheck.c) over the *)
(* boot-control metadata in the "para" partition                           *)
(* (common/bootctrl/bootctrl_api.c).                                       *)
(*                                                                         *)
(* Every boot-control call reads the metadata anew and may fail; a call    *)
(* that writes may fail with or without having stored anything.  One       *)
(* action is one call.  Power may be cut between any two calls: the        *)
(* metadata and the boot partition survive, everything else is lost.       *)
(*                                                                         *)
(* CHECKS_AFTER_INVALID tells apart the common code (TRUE) from the older  *)
(* copy of the loop in mt6735/src/core/main.c (FALSE), which switches      *)
(* preloaders without asking whether the other slot is valid.              *)
(***************************************************************************)
EXTENDS Integers

CONSTANTS TOP_PRIORITY,          \* 7: priority set_active_slot gives
          RETRY,                 \* 3: retry_count set_active_slot gives
          CHECKS_AFTER_INVALID,
          HEALTHY,               \* slots whose system can confirm itself
          MaxFaults,             \* bound: boots in which storage fails
          MaxCuts,               \* bound: power cuts during the decision
          NULL

Slot == {"a", "b"}

ASSUME ConstantsAssumption ==
  /\ TOP_PRIORITY \in 1..7
  /\ RETRY \in 1..7
  /\ CHECKS_AFTER_INVALID \in BOOLEAN
  /\ HEALTHY \subseteq Slot
  /\ MaxFaults \in Nat /\ MaxCuts \in Nat
  /\ NULL \notin Slot

VARIABLES
  \* durable
  magic,            \* metadata.magic
  priority, retry_count, successful_boot, normal_boot,   \* slot_info[2]
  bootPart,         \* boot partition (eMMC) or boot LU (UFS) of the ROM
  \* volatile
  pc,               \* next call of the preloader, or what runs
  ab_suffix, ab_retry, g_boot_mode,
  loaded,           \* slot whose images were loaded
  \* history
  storage,          \* "failed" once an access failed since power-on
  faults,           \* boots that saw such a failure
  cuts,             \* power cuts that hit the decision
  boots,            \* unconfirmed normal boots decided since activation
  faulty,           \* of those, the ones in a boot that saw a failure
  parted            \* a cut or a failure may have parted the two writes of a
                    \* switch since the last update

meta == <<magic, priority, retry_count, successful_boot, normal_boot>>
durable == <<meta, bootPart>>
counters == <<cuts, boots, faulty>>
history == <<counters, parted>>
storageVars == <<storage, faults>>
local == <<ab_suffix, ab_retry, g_boot_mode, loaded>>
vars == <<durable, pc, local, storageVars, history>>

Other(s) == IF s = "a" THEN "b" ELSE "a"
Valid(s) == priority[s] > 0
\* Mutant: the comparison of get_suffix turned round.
ActiveLowest == IF priority["a"] <= priority["b"] THEN "a" ELSE "b"
Active == IF priority["a"] >= priority["b"] THEN "a" ELSE "b"

\* Mutant: a failing get_retry_count stays negative.
NoRetrySigned == -1
\* A failing boot-control call returns -1, which as a uint8_t is 2^8 - 1.
NoRetry == 256 - 1

-----------------------------------------------------------------------------
(* Storage accesses.                                                       *)

AccessOK == UNCHANGED storageVars

\* A storage failure in a boot that invalidates a slot may part that write from
\* the switch of the boot partition, and so may a power cut between them.
Switching == {"check_again", "set_boot_part"}
NoteFailure == parted' = (parted \/ storage' = "failed")
NoteCut == parted' = (parted \/ pc \in Switching)

AccessFails ==
  /\ storage = "failed" \/ faults < MaxFaults
  /\ storage' = "failed"
  /\ faults' = IF storage = "failed" THEN faults ELSE faults + 1

\* A write stores everything, or fails having stored everything or nothing
\* (the metadata are eight bytes of one block).
Store(write, unchanged) ==
  \/ write /\ (AccessOK \/ AccessFails)
  \/ unchanged /\ AccessFails

set_active_slot(s, rest) ==
  /\ magic' = "BOOTCTRL_MAGIC"
  /\ priority' = [t \in Slot |-> IF t = s THEN TOP_PRIORITY ELSE rest.priority]
  /\ retry_count' = [t \in Slot |-> IF t = s THEN RETRY ELSE rest.retry_count]
  /\ successful_boot' =
       [t \in Slot |-> IF t = s THEN 0 ELSE rest.successful_boot]
  /\ normal_boot' = [t \in Slot |-> IF t = s THEN 1 ELSE rest.normal_boot]

Cleared == [priority |-> 0, retry_count |-> 0,
            successful_boot |-> 0, normal_boot |-> 0]

-----------------------------------------------------------------------------
(* ab_ota_boot_check, one action per call.                                 *)

At(label) == pc = label

PowerOn ==
  /\ At("off")
  /\ pc' = "get_suffix"
  /\ ab_suffix' = NULL /\ ab_retry' = 0 /\ g_boot_mode' = "NORMAL"
  /\ loaded' = NULL
  /\ storage' = "sound"
  /\ UNCHANGED <<durable, faults, history>>

GetSuffixFails ==
  /\ AccessFails
  /\ ab_suffix' = NULL
  /\ UNCHANGED <<meta, boots, faulty>>

GetSuffixByPriority ==
  /\ magic = "BOOTCTRL_MAGIC"
  /\ AccessOK
  /\ ab_suffix' = Active
  /\ UNCHANGED <<meta, boots, faulty>>

\* The magic number is wrong: set_active_slot, whose result is ignored.
GetSuffixDefault ==
  /\ magic = "wrong"
  /\ Store(/\ set_active_slot("a", Cleared)
           /\ boots' = [s \in Slot |-> 0] /\ faulty' = [s \in Slot |-> 0],
           UNCHANGED <<meta, boots, faulty>>)
  /\ ab_suffix' = "a"

GetSuffix ==
  /\ At("get_suffix")
  /\ GetSuffixFails \/ GetSuffixByPriority \/ GetSuffixDefault
  /\ pc' = "get_retry_count"
  /\ UNCHANGED <<bootPart, ab_retry, g_boot_mode, loaded, cuts, parted>>

GetRetryCount ==
  /\ At("get_retry_count")
  /\ \/ ab_suffix # NULL /\ AccessOK /\ ab_retry' = retry_count[ab_suffix]
     \/ ab_suffix # NULL /\ AccessFails /\ ab_retry' = NoRetry
     \/ ab_suffix = NULL /\ AccessOK /\ ab_retry' = NoRetry
  /\ pc' = "check_valid_slot"
  /\ UNCHANGED <<durable, ab_suffix, g_boot_mode, loaded, history>>

\* check_valid_slot with its two outcomes; a failing read counts as none.
CheckValidSlot(found, none) ==
  \/ (\E s \in Slot : Valid(s)) /\ AccessOK /\ found
  \/ ~(\E s \in Slot : Valid(s)) /\ AccessOK /\ none
  \/ AccessFails /\ none

NoValidSlot == pc' = "load" /\ g_boot_mode' = "RECOVERY"

CheckLoop ==
  /\ At("check_valid_slot")
  /\ CheckValidSlot(pc' = "get_boot_mode" /\ UNCHANGED g_boot_mode, NoValidSlot)
  /\ UNCHANGED <<durable, ab_suffix, ab_retry, loaded, history>>

\* -1 for a NULL suffix or a failing read is a true condition in C.
GetBootMode ==
  /\ At("get_boot_mode")
  /\ \/ ab_suffix = NULL /\ AccessOK /\ pc' = "get_bootup_status"
     \/ ab_suffix # NULL /\ AccessFails /\ pc' = "get_bootup_status"
     \/ /\ ab_suffix # NULL /\ AccessOK
        /\ pc' = IF normal_boot[ab_suffix] = 1 THEN "get_bootup_status" ELSE "load"
  /\ UNCHANGED <<durable, local, history>>

\* An unconfirmed normal boot of slot s has been decided.
CountBoot(s) ==
  /\ boots' = [boots EXCEPT ![s] = @ + 1]
  /\ faulty' = IF storage' = "failed" THEN [faulty EXCEPT ![s] = @ + 1] ELSE faulty

GetBootupStatus ==
  /\ At("get_bootup_status")
  /\ \/ ab_suffix = NULL /\ AccessOK /\ pc' = "load" /\ UNCHANGED <<boots, faulty>>
     \/ /\ ab_suffix # NULL /\ AccessFails /\ pc' = "load"
        /\ IF successful_boot[ab_suffix] = 1 THEN UNCHANGED <<boots, faulty>>
                                         ELSE CountBoot(ab_suffix)
     \/ /\ ab_suffix # NULL /\ AccessOK
        /\ pc' = IF successful_boot[ab_suffix] = 1 THEN "load"
                 ELSE IF ab_retry > 0 THEN "reduce_retry_count"
                                      ELSE "mark_slot_invalid"
        /\ UNCHANGED <<boots, faulty>>
  /\ UNCHANGED <<durable, local, cuts, parted>>

\* Mutant: the decrement of the three-bit field without its guard.
ReducedRetryWraps(s) == retry_count' = [retry_count EXCEPT ![s] = (@ - 1) % 8]
ReducedRetry(s) ==
  retry_count' = [retry_count EXCEPT ![s] = IF @ > 0 THEN @ - 1 ELSE @]

\* The result of reduce_retry_count is ignored: the slot boots anyway.
ReduceRetryCount ==
  /\ At("reduce_retry_count")
  /\ Store(ReducedRetry(ab_suffix), UNCHANGED retry_count)
  /\ CountBoot(ab_suffix)
  /\ pc' = "load"
  /\ UNCHANGED <<magic, priority, successful_boot, normal_boot, bootPart,
                 local, cuts, parted>>

\* Mutant: mark_slot_invalid forgets the priority.
InvalidatedStatus(s) ==
  /\ UNCHANGED priority
  /\ successful_boot' = [successful_boot EXCEPT ![s] = 0]

Invalidated(s) ==
  /\ priority' = [priority EXCEPT ![s] = 0]
  /\ successful_boot' = [successful_boot EXCEPT ![s] = 0]

\* Mutant: the switch always follows.
MarkSlotInvalidSwitches ==
  /\ At("mark_slot_invalid")
  /\ Store(Invalidated(ab_suffix), UNCHANGED <<priority, successful_boot>>)
  /\ pc' = "set_boot_part"
  /\ NoteFailure
  /\ UNCHANGED <<magic, retry_count, normal_boot, bootPart, local, counters>>

AfterInvalid == IF CHECKS_AFTER_INVALID THEN "check_again" ELSE "set_boot_part"

MarkSlotInvalid ==
  /\ At("mark_slot_invalid")
  /\ Store(Invalidated(ab_suffix), UNCHANGED <<priority, successful_boot>>)
  /\ pc' = AfterInvalid
  /\ NoteFailure
  /\ UNCHANGED <<magic, retry_count, normal_boot, bootPart, local, counters>>

\* Mutant: the result of the second check_valid_slot read the wrong way round.
CheckAgainInverted ==
  /\ At("check_again")
  /\ CheckValidSlot(NoValidSlot, pc' = "set_boot_part" /\ UNCHANGED g_boot_mode)
  /\ NoteFailure
  /\ UNCHANGED <<durable, ab_suffix, ab_retry, loaded, counters>>

CheckAgain ==
  /\ At("check_again")
  /\ CheckValidSlot(pc' = "set_boot_part" /\ UNCHANGED g_boot_mode, NoValidSlot)
  /\ NoteFailure
  /\ UNCHANGED <<durable, ab_suffix, ab_retry, loaded, counters>>

\* Mutant: the boot partition of the slot that failed is set.
SetBootPartSame ==
  /\ At("set_boot_part")
  /\ ab_suffix' = Other(ab_suffix)
  /\ \/ bootPart' = ab_suffix /\ AccessOK /\ pc' = "off"
     \/ UNCHANGED bootPart /\ AccessFails /\ pc' = "halt"
  /\ NoteFailure
  /\ UNCHANGED <<meta, ab_retry, g_boot_mode, loaded, counters>>

\* Success ends in mtk_arch_reset, failure in ASSERT(0).
SetBootPart ==
  /\ At("set_boot_part")
  /\ ab_suffix' = Other(ab_suffix)
  /\ \/ bootPart' = Other(ab_suffix) /\ AccessOK /\ pc' = "off"
     \/ UNCHANGED bootPart /\ AccessFails /\ pc' = "halt"
  /\ NoteFailure
  /\ UNCHANGED <<meta, ab_retry, g_boot_mode, loaded, counters>>

\* bldr_load_images picks the partitions with memcmp(ab_suffix, "_a", 2).
\* Without a suffix that reads address 0: no match, or a data abort.
LoadImages ==
  /\ At("load")
  /\ \/ /\ pc' = "os"
        /\ loaded' = IF ab_suffix = "a" THEN "a" ELSE "b"
     \/ ab_suffix = NULL /\ pc' = "halt" /\ UNCHANGED loaded
  /\ UNCHANGED <<durable, ab_suffix, ab_retry, g_boot_mode, storageVars, history>>

-----------------------------------------------------------------------------
(* The environment: power, the watchdog, and the system that was booted.   *)

Deciding == pc \notin {"off", "os", "halt"}

PowerCut ==
  /\ Deciding
  /\ cuts < MaxCuts
  /\ pc' = "off" /\ cuts' = cuts + 1
  /\ NoteCut
  /\ UNCHANGED <<durable, local, storageVars, boots, faulty>>

\* A system that fails, or a halted preloader, is reset by the watchdog.
Reset ==
  /\ pc = "halt" \/ (pc = "os" /\ (loaded \notin HEALTHY \/ g_boot_mode = "RECOVERY"))
  /\ pc' = "off"
  /\ UNCHANGED <<durable, local, storageVars, history>>

Reboot ==
  /\ At("os") /\ pc' = "off"
  /\ UNCHANGED <<durable, local, storageVars, history>>

OsConfirms ==
  /\ At("os") /\ g_boot_mode = "NORMAL" /\ loaded \in HEALTHY
  /\ successful_boot' = [successful_boot EXCEPT ![loaded] = 1]
  /\ UNCHANGED <<magic, priority, retry_count, normal_boot, bootPart, pc,
                 local, storageVars, history>>

\* An update installs slot s and makes it active; the slot left may stay as
\* the one to return to, at a lower priority.
OsActivates(s) ==
  /\ At("os") /\ magic = "BOOTCTRL_MAGIC"
  /\ loaded \in HEALTHY \/ g_boot_mode = "RECOVERY"
  /\ \E p \in {0, TOP_PRIORITY - 1} :
       /\ p <= priority[Other(s)]
       /\ set_active_slot(s, [priority |-> p,
                              retry_count |-> retry_count[Other(s)],
                              successful_boot |-> successful_boot[Other(s)],
                              normal_boot |-> normal_boot[Other(s)]])
  /\ bootPart' = s
  /\ boots' = [boots EXCEPT ![s] = 0]
  /\ faulty' = [faulty EXCEPT ![s] = 0]
  /\ parted' = FALSE
  /\ UNCHANGED <<pc, local, storageVars, cuts>>

OsSetsNormalBoot(s, mode) ==
  /\ At("os") /\ loaded \in HEALTHY
  /\ normal_boot' = [normal_boot EXCEPT ![s] = mode]
  /\ UNCHANGED <<magic, priority, retry_count, successful_boot, bootPart, pc,
                 local, storageVars, history>>

-----------------------------------------------------------------------------

\* A device as flashed, whose metadata area is erased to zeros or to ones, or
\* one whose active slot s has its budget and may have confirmed itself, next to
\* a slot that is no candidate or is the confirmed one to return to.
Init ==
  /\ magic \in {"BOOTCTRL_MAGIC", "wrong"}
  /\ IF magic = "BOOTCTRL_MAGIC"
     THEN \E s \in Slot, c \in 0..1, p \in {0, TOP_PRIORITY - 1} :
            /\ priority = [t \in Slot |-> IF t = s THEN TOP_PRIORITY ELSE p]
            /\ retry_count = [t \in Slot |-> RETRY]
            /\ successful_boot = [t \in Slot |-> IF t = s THEN c ELSE IF p > 0 THEN 1 ELSE 0]
            /\ normal_boot = [t \in Slot |-> 1]
            /\ bootPart = s
     ELSE \E bit \in 0..1 :
            /\ priority = [t \in Slot |-> 7 * bit]
            /\ retry_count = [t \in Slot |-> 7 * bit]
            /\ successful_boot = [t \in Slot |-> bit]
            /\ normal_boot = [t \in Slot |-> bit]
            /\ bootPart = "a"
  /\ pc = "off"
  /\ ab_suffix = NULL /\ ab_retry = 0 /\ g_boot_mode = "NORMAL" /\ loaded = NULL
  /\ storage = "sound" /\ faults = 0 /\ cuts = 0
  /\ boots = [s \in Slot |-> 0] /\ faulty = [s \in Slot |-> 0]
  /\ parted = FALSE

Preloader ==
  \/ PowerOn \/ GetSuffix \/ GetRetryCount \/ CheckLoop \/ GetBootMode
  \/ GetBootupStatus \/ ReduceRetryCount \/ MarkSlotInvalid \/ CheckAgain
  \/ SetBootPart \/ LoadImages

Environment ==
  \/ PowerCut \/ Reset \/ Reboot \/ OsConfirms
  \/ \E s \in Slot : OsActivates(s)
  \/ \E s \in Slot, mode \in 0..1 : OsSetsNormalBoot(s, mode)

Next == Preloader \/ Environment

Spec == Init /\ [][Next]_vars

\* The processor runs, and the watchdog left running resets a dead system.
Fairness == WF_vars(Preloader) /\ WF_vars(Reset)

FairSpec == Spec /\ Fairness
-----------------------------------------------------------------------------
(* Properties.                                                             *)

MetaOK ==
  /\ magic \in {"BOOTCTRL_MAGIC", "wrong"}
  /\ priority \in [Slot -> 0..7]
  /\ retry_count \in [Slot -> 0..7]
  /\ successful_boot \in [Slot -> 0..1]
  /\ normal_boot \in [Slot -> 0..1]
  /\ bootPart \in Slot

LocalOK ==
  /\ pc \in {"off", "get_suffix", "get_retry_count", "check_valid_slot",
             "get_boot_mode", "get_bootup_status", "reduce_retry_count",
             "mark_slot_invalid", "check_again", "set_boot_part", "load",
             "os", "halt"}
  /\ ab_suffix \in Slot \cup {NULL}
  /\ ab_retry \in 0..255
  /\ g_boot_mode \in {"NORMAL", "RECOVERY"}
  /\ loaded \in Slot \cup {NULL}

HistoryOK ==
  /\ storage \in {"sound", "failed"}
  /\ faults \in 0..MaxFaults
  /\ cuts \in 0..MaxCuts
  /\ boots \in [Slot -> Nat]
  /\ faulty \in [Slot -> Nat]
  /\ parted \in BOOLEAN

\* Every variable is in range: the metadata fit their three-bit fields and
\* ab_retry is the uint8_t the failing get_retry_count is squeezed into.
TypeOK == MetaOK /\ LocalOK /\ HistoryOK

\* The retry counter in the metadata accounts for the boots of a candidate
\* slot: every boot in which storage worked was paid for, and nothing else was
\* (reduce_retry_count, with its ignored result and its stale ab_retry).
RetryAccounting ==
  magic = "BOOTCTRL_MAGIC" => \A s \in Slot :
    /\ boots[s] - faulty[s] + retry_count[s] <= RETRY
    /\ Valid(s) => boots[s] + retry_count[s] >= RETRY

\* What is loaded after a normal decision without storage failures is the valid
\* slot of highest priority, although it was chosen five reads earlier.
BootedSlotIsBest ==
  (At("load") /\ g_boot_mode = "NORMAL" /\ storage = "sound") =>
     Valid(ab_suffix) /\ priority[ab_suffix] >= priority[Other(ab_suffix)]

\* Without storage failures the device enters recovery only when no slot is
\* left to boot ("no valid slot!").
RecoveryIsLastResort ==
  (At("load") /\ g_boot_mode = "RECOVERY" /\ storage = "sound") =>
     \A s \in Slot : ~Valid(s)

\* The preloader that runs belongs to the slot it boots, although the two are
\* stored apart and switched one after the other, over any number of boots with
\* failures and cuts: only a cut between mark_slot_invalid and the switch, or a
\* failure in a boot that gets that far, can part them, and an update joins them.
PreloaderMatchesSlot ==
  (At("load") /\ g_boot_mode = "NORMAL" /\ storage = "sound" /\ ~parted) =>
     bootPart = ab_suffix

\* No preloader step takes a slot that has confirmed itself out of use, whatever
\* storage accesses fail.
ConfirmedIsKept ==
  [][\A s \in Slot : (magic = "BOOTCTRL_MAGIC" /\ pc' # pc /\ successful_boot[s] = 1 /\ Valid(s)) =>
        successful_boot'[s] = 1 /\ priority'[s] > 0]_vars

\* A slot is given up only after as many boots as it was given retries.
AbandonedAfterBudget ==
  [][\A s \in Slot : (magic = "BOOTCTRL_MAGIC" /\ pc' # pc /\ Valid(s) /\ priority'[s] = 0) =>
        boots[s] >= RETRY]_vars

Slots == INSTANCE AbSlots

\* Every durable change is a justified one: the program implements AbSlots.
ImplementsSlots == Slots!Spec

\* A slot that never confirms does not keep the device: in the end
\* another slot runs, or recovery does.
FailingSlotIsLeft ==
  \A s \in Slot \ HEALTHY :
    (At("os") /\ magic = "BOOTCTRL_MAGIC" /\ g_boot_mode = "NORMAL" /\ loaded = s
       /\ normal_boot[s] = 1 /\ successful_boot[s] = 0)
    ~> (At("os") /\ (g_boot_mode = "RECOVERY" \/ loaded # s))

=============================================================================
