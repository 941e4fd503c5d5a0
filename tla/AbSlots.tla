------------------------------- MODULE AbSlots -------------------------------
(***************************************************************************)
(* What the A/B boot check promises about the durable boot-control state:  *)
(* each change the preloader makes to the slot metadata or to the boot     *)
(* partition is one of the four steps below, and each is justified by the  *)
(* durable state it is applied to, never by a copy read earlier.           *)
(*                                                                         *)
(* AbBoot is the program; it implements this module (AbBoot!Slots).        *)
(***************************************************************************)
EXTENDS Integers

CONSTANTS TOP_PRIORITY,          \* priority given to the slot made active
          RETRY,                 \* boots a slot is given to confirm itself
          CHECKS_AFTER_INVALID   \* the switch is preceded by check_valid_slot

VARIABLES magic, priority, retry_count, successful_boot, normal_boot,
          bootPart,   \* the boot partition the ROM loads the preloader from
          storage     \* "failed" once an access failed since power-on

meta == <<magic, priority, retry_count, successful_boot, normal_boot>>
vars == <<meta, bootPart, storage>>

Slot == {"a", "b"}
Other(s) == IF s = "a" THEN "b" ELSE "a"

Valid(s) == priority[s] > 0

\* get_suffix prefers slot a when the priorities are equal.
Active == IF priority["a"] >= priority["b"] THEN "a" ELSE "b"

Init ==
  /\ magic \in {"BOOTCTRL_MAGIC", "wrong"}
  /\ priority \in [Slot -> 0..7]
  /\ retry_count \in [Slot -> 0..7]
  /\ successful_boot \in [Slot -> 0..1]
  /\ normal_boot \in [Slot -> 0..1]
  /\ bootPart \in Slot
  /\ storage = "sound"

\* Slot s becomes the only candidate, with its whole retry budget.
Activated(s, rest) ==
  /\ magic' = "BOOTCTRL_MAGIC"
  /\ priority' = [t \in Slot |-> IF t = s THEN TOP_PRIORITY ELSE rest.priority]
  /\ retry_count' = [t \in Slot |-> IF t = s THEN RETRY ELSE rest.retry_count]
  /\ successful_boot' =
       [t \in Slot |-> IF t = s THEN 0 ELSE rest.successful_boot]
  /\ normal_boot' = [t \in Slot |-> IF t = s THEN 1 ELSE rest.normal_boot]

\* Metadata without the magic number is replaced by the default: boot slot a.
Default ==
  /\ magic = "wrong"
  /\ Activated("a", [priority |-> 0, retry_count |-> 0,
                     successful_boot |-> 0, normal_boot |-> 0])
  /\ UNCHANGED bootPart

\* One boot of the active, not yet confirmed slot is paid for.
Charge(s) ==
  /\ s = Active \/ storage = "failed"
  /\ Valid(s) \/ storage = "failed"
  /\ successful_boot[s] = 0
  /\ retry_count[s] > 0
  /\ retry_count' = [retry_count EXCEPT ![s] = @ - 1]
  /\ UNCHANGED <<magic, priority, successful_boot, normal_boot, bootPart>>

\* A slot is given up only when its budget is spent and it never confirmed.
Abandon(s) ==
  /\ s = Active \/ storage = "failed"
  /\ successful_boot[s] = 0
  /\ retry_count[s] = 0
  /\ priority' = [priority EXCEPT ![s] = 0]
  /\ UNCHANGED <<magic, retry_count, successful_boot, normal_boot, bootPart>>

\* The other preloader takes over only when the slot it belongs to can boot.
Rollback(s) ==
  /\ bootPart' = Other(s)
  /\ storage = "sound" => ~Valid(s)
  /\ storage = "sound" /\ CHECKS_AFTER_INVALID => Valid(Other(s))
  /\ UNCHANGED meta

\* The operating system or the recovery may write what it likes while it runs,
\* but only what set_active_slot, set_normal_boot and a confirmation write.
Update(s) ==
  /\ \E p \in 0..priority[Other(s)] :
       Activated(s, [priority |-> p, retry_count |-> retry_count[Other(s)],
                     successful_boot |-> successful_boot[Other(s)],
                     normal_boot |-> normal_boot[Other(s)]])
  /\ bootPart' = s

Confirm(s) ==
  /\ successful_boot' = [successful_boot EXCEPT ![s] = 1]
  /\ UNCHANGED <<magic, priority, retry_count, normal_boot, bootPart>>

SetMode(s) ==
  /\ \E m \in 0..1 : normal_boot' = [normal_boot EXCEPT ![s] = m]
  /\ UNCHANGED <<magic, priority, retry_count, successful_boot, bootPart>>

Next ==
  \/ Default /\ storage' \in {"sound", "failed"}
  \/ \E s \in Slot : (Charge(s) \/ Abandon(s)) /\ storage' \in {"sound", "failed"}
  \/ \E s \in Slot : (Rollback(s) \/ Update(s) \/ Confirm(s) \/ SetMode(s)) /\ UNCHANGED storage
  \/ UNCHANGED <<meta, bootPart>> /\ storage' \in {"sound", "failed"}

Spec == Init /\ [][Next]_vars
=============================================================================
