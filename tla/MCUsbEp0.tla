------------------------------ MODULE MCUsbEp0 ------------------------------
(***************************************************************************)
(* Small instances of UsbEp0: packets of two bytes for 64, a descriptor    *)
(* that fits in one packet and one that does not, read whole and in part.  *)
(***************************************************************************)
EXTENDS UsbEp0

Answer == [device |-> 1, config |-> 3]

Read(d, n) == [kind |-> "read", of |-> d, wLength |-> n]
Ask(k)     == [kind |-> k]

Script == <<Read("device", 2), Ask("SET_ADDRESS"), Ask("unsupported"), Read("config", 1),
            Read("config", 5), Ask("SET_CONFIGURATION"), Ask("SET_LINE_CODING")>>
=============================================================================
