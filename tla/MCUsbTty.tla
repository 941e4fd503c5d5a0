------------------------------ MODULE MCUsbTty ------------------------------
(***************************************************************************)
(* Small instances of UsbTty.  The code's sizes are a packet of 512 bytes  *)
(* and buffers of 1024; the instances keep the ratio with 2 and 4.         *)
(***************************************************************************)
EXTENDS UsbTty

Answers  == {1, 4}
Requests == {1, 4}
=============================================================================
