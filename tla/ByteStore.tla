------------------------------ MODULE ByteStore ------------------------------
(***************************************************************************)
(* What the block device layer promises: media of bytes.  A call names a   *)
(* range of one of them.  A write replaces bytes of its range, one part    *)
(* after another, and says that it succeeded only after the last of them;  *)
(* a read that succeeds returns the range as it is.  A call that fails or  *)
(* is cut short by a loss of power leaves each byte of its range old or    *)
(* new, and none ever touches another byte.                                *)
(***************************************************************************)
CONSTANTS Areas, Addresses, Bytes

VARIABLES
  medium,   \* [Areas -> [Addresses -> Bytes]]
  call,     \* the call under way, or the last one: kind, area, range, new
  active,   \* one is under way
  ret,      \* what the last one returned
  result    \* and the bytes it read

vars == <<medium, call, active, ret, result>>
Media == [Areas -> [Addresses -> Bytes]]
IsCall(c) == /\ c.kind \in {"read", "write"} /\ c.area \in Areas
             /\ c.range \subseteq Addresses /\ c.new \in [c.range -> Bytes]
Answers == {"ok", "failed", "cut"}

Init == medium \in Media /\ IsCall(call) /\ ~active /\ ret \in Answers /\ result = <<>>

Begin == ~active /\ active' /\ IsCall(call)' /\ result' = <<>> /\ UNCHANGED <<medium, ret>>

MayChange(r, a) == call.kind = "write" /\ call.area = r /\ a \in call.range
Change == /\ medium' \in Media
          /\ \A r \in Areas : \A a \in Addresses :
               \/ medium'[r][a] = medium[r][a]
               \/ MayChange(r, a) /\ medium'[r][a] = call.new[a]
Put == active /\ Change /\ UNCHANGED <<call, active, ret, result>>

Stored == [a \in call.range |-> medium[call.area][a]]
Succeed == /\ ret' = "ok" /\ UNCHANGED medium
           /\ \/ call.kind = "write" /\ Stored = call.new /\ result' = <<>>
              \/ call.kind = "read" /\ result' = Stored
GiveUp == ret' \in Answers \ {"ok"} /\ Change /\ result' = <<>>
Return == active /\ ~active' /\ (Succeed \/ GiveUp) /\ UNCHANGED call

Next == Begin \/ Put \/ Return
Spec == Init /\ [][Next]_vars
=============================================================================
