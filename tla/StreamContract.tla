--------------------------- MODULE StreamContract ---------------------------
(***************************************************************************)
(* What the callers of streamRaw, streamCompressed and streamCompressedRaw *)
(* rely on: the sink receives a growing prefix of the disk, and the call   *)
(* returns once, with nil only when the sink has the whole disk -- unless  *)
(* the caller did not know the disk's size and there was none to compare.  *)
(***************************************************************************)
EXTENDS Naturals

CONSTANT
  Size          \* the length of the disk

VARIABLES
  delivered,    \* how much of the disk the sink has
  status        \* "running", or how the call ended

vars == <<delivered, status>>

Init == delivered = 0 /\ status = "running"

Deliver ==
  /\ status = "running"
  /\ delivered' \in delivered..Size
  /\ UNCHANGED status

Succeed ==
  /\ status = "running" /\ delivered = Size
  /\ status' = "ok"
  /\ UNCHANGED delivered

\* An error, the end of the process, or the nil of a call without a SourceSize
\* may come at any point.
GiveUp ==
  /\ status = "running"
  /\ status' \in {"error", "dead", "unchecked"}
  /\ UNCHANGED delivered

Next == Deliver \/ Succeed \/ GiveUp

Spec == Init /\ [][Next]_vars
=============================================================================
