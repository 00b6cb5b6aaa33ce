--------------------------- MODULE UploadContract ---------------------------
(***************************************************************************)
(* What execSaveToStorage relies on when it calls a storage writer: a nil  *)
(* from Close means the whole image is stored under its name, and nothing  *)
(* the writer left behind -- a request in flight, a goroutine, a queued    *)
(* command -- changes that afterwards.                                     *)
(***************************************************************************)

VARIABLES
  object,       \* what the name shows: "whole" (this image) or "other"
  status        \* "running", or how Close or Abort ended

vars == <<object, status>>

Init == object = "other" /\ status = "running"

\* Until a success is reported, and also after a failure, anything may be there.
Store ==
  /\ status # "ok"
  /\ object' \in {"whole", "other"}
  /\ UNCHANGED status

\* The answer that ends the upload may be the first to show it whole.
Succeed ==
  /\ status = "running"
  /\ status' = "ok" /\ object' = "whole"

\* The last call may be the one that cleans up.
Fail ==
  /\ status = "running"
  /\ status' = "error" /\ object' \in {"whole", "other"}

Next == Store \/ Succeed \/ Fail

Spec == Init /\ [][Next]_vars
=============================================================================
