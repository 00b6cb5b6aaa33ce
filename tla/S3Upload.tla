------------------------------ MODULE S3Upload ------------------------------
(***************************************************************************)
(* The S3 storage writer: a multipart upload whose buffered parts are      *)
(* sent, retried and completed over a network that loses answers and       *)
(* delivers abandoned requests late.                                       *)
(*                                                                         *)
(* The image is at most Chunks chunks long; a part is the pair of its first *)
(* and its last chunk, and an ETag is as good as the part it stands for.   *)
(* Nobody else writes to the key or ends the upload meanwhile.             *)
(***************************************************************************)
EXTENDS Naturals, Sequences, FiniteSets

CONSTANTS
  Chunks,      \* bound on the length of the image
  FirstSize,   \* size of the first parts: 8 MiB
  GrowEvery,   \* after so many parts the size doubles: 1000
  MaxSize,     \* no further than to this: 256 MiB
  PartLimit,   \* the highest part number the server takes: 10000
  Tries,       \* attempts retry() makes: 3
  MaxHiccups   \* bound on transient failures in one upload

ASSUME S3Assumption ==
  /\ {Chunks, FirstSize, GrowEvery, MaxSize, PartLimit, Tries} \subseteq
       Nat \ {0}
  /\ FirstSize <= MaxSize /\ MaxHiccups \in Nat

VARIABLES
  pc, goal,    \* where the caller is; "close" or "abort" once it chose
  image,       \* length of the image
  handed,      \* chunks written so far
  buf,         \* chunks of them in the buffer
  partSize,
  etags,       \* what the server acknowledged; its length is partNum
  try,         \* the attempt under way
  verdict,     \* what Close or Abort returned: "ok" is nil, and so is "presumed",
               \* of a 200 cut short behind which nothing was completed
  \* the server
  uploads,     \* upload ids that are open
  upload,      \* the one the writer knows; 0 before
  parts,       \* part number -> part, in that upload
  object,      \* under the key: a sequence of parts
  \* the network
  late,        \* requests given up that may yet arrive
  hiccups,     \* transient failures so far
  harm         \* history: a permanent refusal, or a failed HEAD

callerVars == <<image, handed, buf, partSize, etags>>
serverVars == <<uploads, parts, object>>
vars == <<pc, goal, image, handed, buf, partSize, etags, try, verdict, uploads,
          upload, parts, object, late, hiccups, harm>>

NoObject == <<>>
OldObject == << <<0, 0>> >>

Init ==
  /\ pc = "creating" /\ goal = "none"
  /\ image \in 1..Chunks /\ handed = 0 /\ buf = 0
  /\ partSize = FirstSize /\ etags = <<>> /\ try = 1 /\ verdict = "none"
  /\ uploads = {} /\ upload = 0 /\ parts = <<>>
  /\ object \in {NoObject, OldObject}
  /\ late = {} /\ hiccups = 0 /\ harm = FALSE

partNum == Len(etags)
Part == <<handed - buf + 1, handed>>

-----------------------------------------------------------------------------
(* The server                                                              *)

NewId == Cardinality(uploads) + 1

\* A PUT of a part; numbers come in order, a repeated one replaces its part.
Store(n, part) ==
  parts' = IF upload \notin uploads THEN parts
           ELSE IF n <= Len(parts) THEN [parts EXCEPT ![n] = part]
           ELSE Append(parts, part)

\* CompleteMultipartUpload with the parts it names.
Complete(list) ==
  IF upload \in uploads /\ list = parts
  THEN object' = list /\ uploads' = uploads \ {upload}
  ELSE UNCHANGED <<object, uploads>>

Delete == uploads' = uploads \ {upload}

-----------------------------------------------------------------------------
(* retry: a transport error, a 5xx or a missing ETag                       *)

\* Mutant: an error of the transport is not worth another attempt.
TryAgain_Never(giveUp) ==
  pc' = giveUp /\ try' = 1

\* Mutant: one attempt too many.
TryAgain_OneMore(giveUp) ==
  IF try <= Tries THEN try' = try + 1 /\ pc' = pc ELSE try' = 1 /\ pc' = giveUp

\* The attempt failed; the last one gives up.
TryAgain(giveUp) ==
  IF try < Tries THEN try' = try + 1 /\ pc' = pc ELSE try' = 1 /\ pc' = giveUp

\* A request whose answer does not come: not served, served all the same, or
\* delivered when the client has long gone on.
Hiccup(request, served, unserved) ==
  /\ hiccups < MaxHiccups /\ hiccups' = hiccups + 1
  /\ \/ served /\ UNCHANGED late
     \/ unserved /\ UNCHANGED late
     \/ unserved /\ late' = late \cup {request}
  /\ UNCHANGED harm

-----------------------------------------------------------------------------
(* Open                                                                    *)

Create ==
  /\ pc = "creating"
  /\ upload' = NewId /\ uploads' = uploads \cup {NewId}
  /\ pc' = "writing" /\ try' = 1
  /\ UNCHANGED <<goal, callerVars, verdict, parts, object, late, hiccups, harm>>

\* A lost answer leaves an upload nobody knows.
CreateHiccup ==
  /\ pc = "creating"
  /\ hiccups < MaxHiccups /\ hiccups' = hiccups + 1
  /\ uploads' \in {uploads, uploads \cup {NewId}}
  /\ TryAgain("returned")
  /\ verdict' = IF pc' = "returned" THEN "error" ELSE "none"
  /\ UNCHANGED <<goal, callerVars, upload, parts, object, late, harm>>

\* 4xx, or an answer without an id: Open fails.
CreateRefused ==
  /\ pc = "creating"
  /\ harm' = TRUE
  /\ pc' = "returned" /\ verdict' = "error"
  /\ UNCHANGED <<goal, callerVars, try, serverVars, upload, late, hiccups>>

-----------------------------------------------------------------------------
(* Write, Close and Abort                                                  *)

Write ==
  /\ pc = "writing" /\ handed < image
  /\ handed' = handed + 1 /\ buf' = buf + 1
  /\ pc' = IF buf + 1 = partSize THEN "putting" ELSE pc
  /\ UNCHANGED <<goal, image, partSize, etags, try, verdict, serverVars, upload,
                 late, hiccups, harm>>

\* Mutant: the rest of the buffer is forgotten.
Close_NoFlush ==
  /\ pc = "writing" /\ handed = image
  /\ goal' = "close"
  /\ pc' = IF partNum = 0 THEN "putting" ELSE "completing"
  /\ UNCHANGED <<callerVars, try, verdict, serverVars, upload, late, hiccups,
                 harm>>

\* The buffered rest goes first; an empty image is one empty part.
Close ==
  /\ pc = "writing" /\ handed = image
  /\ goal' = "close"
  /\ pc' = IF buf > 0 \/ partNum = 0 THEN "putting" ELSE "completing"
  /\ UNCHANGED <<callerVars, try, verdict, serverVars, upload, late, hiccups,
                 harm>>

\* The job fails for a reason of its own.
JobFails ==
  /\ pc = "writing"
  /\ goal' = "abort" /\ pc' = "aborting"
  /\ UNCHANGED <<callerVars, try, verdict, serverVars, upload, late, hiccups,
                 harm>>

\* Mutant: every part has the size of the first.
Grown_Never == partSize

\* The part size after an acknowledged part.
Grown ==
  IF (partNum + 1) % GrowEvery = 0 /\ partSize < MaxSize
  THEN 2 * partSize ELSE partSize

PutAnswered ==
  /\ pc = "putting" /\ partNum < PartLimit
  /\ Store(partNum + 1, Part)
  /\ etags' = Append(etags, Part) /\ buf' = 0 /\ partSize' = Grown
  /\ try' = 1
  /\ pc' = IF goal = "close" THEN "completing" ELSE "writing"
  /\ UNCHANGED <<goal, image, handed, verdict, uploads, upload, object, late,
                 hiccups, harm>>

\* Mutant: the buffer is emptied before the server has acknowledged it.
PutHiccup_ResetsBuffer ==
  /\ pc = "putting"
  /\ Hiccup([op |-> "put", n |-> partNum + 1, part |-> Part],
            Store(partNum + 1, Part), UNCHANGED parts)
  /\ TryAgain("aborting")
  /\ buf' = 0
  /\ UNCHANGED <<goal, image, handed, partSize, etags, verdict, uploads, upload,
                 object>>

PutHiccup ==
  /\ pc = "putting"
  /\ Hiccup([op |-> "put", n |-> partNum + 1, part |-> Part],
            Store(partNum + 1, Part), UNCHANGED parts)
  /\ TryAgain("aborting")
  /\ UNCHANGED <<goal, callerVars, verdict, uploads, upload, object>>

\* 4xx: credentials expired, bucket gone, part number out of range.
PutRefused ==
  /\ pc = "putting"
  /\ harm' = TRUE
  /\ pc' = "aborting" /\ try' = 1
  /\ UNCHANGED <<goal, callerVars, verdict, serverVars, upload, late, hiccups>>

-----------------------------------------------------------------------------
(* complete and abort                                                      *)

CompleteAnswered ==
  /\ pc = "completing" /\ upload \in uploads /\ etags = parts
  /\ Complete(etags)
  /\ pc' = "returned" /\ verdict' = "ok"
  /\ UNCHANGED <<goal, callerVars, try, upload, parts, late, hiccups, harm>>

CompleteHiccup ==
  /\ pc = "completing"
  /\ Hiccup([op |-> "complete", n |-> 0, part |-> etags],
            Complete(etags), UNCHANGED <<object, uploads>>)
  /\ TryAgain("aborting")
  /\ UNCHANGED <<goal, callerVars, verdict, upload, parts>>

\* A 200 whose body is cut short: S3 sends that status before it assembles the
\* object, and complete drops the error of the read and finds no <Error> in what
\* it has.  The request may have been served, have failed, or still be under way.
CompleteCut ==
  /\ pc = "completing" /\ upload \in uploads
  /\ Hiccup([op |-> "complete", n |-> 0, part |-> etags],
            Complete(etags), UNCHANGED <<object, uploads>>)
  /\ pc' = "returned"
  /\ verdict' = IF upload \in uploads' THEN "presumed" ELSE "ok"
  /\ UNCHANGED <<goal, callerVars, try, upload, parts>>

\* 4xx, or a 200 that carries an error: not tried again.
CompleteRefused ==
  /\ pc = "completing" /\ upload \in uploads
  /\ harm' = TRUE
  /\ pc' = "aborting" /\ try' = 1
  /\ UNCHANGED <<goal, callerVars, verdict, serverVars, upload, late, hiccups>>

\* NoSuchUpload: objectExists decides whether an earlier attempt got through;
\* its HEAD is sent once, and a failure of it counts as "no".
NoSuchUpload ==
  /\ pc = "completing" /\ upload \notin uploads
  /\ \/ object # NoObject /\ pc' = "returned" /\ verdict' = "ok"
        /\ UNCHANGED <<try, harm>>
     \/ harm' = TRUE /\ pc' = "aborting" /\ try' = 1 /\ UNCHANGED verdict
  /\ UNCHANGED <<goal, callerVars, serverVars, upload, late, hiccups>>

\* One DELETE, answered or not.
Abort ==
  /\ pc = "aborting"
  /\ \/ Delete \/ UNCHANGED uploads
  /\ pc' = "returned"
  /\ verdict' = IF goal = "close" THEN "error" ELSE "removed"
  /\ UNCHANGED <<goal, callerVars, try, upload, parts, object, late, hiccups,
                 harm>>

-----------------------------------------------------------------------------

\* A request the client gave up on reaches the server.
Arrives ==
  /\ \E r \in late :
       /\ late' = late \ {r}
       /\ \/ r.op = "put" /\ Store(r.n, r.part) /\ UNCHANGED <<object, uploads>>
          \/ r.op = "complete" /\ Complete(r.part) /\ UNCHANGED parts
  /\ UNCHANGED <<pc, goal, callerVars, try, verdict, upload, hiccups, harm>>

Next ==
  \/ Create \/ CreateHiccup \/ CreateRefused \/ Write \/ Close \/ JobFails
  \/ PutAnswered \/ PutHiccup \/ PutRefused
  \/ CompleteAnswered \/ CompleteHiccup \/ CompleteCut \/ CompleteRefused
  \/ NoSuchUpload \/ Abort \/ Arrives

Spec == Init /\ [][Next]_vars

-----------------------------------------------------------------------------
(* Properties                                                              *)

\* Every variable keeps its type; the buffer never outgrows a part.
TypeOK ==
  /\ pc \in {"creating", "writing", "putting", "completing", "aborting",
             "returned"}
  /\ goal \in {"none", "close", "abort"}
  /\ verdict \in {"none", "ok", "presumed", "error", "removed"}
  /\ image \in 1..Chunks /\ handed \in 0..image
  /\ buf \in 0..partSize /\ buf <= handed
  /\ partSize \in FirstSize..(2 * MaxSize) /\ try \in 1..Tries
  /\ hiccups \in 0..MaxHiccups /\ harm \in BOOLEAN
  /\ \A id \in uploads \cup {upload} : id \in 0..(Tries + 1)

\* The parts cover the image from its first chunk, without gap or overlap, and
\* as far as the buffer begins.
Tiles(list, end) ==
  /\ \A i \in 1..Len(list) :
       list[i][1] = IF i = 1 THEN 1 ELSE list[i - 1][2] + 1
  /\ end = IF list = <<>> THEN 0 ELSE list[Len(list)][2]

\* Whatever was retried, lost or late, the acknowledged parts are the image up
\* to the buffer, and the open upload holds exactly these under their numbers.
AcknowledgedIsStored ==
  /\ Tiles(etags, handed - buf)
  /\ upload \in uploads =>
       \A i \in 1..partNum : i <= Len(parts) /\ parts[i] = etags[i]

\* Nil from Close, also one that rests on a HEAD, means this image is there.  One
\* nil is excepted, for it keeps no such promise: the "presumed" one, of a 200 cut
\* short before the server had completed anything (s3.go:222).
Contract == INSTANCE UploadContract WITH
  object <- IF Tiles(object, image) THEN "whole" ELSE "other",
  status <- IF pc # "returned" THEN "running"
            ELSE IF verdict = "ok" THEN "ok" ELSE "error"
Implements == Contract!Spec

\* complete's comment: one dropped connection must not destroy hours of
\* transfer.  Without a refusal Close fails only after as many transient
\* failures as there are attempts.
HiccupsDoNotKill == verdict = "error" /\ ~harm => hiccups >= Tries

\* The growing part size keeps an image that fits at all below the limit on
\* part numbers.
WithinLimit == pc = "putting" => partNum < PartLimit
=============================================================================
