---------------------------- MODULE StreamUpload ----------------------------
(***************************************************************************)
(* The storage writers that send the image in one piece: WebDAV (one       *)
(* chunked PUT fed by a pipe, or, for a server that wants the length first, *)
(* a local spool file sent afterwards), Pixeldrain (one chunked PUT) and   *)
(* SFTP (one remote file).  Every behaviour is one call of storage.Open    *)
(* and what execSaveToStorage does with the writer.                        *)
(*                                                                         *)
(* A server may write a PUT in place or swap the file in when its body is  *)
(* complete; a request whose connection broke is over before the next one  *)
(* is served, unless its whole body had been sent.                         *)
(***************************************************************************)
EXTENDS Naturals

CONSTANTS
  Chunks,      \* length of the image
  Window,      \* chunks the connection holds
  Tries        \* attempts retry() makes: 3

ASSUME StreamAssumption == {Chunks, Window, Tries} \subseteq Nat \ {0}

VARIABLES
  kind, inPlace,        \* the destination
  \* the caller
  pc, goal, handed, verdict,
  spooled, temp,        \* webdavWriter.spool, and its file on the local disk
  try,                  \* the attempt of retry()
  unknown,              \* outcomeUnknown
  \* the goroutine of the PUT
  pipe, done,
  \* the server
  srv,                  \* "idle", "receiving", "stored" (not answered), "late"
                        \* (nobody waits for it any more), "over"
  got,                  \* chunks of the body received
  file,                 \* under the name: none, old, part, whole
  harm                  \* history: something refused, broke or was lost

dest     == <<kind, inPlace>>
spool    == <<spooled, temp>>
putVars  == <<pipe, done>>
srvVars  == <<srv, got, file>>
vars == <<kind, inPlace, pc, goal, handed, verdict, spooled, temp, try, unknown,
          pipe, done, srv, got, file, harm>>

\* A Pixeldrain upload gets a new id: nothing is under it before.
Init ==
  /\ kind \in {"webdav", "pixeldrain", "sftp"}
  /\ inPlace \in BOOLEAN /\ file \in {"none", "old"}
  /\ kind = "pixeldrain" => ~inPlace /\ file = "none"
  /\ pc = "opening" /\ goal = "none" /\ handed = 0 /\ verdict = "none"
  /\ spooled = FALSE /\ temp = FALSE /\ try = 1 /\ unknown = FALSE
  /\ pipe = "open" /\ done = "empty"
  /\ srv = "idle" /\ got = 0 /\ harm = FALSE

Streaming == kind \in {"webdav", "pixeldrain"} /\ ~spooled

Return(result) == pc' = "returned" /\ verdict' = result

\* retry: the error is a transient one, and attempts are left.
Again == try < Tries /\ try' = try + 1

-----------------------------------------------------------------------------
(* Open                                                                    *)

OpenFails ==
  /\ Return("error") /\ harm' = TRUE
  /\ UNCHANGED <<dest, goal, handed, spool, try, unknown, putVars, srvVars>>

\* The tiny probe file is accepted: the PUT of the image is started.
OpenWebDAV ==
  /\ pc = "opening" /\ kind = "webdav"
  /\ \/ /\ pc' = "settling" /\ srv' = "receiving"
        /\ UNCHANGED <<spool, verdict, harm, got, file>>
     \* 411 or 501: the server wants a Content-Length.
     \/ /\ pc' = "writing" /\ spooled' = TRUE /\ temp' = TRUE
        /\ UNCHANGED <<verdict, harm, srvVars>>
     \/ /\ Return("error") /\ harm' = TRUE /\ UNCHANGED <<spool, srvVars>>
  /\ UNCHANGED <<dest, goal, handed, try, unknown, putVars>>

\* The API key is tried first, three times unless the answer is final.
OpenPixelDrain ==
  /\ pc = "opening" /\ kind = "pixeldrain"
  /\ pc' = "settling" /\ srv' = "receiving" /\ try' = 1
  /\ UNCHANGED <<dest, goal, handed, verdict, spool, unknown, putVars, got,
                 file, harm>>

PreflightFails ==
  /\ pc = "opening" /\ kind = "pixeldrain"
  /\ \/ Again /\ UNCHANGED <<pc, verdict>>
     \/ Return("error") /\ UNCHANGED try
  /\ harm' = TRUE
  /\ UNCHANGED <<dest, goal, handed, spool, unknown, putVars, srvVars>>

\* Create truncates what was there.
OpenSFTP ==
  /\ pc = "opening" /\ kind = "sftp"
  /\ pc' = "writing" /\ file' = "part"
  /\ UNCHANGED <<dest, goal, handed, verdict, spool, try, unknown, putVars, srv,
                 got, harm>>

OpenSFTPFails == pc = "opening" /\ kind = "sftp" /\ OpenFails

\* Three seconds: an answer by then is a refusal.
Settle ==
  /\ pc = "settling"
  /\ IF done = "empty" THEN pc' = "writing" /\ UNCHANGED verdict
                       ELSE Return("error")
  /\ UNCHANGED <<dest, goal, handed, spool, try, unknown, putVars, srvVars, harm>>

Open == OpenWebDAV \/ OpenPixelDrain \/ PreflightFails \/ OpenSFTP
        \/ OpenSFTPFails \/ Settle

-----------------------------------------------------------------------------
(* Write, and the choice between Close and Abort                           *)

WriteStream ==
  /\ pc = "writing" /\ Streaming /\ handed < Chunks
  /\ pipe = "open" /\ handed - got < Window
  /\ handed' = handed + 1
  /\ UNCHANGED <<dest, pc, goal, verdict, spool, try, unknown, putVars, srvVars,
                 harm>>

WriteSpool ==
  /\ pc = "writing" /\ spooled /\ handed < Chunks
  /\ handed' = handed + 1
  /\ UNCHANGED <<dest, pc, goal, verdict, spool, try, unknown, putVars, srvVars,
                 harm>>

WriteSFTP ==
  /\ pc = "writing" /\ kind = "sftp" /\ handed < Chunks
  /\ handed' = handed + 1
  /\ file' = IF handed' = Chunks THEN "whole" ELSE file
  /\ UNCHANGED <<dest, pc, goal, verdict, spool, try, unknown, putVars, srv, got,
                 harm>>

\* Mutant: Abort ends the body as Close does, and the server takes it for whole.
Finish_AlwaysEof(how) ==
  /\ goal' = how
  /\ \/ Streaming /\ pc' = "waiting"
        /\ pipe' = IF pipe = "closed" THEN pipe ELSE "eof"
     \/ spooled /\ pc' = (IF how = "close" THEN "putting" ELSE "deleting")
        /\ UNCHANGED pipe
     \/ kind = "sftp" /\ pc' = (IF how = "close" THEN "closing" ELSE "removing")
        /\ UNCHANGED pipe
  /\ temp' = (temp /\ how = "close")
  /\ UNCHANGED <<dest, handed, verdict, spooled, try, unknown, done, srvVars>>

\* finish up to its first wait; an abandoned spool file goes at once.
Finish(how) ==
  /\ goal' = how
  /\ \/ Streaming /\ pc' = "waiting"
        /\ pipe' = IF pipe = "closed" THEN pipe
                   ELSE IF how = "close" THEN "eof" ELSE "broken"
     \/ spooled /\ pc' = (IF how = "close" THEN "putting" ELSE "deleting")
        /\ UNCHANGED pipe
     \/ kind = "sftp" /\ pc' = (IF how = "close" THEN "closing" ELSE "removing")
        /\ UNCHANGED pipe
  /\ temp' = (temp /\ how = "close")
  /\ UNCHANGED <<dest, handed, verdict, spooled, try, unknown, done, srvVars>>

Close ==
  pc = "writing" /\ handed = Chunks /\ Finish("close") /\ UNCHANGED harm

\* The goroutine closed the pipe; the job fails with ErrClosedPipe.
WriteFails ==
  /\ pc = "writing" /\ handed < Chunks /\ pipe = "closed"
  /\ Finish("abort") /\ UNCHANGED harm

\* The job fails for a reason of its own: the source, or Ctrl+C.
JobFails == pc = "writing" /\ Finish("abort") /\ UNCHANGED harm

\* The local disk is full, or the SFTP connection is lost.
WriteRefused ==
  /\ pc = "writing" /\ handed < Chunks /\ ~Streaming
  /\ Finish("abort") /\ harm' = TRUE

-----------------------------------------------------------------------------
(* The goroutine and the server of a streamed PUT                          *)

PutOver(result) == done' = result /\ pipe' = "closed"

\* In place, the first chunk has truncated what was there.
Receive ==
  /\ srv = "receiving" /\ pipe \in {"open", "eof"} /\ got < handed
  /\ got' = got + 1
  /\ file' = IF inPlace /\ got = 0 THEN "part" ELSE file
  /\ UNCHANGED <<dest, pc, goal, handed, verdict, spool, try, unknown, putVars,
                 srv, harm>>

\* What the body leaves when it ends as it should.  A server that writes in
\* place goes on writing to a file that was deleted meanwhile.
Completed == IF inPlace /\ file = "none" THEN file
             ELSE IF handed = Chunks THEN "whole" ELSE "part"

ServerStores ==
  /\ \/ srv = "receiving" /\ pipe = "eof" /\ got = handed /\ srv' = "stored"
     \/ srv = "late" /\ srv' = "over"
  /\ file' = Completed
  /\ UNCHANGED <<dest, pc, goal, handed, verdict, spool, try, unknown, putVars,
                 got, harm>>

\* Mutant: any answer passes for success.
PutAnswered_AnyStatus ==
  /\ srv \in {"receiving", "stored"} /\ done = "empty"
  /\ PutOver("nil") /\ srv' = "over"
  /\ UNCHANGED <<dest, pc, goal, handed, verdict, spool, try, unknown, got, file,
                 harm>>

\* 2xx, and for Pixeldrain 201 with success and an id.
PutAnswered ==
  /\ srv = "stored" /\ done = "empty"
  /\ PutOver("nil") /\ srv' = "over"
  /\ UNCHANGED <<dest, pc, goal, handed, verdict, spool, try, unknown, got, file,
                 harm>>

\* A status that is no success: 401, 413, 507, or a gateway that gave up.
PutRefused ==
  /\ srv \in {"receiving", "stored"} /\ done = "empty"
  /\ PutOver("err") /\ srv' = "over" /\ harm' = TRUE
  /\ UNCHANGED <<dest, pc, goal, handed, verdict, spool, try, unknown, got, file>>

\* A transport error, or five minutes without an answer.  A body that was
\* under way in full may still be stored.
PutBreaks ==
  /\ srv \in {"receiving", "stored"} /\ done = "empty"
  /\ PutOver("err") /\ harm' = TRUE
  /\ \/ srv' = "over" /\ UNCHANGED file
     \/ srv = "receiving" /\ pipe = "eof" /\ srv' = "late"
        /\ file' = IF inPlace THEN "part" ELSE file
  /\ UNCHANGED <<dest, pc, goal, handed, verdict, spool, try, unknown, got>>

\* The aborted pipe: the transport tears the body.
PutTorn ==
  /\ pipe = "broken" /\ done = "empty"
  /\ PutOver("err") /\ srv' = "over"
  /\ UNCHANGED <<dest, pc, goal, handed, verdict, spool, try, unknown, got, file,
                 harm>>

-----------------------------------------------------------------------------
(* The rest of finish: a streamed upload                                   *)

\* WebDAV cleans up after an abort and after an error; Pixeldrain has nothing
\* to clean up, and its Abort drops the outcome of the PUT.
Conclude(failed) ==
  IF kind = "webdav" /\ (goal = "abort" \/ failed)
  THEN pc' = "deleting" /\ UNCHANGED verdict
  ELSE Return(IF goal = "abort" THEN "aborted"
              ELSE IF failed THEN "error" ELSE "ok")

SelectDone ==
  /\ pc = "waiting" /\ done # "empty"
  /\ Conclude(done = "err")
  /\ UNCHANGED <<dest, goal, handed, spool, try, unknown, putVars, srvVars, harm>>

\* Mutant: finish waits for the goroutine, however long.
SelectTimeout_Never ==
  /\ pc = "waiting" /\ done = "empty" /\ FALSE
  /\ UNCHANGED vars

\* Mutant: a timeout is an error like any other.
SelectTimeout_Deletes ==
  /\ pc = "waiting" /\ done = "empty"
  /\ unknown' = TRUE /\ harm' = TRUE
  /\ Conclude(TRUE)
  /\ UNCHANGED <<dest, goal, handed, spool, try, putVars, srvVars>>

\* finalizeWait: what the server makes of it is unknown, and a Close keeps it.
SelectTimeout ==
  /\ pc = "waiting" /\ done = "empty"
  /\ unknown' = TRUE /\ harm' = TRUE
  /\ IF goal = "abort" THEN Conclude(FALSE) ELSE Return("error")
  /\ UNCHANGED <<dest, goal, handed, spool, try, putVars, srvVars>>

-----------------------------------------------------------------------------
(* A spooled upload: putSpoolFile, at most Tries times                     *)

Unspool == temp' = FALSE

SpoolPut ==
  /\ pc = "putting"
  /\ file' = "whole" /\ Return("ok") /\ Unspool
  /\ UNCHANGED <<dest, goal, handed, spooled, try, unknown, putVars, srv, got,
                 harm>>

\* What a failed attempt leaves: nothing, a part if the server writes in place,
\* or, when only the answer was lost, the whole file, now or later.
SpoolDamage ==
  \/ UNCHANGED <<file, srv>>
  \/ inPlace /\ file' = "part" /\ UNCHANGED srv
  \/ file' = "whole" /\ UNCHANGED srv
  \/ srv' = "late" /\ file' = IF inPlace THEN "part" ELSE file

\* A transient failure is tried again; a refusal, or the last attempt, is final.
SpoolFails ==
  /\ pc = "putting" /\ harm' = TRUE
  /\ SpoolDamage
  /\ \/ Again /\ UNCHANGED <<pc, temp>>
     \/ pc' = "deleting" /\ Unspool /\ UNCHANGED try
  /\ UNCHANGED <<dest, goal, handed, verdict, spooled, unknown, putVars, got>>

-----------------------------------------------------------------------------
(* Clean-up                                                                *)

\* webdavDeleteRemote: best effort, its outcome is dropped.
DeleteRemote ==
  /\ pc = "deleting"
  /\ \/ file' = "none" /\ UNCHANGED harm
     \/ harm' = TRUE /\ UNCHANGED file
  /\ Return(IF goal = "abort" THEN "aborted" ELSE "error")
  /\ UNCHANGED <<dest, goal, handed, spool, try, unknown, putVars, srv, got>>

CloseSFTP ==
  /\ pc = "closing"
  /\ \/ Return("ok") /\ UNCHANGED harm
     \/ pc' = "removing" /\ harm' = TRUE /\ UNCHANGED verdict
  /\ UNCHANGED <<dest, goal, handed, spool, try, unknown, putVars, srvVars>>

RemovePartial ==
  /\ pc = "removing"
  /\ \/ /\ file' = "none" /\ UNCHANGED harm
        /\ Return(IF goal = "abort" THEN "aborted" ELSE "error")
     \/ /\ file' \in {file, "none"} /\ harm' = TRUE
        /\ Return("error")
  /\ UNCHANGED <<dest, goal, handed, spool, try, unknown, putVars, srv, got>>

Caller ==
  \/ Open \/ WriteStream \/ WriteSpool \/ WriteSFTP \/ Close \/ WriteFails
  \/ WriteRefused \/ SelectDone \/ SelectTimeout \/ SpoolPut \/ SpoolFails
  \/ DeleteRemote \/ CloseSFTP \/ RemovePartial

Server == Receive \/ ServerStores \/ PutAnswered \/ PutRefused \/ PutBreaks

Next == Caller \/ JobFails \/ PutTorn \/ Server

\* The caller and the goroutine run.  Nothing is asked of the server.
Spec == Init /\ [][Next]_vars /\ WF_vars(Caller) /\ WF_vars(PutTorn)

-----------------------------------------------------------------------------
(* Properties                                                              *)

PhasesOK ==
  /\ kind \in {"webdav", "pixeldrain", "sftp"}
  /\ pc \in {"opening", "settling", "writing", "waiting", "putting", "deleting",
             "closing", "removing", "returned"}
  /\ goal \in {"none", "close", "abort"}
  /\ verdict \in {"none", "ok", "error", "aborted"}
  /\ pipe \in {"open", "eof", "broken", "closed"}
  /\ done \in {"empty", "nil", "err"}
  /\ srv \in {"idle", "receiving", "stored", "late", "over"}
  /\ file \in {"none", "old", "part", "whole"}

FlagsOK ==
  /\ inPlace \in BOOLEAN /\ spooled \in BOOLEAN /\ temp \in BOOLEAN
  /\ unknown \in BOOLEAN /\ harm \in BOOLEAN

CountsOK == handed \in 0..Chunks /\ got \in 0..handed /\ try \in 1..Tries

SpoolOK == (temp => spooled) /\ (spooled => kind = "webdav")

\* Every variable keeps its type; only WebDAV spools, and a spool file exists
\* only then; the server has no more than was handed over.
TypeOK == PhasesOK /\ FlagsOK /\ CountsOK /\ SpoolOK

\* Nil from Close means the image is there in full, and no request that is
\* still under way, and no clean-up, changes that.
Contract == INSTANCE UploadContract WITH
  object <- IF file = "whole" THEN "whole" ELSE "other",
  status <- IF pc # "returned" THEN "running"
            ELSE IF verdict = "ok" THEN "ok" ELSE "error"
Implements == Contract!Spec

\* An abort while everything works leaves nothing of this upload behind:
\* neither the part that was written nor, where a file appears with the end of
\* its body (Pixeldrain), a file made of the part.
AbortedIsClean ==
  pc = "returned" /\ goal = "abort" /\ ~harm => file \notin {"part", "whole"}

\* The spool file may be as large as the disk, and lies in memory on the RAM
\* system: no ending of Close or Abort leaves it.  (A second Ctrl+C during the PUT
\* of the spool ends the process and does.)
SpoolIsRemoved == pc = "returned" => ~temp

\* What ends without success leaves nothing behind, here or there.
NothingIsLeftBehind == AbortedIsClean /\ SpoolIsRemoved

\* finish: "An unknown outcome (server still ingesting after the stream ended)
\* must NOT be deleted -- the file may already be complete."
UnknownIsKept ==
  [][goal = "close" /\ unknown /\ file = "whole" => file' = "whole"]_vars

\* finish: "Delete the partial remote file only when its partial-ness is
\* certain".  Not kept: an atomic server still shows the file of an earlier
\* run, and an answer that was lost says nothing of the file it was about.
OnlyPartialIsDeleted == [][file' = "none" => file \in {"none", "part"}]_vars

\* Close and Abort of a streamed upload come back from a mute server, and once
\* the goroutine has given up, no Write stays blocked on the pipe.
FinishEnds ==
  Streaming /\ (goal # "none" \/ done # "empty") ~> pc = "returned"
=============================================================================
