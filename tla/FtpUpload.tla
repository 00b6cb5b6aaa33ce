------------------------------ MODULE FtpUpload ------------------------------
(***************************************************************************)
(* The FTP storage writer: the caller (execSaveToStorage streaming into    *)
(* Write, then Close or Abort), the goroutine that runs stor, the mutex    *)
(* on the control connection the two share, and the server behind a data   *)
(* and a control connection.                                               *)
(*                                                                         *)
(* The image is Chunks chunks long.  No clock: a deadline may pass         *)
(* whenever what it waits for has not come.                                *)
(***************************************************************************)
EXTENDS Naturals, Sequences

CONSTANTS
  Chunks,      \* length of the image
  Window       \* chunks the data connection holds

ASSUME FtpAssumption == Chunks \in Nat \ {0} /\ Window \in Nat \ {0}

VARIABLES
  \* the caller, in openFTP, Write and finish
  pc,
  goal,        \* "close" or "abort" once finish was called
  handed,      \* ftpWriter.written
  timedOut,    \* finish saw finalizeWait pass
  verdict,     \* what finish returns
  \* the stor goroutine
  stor, copyErr,
  hold,        \* it has a chunk in its buffer
  pipe,        \* the write end: open, eof, broken (CloseWithError), closed
  done,        \* the done channel
  mu,          \* ftpClient.mu
  answered,    \* history: stor read its final reply itself
  \* the connections and the server
  data,        \* data connection: open, closed (by us), refused (by the server)
  sent, got,   \* chunks written to it, chunks stored
  srv,         \* "waiting" for STOR, "storing", "idle"
  gone,        \* the file was deleted
  ctrl,        \* control connection: up, down
  cmds, replies

callerVars == <<pc, goal, handed, timedOut, verdict>>
storVars   == <<stor, copyErr, hold, done, answered>>
serverVars == <<got, srv, gone>>
lineVars   == <<cmds, replies>>
vars == <<pc, goal, handed, timedOut, verdict, stor, copyErr, hold, pipe, done,
          mu, answered, data, sent, got, srv, gone, ctrl, cmds, replies>>

Init ==
  /\ pc = "opening" /\ goal = "none" /\ handed = 0 /\ timedOut = FALSE
  /\ verdict = "none"
  /\ stor = "asking" /\ copyErr = FALSE /\ hold = FALSE /\ pipe = "open"
  /\ done = "empty" /\ mu = "free" /\ answered = FALSE
  /\ data = "open" /\ sent = 0 /\ got = 0 /\ srv = "waiting" /\ gone = FALSE
  /\ ctrl = "up" /\ cmds = <<>> /\ replies = <<>>

-----------------------------------------------------------------------------
(* The control connection                                                  *)

Reply(code) == [code |-> code, size |-> 0]
NoReply == Reply(0)

\* What readRespLocked returns: the next reply, or, once the deadline has
\* passed or the connection is gone, an error.
Incoming == IF ctrl = "up" /\ replies # <<>> THEN Head(replies) ELSE NoReply
Rest == IF Incoming = NoReply THEN replies ELSE Tail(replies)

Positive(r) == r.code \div 100 = 2

Answer(r) == replies' = IF ctrl = "up" THEN Append(replies, r) ELSE replies

-----------------------------------------------------------------------------
(* The stor goroutine                                                      *)

StorOver(result) ==
  /\ stor' = "over" /\ done' = result
  /\ pipe' = "closed"

\* The data connection is open and the server answered STOR with 1xx.
StorAccepted ==
  /\ stor = "asking" /\ ctrl = "up"
  /\ stor' = "copying" /\ srv' = "storing"
  /\ UNCHANGED <<callerVars, copyErr, hold, pipe, done, mu, answered, data,
                 sent, got, gone, ctrl, lineVars>>

StorRefused ==
  /\ stor = "asking"
  /\ StorOver("err")
  /\ UNCHANGED <<callerVars, copyErr, hold, mu, answered, data, sent,
                 serverVars, ctrl, lineVars>>

DataWrite ==
  /\ stor = "copying" /\ hold
  /\ data = "open" /\ sent - got < Window
  /\ sent' = sent + 1 /\ hold' = FALSE
  /\ UNCHANGED <<callerVars, stor, copyErr, pipe, done, mu, answered, data,
                 serverVars, ctrl, lineVars>>

LeaveCopy(failed) ==
  /\ stor' = "replying"
  /\ copyErr' = failed /\ hold' = FALSE
  /\ data' = IF data = "open" THEN "closed" ELSE data

\* Mutant: no write deadline; only a broken connection fails the write.
DataFails_NoDeadline ==
  /\ stor = "copying" /\ hold /\ data # "open"
  /\ LeaveCopy(TRUE)
  /\ UNCHANGED <<callerVars, pipe, done, mu, answered, sent, serverVars, ctrl,
                 lineVars>>

\* The server closed the data connection, or took nothing for two minutes.
DataFails ==
  /\ stor = "copying" /\ hold
  /\ data # "open" \/ sent - got >= Window
  /\ LeaveCopy(TRUE)
  /\ UNCHANGED <<callerVars, pipe, done, mu, answered, sent, serverVars, ctrl,
                 lineVars>>

\* io.Copy meets the end of the pipe, which is an error after an abort.
CopyEnds ==
  /\ stor = "copying" /\ ~hold /\ pipe # "open"
  /\ LeaveCopy(pipe = "broken")
  /\ UNCHANGED <<callerVars, pipe, done, mu, answered, sent, serverVars, ctrl,
                 lineVars>>

StorLocks ==
  /\ stor = "replying" /\ mu = "free"
  /\ stor' = "reading" /\ mu' = "stor"
  /\ UNCHANGED <<callerVars, copyErr, hold, pipe, done, answered, data, sent,
                 serverVars, ctrl, lineVars>>

\* Mutant: the final reply is read but not looked at.
StorReads_AnyReply ==
  /\ stor = "reading"
  /\ StorOver(IF copyErr THEN "err" ELSE "nil")
  /\ replies' = Rest /\ answered' = (Incoming # NoReply)
  /\ mu' = "free"
  /\ UNCHANGED <<callerVars, copyErr, hold, data, sent, serverVars, ctrl, cmds>>

StorReads ==
  /\ stor = "reading"
  /\ StorOver(IF copyErr \/ ~Positive(Incoming) THEN "err" ELSE "nil")
  /\ replies' = Rest /\ answered' = (Incoming # NoReply)
  /\ mu' = "free"
  /\ UNCHANGED <<callerVars, copyErr, hold, data, sent, serverVars, ctrl, cmds>>

Stor == StorAccepted \/ StorRefused \/ DataWrite \/ DataFails \/ CopyEnds
        \/ StorLocks \/ StorReads

-----------------------------------------------------------------------------
(* The caller: Open, Write, and the choice between Close and Abort         *)

OpenReturns ==
  /\ pc = "opening"
  /\ \/ srv # "waiting" /\ pc' = "writing" /\ UNCHANGED <<verdict, ctrl>>
     \/ done # "empty" /\ mu = "free" /\ pc' = "returned" /\ verdict' = "error"
        /\ ctrl' = "down"
  /\ UNCHANGED <<goal, handed, timedOut, storVars, pipe, mu, data, sent,
                 serverVars, lineVars>>

\* The pipe hands a chunk over only when the goroutine takes it.
Write ==
  /\ pc = "writing" /\ handed < Chunks
  /\ pipe = "open" /\ stor = "copying" /\ ~hold
  /\ handed' = handed + 1 /\ hold' = TRUE
  /\ UNCHANGED <<pc, goal, timedOut, verdict, stor, copyErr, pipe, done, mu,
                 answered, data, sent, serverVars, ctrl, lineVars>>

\* finish, up to its select: Close ends the pipe, Abort breaks it.
Finish(how) ==
  /\ pc' = "select" /\ goal' = how
  /\ pipe' = IF pipe # "open" THEN pipe
             ELSE IF how = "close" THEN "eof" ELSE "broken"
  /\ UNCHANGED <<handed, timedOut, verdict, storVars, mu, data, sent,
                 serverVars, ctrl, lineVars>>

Close == pc = "writing" /\ handed = Chunks /\ Finish("close")

\* The goroutine is gone: Write returns ErrClosedPipe and the job fails.
WriteFails ==
  pc = "writing" /\ handed < Chunks /\ pipe = "closed" /\ Finish("abort")

\* The job fails for a reason of its own, however much it has written.
JobFails == pc = "writing" /\ Finish("abort")

-----------------------------------------------------------------------------
(* The rest of finish                                                      *)

\* Close: nil quits, an error deletes the partial file.  Abort deletes.
SelectDone ==
  /\ pc = "select" /\ done # "empty"
  /\ IF goal = "close" /\ done = "nil"
     THEN pc' = "quit" /\ verdict' = "ok"
     ELSE pc' = "teardown" /\ UNCHANGED verdict
  /\ UNCHANGED <<goal, handed, timedOut, storVars, pipe, mu, data, sent,
                 serverVars, ctrl, lineVars>>

\* The goroutine waits for the server: to take data, or to answer.
Stalled ==
  \/ stor = "copying" /\ hold /\ data = "open" /\ sent - got >= Window
  \/ stor = "reading" /\ ctrl = "up" /\ replies = <<>>

\* finalizeWait has passed: Close asks for the size and keeps the file.
SelectTimeout ==
  /\ pc = "select" /\ done = "empty" /\ Stalled
  /\ timedOut' = TRUE
  /\ pc' = IF goal = "close" THEN "verify" ELSE "teardown"
  /\ UNCHANGED <<goal, handed, verdict, storVars, pipe, mu, data, sent,
                 serverVars, ctrl, lineVars>>

\* The lock is had at once, or given up after three seconds.
Locked == mu = "free" /\ ctrl = "up"

Send(command, at) ==
  /\ Locked
  /\ mu' = "main" /\ cmds' = Append(cmds, command)
  /\ pc' = at
  /\ UNCHANGED <<verdict, ctrl>>

\* conn.Close: the goroutine's blocked read, if any, fails.
Drop(result) ==
  /\ pc' = "returned" /\ verdict' = result
  /\ ctrl' = "down" /\ mu' = IF mu = "main" THEN "free" ELSE mu

NotRemoved == IF goal = "abort" THEN "remains" ELSE "error"

Teardown ==
  /\ pc = "teardown"
  /\ \/ Send("DELE", "deleting")
     \/ ~Locked /\ Drop(NotRemoved) /\ UNCHANGED cmds
  /\ UNCHANGED <<goal, handed, timedOut, storVars, pipe, data, sent, serverVars,
                 replies>>

\* Mutant: any answer to DELE will do.
Deleting_AnyReply ==
  /\ pc = "deleting"
  /\ IF Incoming # NoReply
     THEN /\ pc' = "quit"
          /\ verdict' = IF goal = "abort" THEN "removed" ELSE "error"
          /\ UNCHANGED <<mu, ctrl>>
     ELSE Drop(NotRemoved)
  /\ replies' = Rest
  /\ UNCHANGED <<goal, handed, timedOut, storVars, pipe, data, sent, serverVars,
                 cmds>>

Deleting ==
  /\ pc = "deleting"
  /\ IF Positive(Incoming)
     THEN /\ pc' = "quit"
          /\ verdict' = IF goal = "abort" THEN "removed" ELSE "error"
          /\ UNCHANGED <<mu, ctrl>>
     ELSE Drop(NotRemoved)
  /\ replies' = Rest
  /\ UNCHANGED <<goal, handed, timedOut, storVars, pipe, data, sent, serverVars,
                 cmds>>

Verify ==
  /\ pc = "verify"
  /\ \/ Send("SIZE", "sizing")
     \/ ~Locked /\ Drop("error") /\ UNCHANGED cmds
  /\ UNCHANGED <<goal, handed, timedOut, storVars, pipe, data, sent, serverVars,
                 replies>>

Sizing ==
  /\ pc = "sizing"
  /\ pc' = "quit"
  /\ verdict' = IF Incoming.code = 213 /\ Incoming.size = handed
                THEN "ok" ELSE "error"
  /\ replies' = Rest
  /\ UNCHANGED <<goal, handed, timedOut, storVars, pipe, mu, data, sent,
                 serverVars, ctrl, cmds>>

\* quit and quitLocked: QUIT, its reply or three seconds, conn.Close.  After
\* done the goroutine is out of the way, so taking the lock is immediate.
Quit ==
  /\ pc = "quit" /\ mu # "stor"
  /\ cmds' = IF ctrl = "up" THEN Append(cmds, "QUIT") ELSE cmds
  /\ pc' = "returned"
  /\ ctrl' = "down" /\ mu' = "free"
  /\ UNCHANGED <<goal, handed, timedOut, verdict, storVars, pipe, data, sent,
                 serverVars, replies>>

Caller == OpenReturns \/ Write \/ Close \/ WriteFails \/ SelectDone
          \/ SelectTimeout \/ Teardown \/ Deleting \/ Verify \/ Sizing \/ Quit

-----------------------------------------------------------------------------
(* The server: STOR first, then the queued commands in order               *)

ServerStores ==
  /\ srv = "storing" /\ got < sent
  /\ got' = got + 1
  /\ UNCHANGED <<callerVars, storVars, pipe, mu, data, sent, srv, gone, ctrl,
                 lineVars>>

\* A closed data connection is the end of the file, whatever its sender meant.
ServerEnds ==
  /\ srv = "storing" /\ data = "closed" /\ got = sent
  /\ srv' = "idle" /\ Answer(Reply(226))
  /\ UNCHANGED <<callerVars, storVars, pipe, mu, data, sent, got, gone, ctrl,
                 cmds>>

\* A full disk, a quota, a broken data connection.
ServerFails ==
  /\ srv = "storing"
  /\ srv' = "idle" /\ Answer(Reply(426))
  /\ data' = "refused"
  /\ UNCHANGED <<callerVars, storVars, pipe, mu, sent, got, gone, ctrl, cmds>>

ServerCommand ==
  /\ srv = "idle" /\ cmds # <<>>
  /\ cmds' = Tail(cmds)
  /\ \/ /\ Head(cmds) = "SIZE"
        /\ Answer([code |-> 213, size |-> got])
        /\ UNCHANGED gone
     \/ /\ Head(cmds) = "DELE"
        /\ Answer(Reply(250)) /\ gone' = TRUE
     \/ /\ Head(cmds) \in {"SIZE", "DELE"}
        /\ Answer(Reply(550)) /\ UNCHANGED gone
     \/ /\ Head(cmds) = "QUIT"
        /\ UNCHANGED <<replies, gone>>
  /\ UNCHANGED <<callerVars, storVars, pipe, mu, data, sent, got, srv, ctrl>>

\* The idle control connection is dropped on the way (NAT, firewall).
ControlLost ==
  /\ ctrl = "up" /\ pc # "opening"
  /\ ctrl' = "down"
  /\ UNCHANGED <<callerVars, storVars, pipe, mu, data, sent, serverVars,
                 lineVars>>

Server == ServerStores \/ ServerEnds \/ ServerFails \/ ServerCommand
          \/ ControlLost

Next == Caller \/ JobFails \/ Stor \/ Server

\* The two goroutines run; the server may be mute for ever, and the image
\* arrives as module Transfer says.
Spec == Init /\ [][Next]_vars /\ WF_vars(Caller) /\ WF_vars(Stor)

-----------------------------------------------------------------------------
(* Properties                                                              *)

Codes == {226, 426, 213, 250, 550}

PhasesOK ==
  /\ pc \in {"opening", "writing", "select", "teardown", "deleting", "verify",
             "sizing", "quit", "returned"}
  /\ goal \in {"none", "close", "abort"}
  /\ verdict \in {"none", "ok", "error", "removed", "remains"}
  /\ stor \in {"asking", "copying", "replying", "reading", "over"}
  /\ pipe \in {"open", "eof", "broken", "closed"}
  /\ done \in {"empty", "nil", "err"} /\ mu \in {"free", "main", "stor"}
  /\ data \in {"open", "closed", "refused"}
  /\ srv \in {"waiting", "storing", "idle"} /\ ctrl \in {"up", "down"}

FlagsOK ==
  /\ timedOut \in BOOLEAN /\ copyErr \in BOOLEAN /\ hold \in BOOLEAN
  /\ answered \in BOOLEAN /\ gone \in BOOLEAN

CountsOK ==
  /\ handed \in 0..Chunks /\ sent \in 0..handed /\ got \in 0..sent
  /\ hold => sent < handed

LinesOK ==
  /\ cmds \in Seq({"SIZE", "DELE", "QUIT"})
  /\ replies \in Seq([code : Codes, size : 0..Chunks])

\* Every variable keeps its type; what the server stored was sent, what was
\* sent was handed over.
TypeOK == PhasesOK /\ FlagsOK /\ CountsOK /\ LinesOK

\* Nil from Close, by the final reply or by the size the server names, means
\* the whole image is there, and no command still under way removes it.
Contract == INSTANCE UploadContract WITH
  object <- IF got = Chunks /\ ~gone THEN "whole" ELSE "other",
  status <- IF pc # "returned" THEN "running"
            ELSE IF verdict = "ok" THEN "ok" ELSE "error"
Implements == Contract!Spec

Removed == pc = "returned" /\ verdict = "removed"

\* Abort's comment: "the caller must not be told the server is clean when it
\* may still hold a partial image".  Kept if the goroutine read the reply to STOR
\* itself before finish stopped waiting for it; otherwise that reply can be taken
\* for the reply to DELE.
AnsweredAbortTellsTruth == Removed /\ answered /\ ~timedOut => gone

\* The upload ends with a mute server, too: no wait for the pipe, the data
\* connection, the done channel, a reply or the lock is without a limit.
UploadEnds == <>(pc = "returned")
=============================================================================
