------------------------------ MODULE Transfer ------------------------------
(***************************************************************************)
(* The transfer itself: streamRaw, streamCompressed, streamCompressedRaw   *)
(* and the copyWithProgress loop they share, with the stall watchdog and   *)
(* the watchInterrupt goroutine that run beside it, IsConnected that both  *)
(* the loop and the watchdog call, and the remote "dd [| gzip]".           *)
(*                                                                         *)
(* The disk is DiskSize units long.  A compressed stream is represented by *)
(* the disk units it decodes to, followed by its footer.  Session.Close    *)
(* only sends a message: a blocked Read or Wait ends when the host answers *)
(* it, or when the transport is dead.                                      *)
(***************************************************************************)
EXTENDS Naturals, FiniteSets

CONSTANTS
  DiskSize,    \* units on the source disk
  BlockSize,   \* units in one dd record
  Window,      \* units the SSH channel and the pipes hold
  Sizes,       \* what the job may believe the size to be; 0 is "unknown"
  Shells,      \* the remote shells considered, among
               \*   "pipefail" (has it), "plain" (shrugs the set off) and
               \*   "strict" (a failing special builtin ends it, as in dash)
  MaxFaults    \* bound on the kinds of faults met in one run

ASSUME TransferAssumption ==
  /\ DiskSize \in Nat \ {0} /\ BlockSize \in Nat \ {0} /\ Window \in Nat \ {0}
  /\ Sizes \subseteq {0, DiskSize}
  /\ Shells \subseteq {"pipefail", "plain", "strict"}
  /\ MaxFaults \in Nat

VARIABLES
  conf,       \* mode, SourceSize (0: unknown), and what the host has
  \* the main thread
  pc,
  chunk,      \* units read and not yet written
  written,    \* copyWithProgress's counter
  sunk,       \* units the sink can be read back to
  err,        \* copyErr
  exitErr,    \* session.Wait failed
  stderr,     \* the dd statistics that arrived, if any
  result,
  \* the host and the connection
  dd,         \* the remote dd's life
  sent,       \* units on their way or received
  stream,     \* the channel's data: open, ended in order, or broken off
  link,       \* "up", "silent" (nothing passes, nobody knows), "down"
  closed,     \* Session.Close was called: the message is on its way
  \* helpers
  watch,      \* the watchdog goroutine
  pending,    \* Client.probePending
  presses, sigCh, handler, cancelled,
  faults      \* history: what went wrong outside the program

mainVars == <<pc, chunk, written, sunk, err, exitErr, stderr, result>>
hostVars == <<dd, sent, stream>>
intVars  == <<presses, sigCh, handler, cancelled>>
vars == <<conf, pc, chunk, written, sunk, err, exitErr, stderr, result, dd,
          sent, stream, link, closed, watch, pending, presses, sigCh, handler,
          cancelled, faults>>

Modes == {"raw", "gunzip", "tee"}
Compressed == conf.mode # "raw"
FaultKinds == {"press", "late", "dd", "gzip", "link", "sink", "overlap",
               "stderr"}

\* A "strict" shell ends at "set -o pipefail": no dd, an empty stream.
Stillborn == Compressed /\ conf.shell = "strict"

Init ==
  /\ conf \in [mode : Modes, size : Sizes, shell : Shells,
               gnu : BOOLEAN, sigterm : BOOLEAN]
  /\ pc = IF Compressed THEN "header" ELSE "loop"
  /\ chunk = 0 /\ written = 0 /\ sunk = 0
  /\ err = "none" /\ exitErr = FALSE /\ stderr = "none" /\ result = "none"
  /\ dd = IF Stillborn THEN "dead" ELSE "running"
  /\ sent = 0
  /\ stream = IF Stillborn THEN "broken" ELSE "open"
  /\ link = "up" /\ closed = FALSE
  /\ watch = IF Compressed THEN "off" ELSE "waiting"
  /\ pending = FALSE
  /\ presses = 0 /\ sigCh = FALSE /\ handler = TRUE /\ cancelled = FALSE
  /\ faults = {}

Copying == pc \in {"loop", "read", "write", "progress", "probing"}

\* The environment may still misbehave in this way.
Fault(kind) ==
  /\ Cardinality(faults \cup {kind}) <= MaxFaults
  /\ faults' = faults \cup {kind}

-----------------------------------------------------------------------------
(* The remote pipeline and the connection                                  *)

DdWrites ==
  /\ dd = "running" /\ link = "up"
  /\ sent < DiskSize /\ sent < written + chunk + Window
  /\ sent' = sent + 1
  /\ UNCHANGED <<conf, mainVars, dd, stream, link, closed, watch, pending,
                 intVars, faults>>

\* dd reaches the end of the disk; gzip writes its footer.
DdEnds ==
  /\ dd = "running" /\ sent = DiskSize
  /\ dd' = "eof" /\ stream' = "ended"
  /\ UNCHANGED <<conf, mainVars, sent, link, closed, watch, pending, intVars,
                 faults>>

\* A read error ends dd with its statistics; a SIGKILL (OOM) ends it without.
\* Either way gzip sees the end of its input and writes a valid footer.
DdFails ==
  /\ dd = "running"
  /\ Fault("dd")
  /\ dd' \in {"ioerror", "dead"} /\ stream' = "ended"
  /\ UNCHANGED <<conf, mainVars, sent, link, closed, watch, pending, intVars>>

\* The compressor dies: no footer, a failing pipeline, dd gets SIGPIPE.
GzipDies ==
  /\ Compressed /\ stream = "open"
  /\ Fault("gzip")
  /\ dd' = "dead" /\ stream' = "broken"
  /\ UNCHANGED <<conf, mainVars, sent, link, closed, watch, pending, intVars>>

\* A cable is pulled, a NAT entry expires; the units in flight may be lost.
LinkFalls ==
  /\ link = "up" /\ "link" \notin faults
  /\ Fault("link")
  /\ link' = "silent"
  /\ UNCHANGED <<conf, mainVars, hostVars, closed, watch, pending, intVars>>

LinkRecovers ==
  /\ link = "silent"
  /\ link' = "up"
  /\ UNCHANGED <<conf, mainVars, hostVars, closed, watch, pending, intVars,
                 faults>>

\* TCP gives up on the silent connection: what was in flight is gone.
LinkReset ==
  /\ link = "silent"
  /\ link' = "down"
  /\ sent' \in (written + chunk)..sent
  /\ stream' = "broken"
  /\ dd' = IF dd = "running" THEN "dead" ELSE dd
  /\ UNCHANGED <<conf, mainVars, closed, watch, pending, intVars, faults>>

\* The host gets the close: the pipeline loses its output and dies, and sshd,
\* which waits for it, closes its own end.
Hangup ==
  /\ closed /\ stream = "open" /\ link = "up"
  /\ stream' = "broken" /\ dd' = "dead"
  /\ UNCHANGED <<conf, mainVars, sent, link, closed, watch, pending, intVars,
                 faults>>

Environment == DdWrites \/ DdEnds \/ DdFails \/ GzipDies \/ LinkFalls
               \/ LinkRecovers \/ LinkReset \/ Hangup

-----------------------------------------------------------------------------
(* IsConnected                                                             *)

\* It found another probe outstanding, waiting for its answer or stuck.
ProbeBusy == pending /\ faults' = faults \cup {"overlap"}

ProbeStart == ~pending /\ pending' = TRUE /\ UNCHANGED faults

\* The verdict of a probe that was sent: on a silent link it is FALSE after
\* keepaliveTimeout and probePending stays set.
ProbeVerdict(connected) ==
  \/ link = "up" /\ connected /\ pending' = FALSE
  \/ link = "down" /\ ~connected /\ pending' = FALSE
  \/ link = "silent" /\ ~connected /\ UNCHANGED pending

\* The stuck probe's goroutine gets its answer and clears the flag.
LateAnswer ==
  /\ pending /\ pc # "probing" /\ watch # "probing" /\ link # "silent"
  /\ pending' = FALSE
  /\ UNCHANGED <<conf, mainVars, hostVars, link, closed, watch, intVars,
                 faults>>

-----------------------------------------------------------------------------
(* copyWithProgress, after gzip.NewReader for a compressed stream          *)

\* The host has closed its end, or TCP has given up (LinkReset).  On a silent
\* connection no end arrives, whether or not this side has called Close.
StreamOver == stream # "open" /\ link # "silent"

\* What was received is handed out before the end is.
Drained == sent = written

\* What Read makes of it.  A raw channel shows every end as io.EOF; a gzip
\* reader wants the footer.
CleanEnd == Compressed => stream = "ended"

\* Mutant: the session stays open after a failed copy.
LeaveCopy_NoClose(e) ==
  /\ pc' = "wait"
  /\ err' = e
  /\ UNCHANGED closed
  /\ watch' = IF watch = "waiting" THEN "done" ELSE watch

\* copyWithProgress returns: close(watchDone); on an error, Session.Close.
LeaveCopy(e) ==
  /\ pc' = "wait"
  /\ err' = e
  /\ closed' = (closed \/ e # "none")
  /\ watch' = IF watch = "waiting" THEN "done" ELSE watch

HeaderRead ==
  /\ pc = "header" /\ (sent > 0 \/ stream = "ended")
  /\ pc' = "loop"
  /\ watch' = "waiting"
  /\ UNCHANGED <<conf, chunk, written, sunk, err, exitErr, stderr, result,
                 hostVars, link, closed, pending, intVars, faults>>

\* "init gzip decompressor": a direct return, past the final checks.
HeaderFails ==
  /\ pc = "header"
  /\ \/ /\ StreamOver /\ stream = "broken" /\ (sent = 0 \/ link = "down")
        /\ UNCHANGED faults
     \/ conf.mode = "tee" /\ Fault("sink")
  /\ pc' = "returned" /\ result' = "error" /\ err' = "header"
  /\ closed' = TRUE
  /\ handler' = FALSE /\ sigCh' = FALSE
  /\ UNCHANGED <<conf, chunk, written, sunk, exitErr, stderr, hostVars, link,
                 watch, pending, presses, cancelled>>

LoopTop ==
  /\ pc = "loop"
  /\ IF cancelled
     THEN LeaveCopy("cancelled")
     ELSE pc' = "read" /\ UNCHANGED <<err, closed, watch>>
  /\ UNCHANGED <<conf, chunk, written, sunk, exitErr, stderr, result, hostVars,
                 link, pending, intVars, faults>>

\* Mutant: the buffer is written whole, not up to the count Read returned.
ReadData_WholeBuffer ==
  /\ pc = "read" /\ sent > written
  /\ chunk' = Window + 1
  /\ sunk' = IF conf.mode = "tee" THEN written + chunk' ELSE sunk
  /\ pc' = "write"
  /\ UNCHANGED <<conf, written, err, exitErr, stderr, result, hostVars, link,
                 closed, watch, pending, intVars, faults>>

\* Read returns data.  With the tee the sink gets it inside this very Read.
ReadData ==
  /\ pc = "read"
  /\ \E n \in 1..(sent - written) :
       /\ chunk' = n
       /\ sunk' = IF conf.mode = "tee" THEN written + n ELSE sunk
  /\ pc' = "write"
  /\ UNCHANGED <<conf, written, err, exitErr, stderr, result, hostVars, link,
                 closed, watch, pending, intVars, faults>>

ReadEnd ==
  /\ pc = "read" /\ StreamOver /\ Drained
  /\ LeaveCopy(IF CleanEnd THEN "none" ELSE "read")
  /\ UNCHANGED <<conf, chunk, written, sunk, exitErr, stderr, result, hostVars,
                 link, pending, intVars, faults>>

\* dst.Write, and the tee's errWriter, report a full disk or a failed upload.
SinkFails ==
  /\ \/ pc = "write" /\ conf.mode # "tee"
     \/ pc = "read" /\ conf.mode = "tee" /\ sent > written
  /\ Fault("sink")
  /\ LeaveCopy("sink")
  /\ UNCHANGED <<conf, chunk, written, sunk, exitErr, stderr, result, hostVars,
                 link, pending, intVars>>

\* The chunk is in; at most once a second the loop goes on to report progress.
Write ==
  /\ pc = "write"
  /\ sunk' = IF conf.mode = "tee" THEN sunk ELSE written + chunk
  /\ written' = written + chunk
  /\ chunk' = 0
  /\ pc' \in {"loop", "progress"}
  /\ UNCHANGED <<conf, err, exitErr, stderr, result, hostVars, link, closed,
                 watch, pending, intVars, faults>>

\* The liveness check after a progress report.
Progress ==
  /\ pc = "progress"
  /\ \/ ProbeBusy /\ LeaveCopy("lost") /\ UNCHANGED pending
     \/ ProbeStart /\ pc' = "probing" /\ UNCHANGED <<err, closed, watch>>
  /\ UNCHANGED <<conf, chunk, written, sunk, exitErr, stderr, result, hostVars,
                 link, intVars>>

ProgressVerdict ==
  /\ pc = "probing"
  /\ \/ ProbeVerdict(TRUE) /\ pc' = "loop" /\ UNCHANGED <<err, closed, watch>>
     \/ ProbeVerdict(FALSE) /\ LeaveCopy("lost")
  /\ UNCHANGED <<conf, chunk, written, sunk, exitErr, stderr, result, hostVars,
                 link, intVars, faults>>

-----------------------------------------------------------------------------
(* The watchdog: a tick that finds sixty seconds without data              *)

WatchTick ==
  /\ watch = "waiting" /\ pc \in {"read", "write", "probing"}
  /\ \/ ProbeBusy /\ closed' = TRUE /\ watch' = "done" /\ UNCHANGED pending
     \/ ProbeStart /\ watch' = "probing" /\ UNCHANGED closed
  /\ UNCHANGED <<conf, mainVars, hostVars, link, intVars>>

\* The verdict may come after the copy has returned; Close is called all the
\* same.
WatchVerdict ==
  /\ watch = "probing"
  /\ \/ /\ ProbeVerdict(TRUE)
        /\ watch' = IF Copying THEN "waiting" ELSE "done"
        /\ UNCHANGED closed
     \/ ProbeVerdict(FALSE) /\ closed' = TRUE /\ watch' = "done"
  /\ UNCHANGED <<conf, mainVars, hostVars, link, intVars, faults>>

-----------------------------------------------------------------------------
(* The end of the stream function                                          *)

\* The exit status the shell reports.
ExitClean ==
  /\ stream # "broken"
  /\ (Compressed /\ conf.shell # "pipefail") \/ dd = "eof"

\* session.Wait: the remote status, or "exited without status" if the channel
\* was torn down first.
Wait ==
  /\ pc = "wait" /\ StreamOver
  /\ \/ link = "up" /\ exitErr' = ~ExitClean
     \/ (closed \/ link = "down") /\ exitErr' = TRUE
  /\ pc' = "stderr"
  /\ UNCHANGED <<conf, chunk, written, sunk, err, stderr, result, hostVars,
                 link, closed, watch, pending, intVars, faults>>

\* The statistics dd left, unless they take more than three seconds.
Statistics ==
  /\ pc = "stderr"
  /\ \/ /\ stderr' = IF dd \in {"eof", "ioerror"}
                     THEN IF conf.gnu THEN "bytes" ELSE "records"
                     ELSE "none"
        /\ UNCHANGED faults
     \/ stderr' = "none" /\ Fault("stderr")
  /\ pc' = "verdict"
  /\ UNCHANGED <<conf, chunk, written, sunk, err, exitErr, result, hostVars,
                 link, closed, watch, pending, intVars>>

\* Mutant: the record count taken for an exact size.
ddRecordsTruncated_Exact ==
  LET recs == sent \div BlockSize
  IN  conf.size > 0 /\ recs * BlockSize <= conf.size

ddRecordsTruncated ==
  LET recs == sent \div BlockSize
  IN  /\ conf.size > 0
      /\ recs <= conf.size \div BlockSize
      /\ recs * BlockSize + BlockSize <= conf.size

\* Mutant: only dd's own statistics are trusted.
Truncated_StatisticsOnly ==
  \/ stderr = "bytes" /\ sent > 0 /\ sent < conf.size
  \/ stderr # "none" /\ ddRecordsTruncated

\* dd read less than SourceSize: by its own byte count, by its record count,
\* or by what arrived here.
Truncated ==
  \/ stderr = "bytes" /\ sent > 0 /\ sent < conf.size
  \/ stderr # "none" /\ ddRecordsTruncated
  \/ written < conf.size

\* Mutant: the exit status is not looked at.
Verdict_NoExitStatus ==
  /\ pc = "verdict"
  /\ result' = IF cancelled \/ err # "none" \/ written = 0 \/ Truncated
               THEN "error" ELSE "ok"
  /\ pc' = "reporting"
  /\ UNCHANGED <<conf, chunk, written, sunk, err, exitErr, stderr, hostVars,
                 link, closed, watch, pending, intVars, faults>>

\* Mutant: the flag is left to the copy loop.
Verdict_NoCancelCheck ==
  /\ pc = "verdict"
  /\ result' = IF err # "none" \/ exitErr \/ written = 0 \/ Truncated
               THEN "error" ELSE "ok"
  /\ pc' = "reporting"
  /\ UNCHANGED <<conf, chunk, written, sunk, err, exitErr, stderr, hostVars,
                 link, closed, watch, pending, intVars, faults>>

\* finalErr is settled; progressFn then reports it ...
Verdict ==
  /\ pc = "verdict"
  /\ result' = IF cancelled \/ err # "none" \/ exitErr \/ written = 0
                  \/ Truncated
               THEN "error" ELSE "ok"
  /\ pc' = "reporting"
  /\ UNCHANGED <<conf, chunk, written, sunk, err, exitErr, stderr, hostVars,
                 link, closed, watch, pending, intVars, faults>>

\* ... and only the deferred close(done) takes the handler away.
Return ==
  /\ pc = "reporting"
  /\ pc' = "returned"
  /\ closed' = TRUE
  /\ handler' = FALSE /\ sigCh' = FALSE
  /\ UNCHANGED <<conf, chunk, written, sunk, err, exitErr, stderr, result,
                 hostVars, link, watch, pending, presses, cancelled, faults>>

Main == HeaderRead \/ HeaderFails \/ LoopTop \/ ReadData \/ ReadEnd
        \/ SinkFails \/ Write \/ Progress \/ ProgressVerdict \/ Wait
        \/ Statistics \/ Verdict \/ Return

-----------------------------------------------------------------------------
(* Ctrl+C                                                                  *)

Running == pc \notin {"returned", "dead"}

Press ==
  /\ Running /\ presses < 2
  /\ Fault("press")
  /\ presses' = presses + 1
  /\ sigCh' = TRUE
  /\ UNCHANGED <<conf, mainVars, hostVars, link, closed, watch, pending,
                 handler, cancelled>>

\* SIGTERM ends the pipeline where the SSH server delivers it.  A press after
\* the verdict is "late": it is answered, and changes nothing.
Cancel ==
  /\ Running /\ handler /\ sigCh /\ ~cancelled
  /\ sigCh' = FALSE /\ cancelled' = TRUE
  /\ IF conf.sigterm /\ link = "up" /\ stream = "open"
     THEN dd' = "dead" /\ stream' \in {"ended", "broken"}
     ELSE UNCHANGED <<dd, stream>>
  /\ faults' = IF pc = "reporting" THEN faults \cup {"late"} ELSE faults
  /\ UNCHANGED <<conf, mainVars, sent, link, closed, watch, pending, presses,
                 handler>>

\* The second press: thaw (CloneJob), then os.Exit.
ForceExit ==
  /\ Running /\ handler /\ sigCh /\ cancelled
  /\ pc' = "dead"
  /\ UNCHANGED <<conf, chunk, written, sunk, err, exitErr, stderr, result,
                 hostVars, link, closed, watch, pending, intVars, faults>>

Watchdog == WatchTick \/ WatchVerdict

Next == Main \/ Watchdog \/ LateAnswer \/ Environment \/ Press \/ Cancel
        \/ ForceExit

\* The program's goroutines keep running.  The pipeline, the user and the
\* network owe nothing: the link may stay silent for ever.
Spec == Init /\ [][Next]_vars /\ WF_vars(Main) /\ WF_vars(Watchdog)

-----------------------------------------------------------------------------
(* Properties                                                              *)

FlagsOK ==
  /\ exitErr \in BOOLEAN /\ closed \in BOOLEAN /\ pending \in BOOLEAN
  /\ sigCh \in BOOLEAN /\ handler \in BOOLEAN /\ cancelled \in BOOLEAN

CountsOK ==
  /\ sent \in 0..DiskSize /\ chunk \in Nat /\ written \in Nat
  /\ written + chunk <= sent
  /\ sunk \in written..(written + chunk)
  /\ presses \in 0..2

\* Every variable keeps its type; no unit is counted before it was received.
TypeOK ==
  /\ conf \in [mode : Modes, size : Sizes, shell : Shells,
               gnu : BOOLEAN, sigterm : BOOLEAN]
  /\ pc \in {"header", "loop", "read", "write", "progress", "probing", "wait",
             "stderr", "verdict", "reporting", "returned", "dead"}
  /\ err \in {"none", "header", "cancelled", "read", "sink", "lost"}
  /\ stderr \in {"none", "records", "bytes"}
  /\ result \in {"none", "ok", "error"}
  /\ dd \in {"running", "eof", "ioerror", "dead"}
  /\ stream \in {"open", "ended", "broken"}
  /\ link \in {"up", "silent", "down"}
  /\ watch \in {"off", "waiting", "probing", "done"}
  /\ faults \subseteq FaultKinds
  /\ FlagsOK /\ CountsOK

\* What the caller has seen of the call.
Status ==
  IF pc = "dead" THEN "dead"
  ELSE IF pc # "returned" THEN "running"
  ELSE IF result = "ok" /\ conf.size = 0 THEN "unchecked"
  ELSE result

\* The stream functions implement their contract: with a known SourceSize, nil
\* means the sink holds the whole disk, however dd, gzip or the link died.
Contract == INSTANCE StreamContract WITH
  Size <- DiskSize, delivered <- sunk, status <- Status
Implements == Contract!Spec

\* A nil result means dd itself came to the end of the disk, except behind a
\* compressor on a shell that hides dd's exit status.
OkIsCleanExit ==
  result = "ok" => dd = "eof" \/ (Compressed /\ conf.shell = "plain")

\* No false alarm: a transfer fails only if something outside the program
\* failed or the user cancelled it -- no truncation test fires on a whole disk
\* and nobody declares a working connection lost.  An "overlap", two calls of
\* IsConnected at once, counts as a fault here; see LostIsLost.  The exception
\* is a "strict" shell, on which no compressed transfer can succeed.
HealthySucceeds == result = "error" => faults # {} \/ Stillborn

\* A press handled at any time before the verdict makes the transfer fail, also
\* when the copy, Wait and the statistics were through.  One handled between the
\* verdict and the return ("late") does not: "cancelling" is announced and nil
\* returned.
CancelledIsError ==
  pc = "returned" /\ cancelled /\ "late" \notin faults => result = "error"

\* A connection that stays silent is reset in the end (TCP keepalive, which
\* Go's dialer turns on), dd gets on with its disk, sshd ends a closed session.
FairHost == WF_vars(LinkReset) /\ WF_vars(DdWrites \/ DdEnds) /\ WF_vars(Hangup)

\* With such a host every transfer ends, wherever it was blocked: in the gzip
\* header, in Read, or in Wait after the sink had failed.  The watchdog alone
\* would not do: its Close cannot reach a host that is silent.
TransferEnds == FairHost => <>(pc \in {"returned", "dead"})

\* IsConnected's comment: "Returns false if the connection has been dropped or
\* fails to answer".  Not kept: "SSH connection lost" on a link that was up.
LostIsLost == err = "lost" => "link" \in faults
=============================================================================
