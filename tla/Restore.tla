------------------------------- MODULE Restore -------------------------------
(***************************************************************************)
(* Writing a saved image back to a remote disk: the checks and questions   *)
(* of runRestoreToRemote (and of runDirect with -r, where -y answers them), *)
(* RestoreFromFile with the size it believes the image to have, the remote *)
(* "dd of=DISK" at the other end of an SSH channel, the final sync and the *)
(* verdict.                                                                *)
(*                                                                         *)
(* Images are measured in units, and the ISIZE field of a gzip footer wraps *)
(* at Wrap units instead of 2^32 bytes.  Session.Close only sends a        *)
(* message: Wait, and a Write that the channel has no room for, end when   *)
(* the host answers or the transport is dead.                              *)
(***************************************************************************)
EXTENDS Naturals, FiniteSets

CONSTANTS
  Sizes,       \* units in an image
  Lengths,     \* units in a compressed file
  Wrap,        \* where ISIZE wraps
  Ratio,       \* gzipMaxCompressRatio
  Window,      \* units the channel holds
  MaxFaults    \* kinds of trouble in one restore

ASSUME RestoreAssumption ==
  /\ Sizes \cup Lengths \cup {Wrap, Ratio, Window} \subseteq Nat \ {0}
  /\ MaxFaults \in Nat

VARIABLES
  img,         \* the image file and its sidecars
  host,        \* the target disk and the host's tools
  auto,        \* -y
  \* the main thread
  pc, asked,   \* the questions answered with yes
  sourceSize,  \* j.params.SourceSize; 0 is unknown
  written, copyErr, exitErr, verdict,
  \* the channel, dd and the disk
  stdin,       \* "open", "eof", "closed" (Session.Close was called)
  taken,       \* units dd has written
  flushed,     \* of them known to be safe from a power cut
  dd,
  link,        \* "up", "silent" (nothing passes, nobody knows), "down"
  \* Ctrl+C
  handler, cancelled,
  faults       \* history: what went wrong outside the program

fixed  == <<img, host, auto>>
ddVars == <<taken, flushed, dd>>
vars == <<img, host, auto, pc, asked, sourceSize, written, copyErr, exitErr,
          verdict, stdin, taken, flushed, dd, link, handler, cancelled, faults>>

\* size: units of the disk that was saved; held: units the file still decodes
\* to, fewer once it was cut short; comp: its length; foot: its last four bytes,
\* data in an uncompressed file;
\* sidecar: what .size says, 0 if it is missing; shaFails: .sha256 is there and
\* does not match.
Images ==
  UNION {{i \in [gz : BOOLEAN, size : {n}, held : {n, n - 1},
                 comp : Lengths \cup {n, n - 1}, foot : {0, n % Wrap, Wrap - 1},
                 sidecar : {0, n, n + 1}, shaFails : BOOLEAN] :
           IF ~i.gz THEN i.comp = i.held /\ i.foot \in {0, Wrap - 1}
           ELSE /\ i.comp \in Lengths /\ i.held <= Ratio * i.comp
                /\ i.foot \in IF i.held = n THEN {n % Wrap} ELSE {0, Wrap - 1}} :
         n \in Sizes}

\* What goes wrong once the restore is over is of no interest.
Trouble(kind) ==
  /\ pc # "returned"
  /\ faults' = faults \cup {kind} /\ Cardinality(faults') <= MaxFaults

Init ==
  /\ img \in Images
  /\ host \in [disk : {img.size, img.size - 1} \ {0}, lsblk : BOOLEAN,
               fdatasync : BOOLEAN]
  /\ auto \in BOOLEAN
  /\ pc = "checksum" /\ asked = {}
  /\ sourceSize = 0 /\ written = 0 /\ copyErr = "none" /\ exitErr = FALSE
  /\ verdict = "none"
  /\ stdin = "open" /\ taken = 0 /\ flushed = 0 /\ dd = "none" /\ link = "up"
  /\ handler = FALSE /\ cancelled = FALSE /\ faults = {}

-----------------------------------------------------------------------------
(* What the size of an image is taken to be                                *)

\* Mutant: the footer is believed whatever the length of the file.
readGzipISize_Always == IF img.comp = 0 THEN 0 ELSE img.foot

\* The footer counts only if an image of this length cannot reach the wrap.
readGzipISize ==
  IF img.comp > 0 /\ img.comp < Wrap \div Ratio THEN img.foot ELSE 0

ReadSizeFile == img.sidecar

\* imageSize: for the question about a small target.
imageSize ==
  IF ReadSizeFile > 0 THEN ReadSizeFile
  ELSE IF readGzipISize > 0 THEN readGzipISize
  ELSE IF img.gz THEN 0 ELSE img.comp

\* RestoreFromFile: for the test against a short restore.
BelievedSize ==
  IF ~img.gz THEN img.comp
  ELSE IF ReadSizeFile > 0 THEN ReadSizeFile ELSE readGzipISize

-----------------------------------------------------------------------------
(* Checks and questions, before anything is written                        *)

Quit == pc' = "returned" /\ verdict' = "refused"

\* A question the user answers; -y stands for yes.
Ask(question, next) ==
  \/ pc' = next /\ UNCHANGED verdict
     /\ asked' = IF auto THEN asked ELSE asked \cup {question}
  \/ ~auto /\ Quit /\ UNCHANGED asked

Pass(next) == pc' = next /\ UNCHANGED <<asked, verdict>>

VerifyChecksum ==
  /\ pc = "checksum"
  /\ IF img.shaFails THEN Ask("checksum", "capacity")
                             ELSE Pass("capacity")
  /\ UNCHANGED <<fixed, sourceSize, written, copyErr, exitErr, stdin, ddVars,
                 link, handler, cancelled, faults>>

\* Too small for what is known of the image, and the disk's size is known.
TooSmall == host.lsblk /\ imageSize > host.disk

CapacityCheck ==
  /\ pc = "capacity"
  /\ IF TooSmall THEN Ask("capacity", "confirm") ELSE Pass("confirm")
  /\ UNCHANGED <<fixed, sourceSize, written, copyErr, exitErr, stdin, ddVars,
                 link, handler, cancelled, faults>>

ConfirmOverwrite ==
  /\ pc = "confirm"
  /\ Ask("overwrite", "open")
  /\ UNCHANGED <<fixed, sourceSize, written, copyErr, exitErr, stdin, ddVars,
                 link, handler, cancelled, faults>>

-----------------------------------------------------------------------------
(* RestoreFromFile                                                         *)

\* A gzip file that decodes to nothing may lack its header, too.
OpenImage ==
  /\ pc = "open"
  /\ sourceSize' = BelievedSize
  /\ \/ pc' = "start" /\ UNCHANGED verdict
     \/ img.gz /\ img.held = 0 /\ pc' = "returned" /\ verdict' = "error"
  /\ UNCHANGED <<fixed, asked, written, copyErr, exitErr, stdin, ddVars, link,
                 handler, cancelled, faults>>

\* probeDdFdatasync, ExecuteStdin and the registration of watchInterrupt.
StartDd ==
  /\ pc = "start"
  /\ \/ link = "up" /\ dd' = "running" /\ handler' = TRUE /\ pc' = "copy"
        /\ UNCHANGED verdict
     \/ link = "down" /\ pc' = "returned" /\ verdict' = "error"
        /\ UNCHANGED <<dd, handler>>
  /\ UNCHANGED <<fixed, asked, sourceSize, written, copyErr, exitErr, stdin,
                 taken, flushed, link, cancelled, faults>>

\* Mutant: dd is not told that its input has ended.
LeaveCopy_NoEof(e) ==
  /\ pc' = "wait" /\ copyErr' = e
  /\ stdin' = IF e = "none" THEN stdin ELSE "closed"

\* Stdin().Close() behind the copy, and Session.Close() behind a failed one.
LeaveCopy(e) ==
  /\ pc' = "wait" /\ copyErr' = e
  /\ stdin' = IF e = "none" /\ stdin = "open" THEN "eof" ELSE "closed"

\* The top of the loop: the flag, the next chunk, the end of the file.  A gzip
\* stream that was cut short has no footer.
Copy ==
  /\ pc = "copy"
  /\ IF cancelled THEN LeaveCopy("failed")
     ELSE IF written < img.held
          THEN pc' = "write" /\ UNCHANGED <<copyErr, stdin>>
          ELSE LeaveCopy(IF img.gz /\ img.held < img.size
                         THEN "read" ELSE "none")
  /\ UNCHANGED <<fixed, asked, sourceSize, written, exitErr, verdict, ddVars,
                 link, handler, cancelled, faults>>

\* The channel has room for another unit.
Room == written - taken < Window

Write ==
  /\ pc = "write" /\ stdin = "open" /\ link # "down" /\ Room
  /\ written' = written + 1 /\ pc' = "copy"
  /\ UNCHANGED <<fixed, asked, sourceSize, copyErr, exitErr, verdict, stdin,
                 ddVars, link, handler, cancelled, faults>>

\* No connection, no dd to take it, or a session the watchdog has closed.
WriteFails ==
  /\ pc = "write"
  /\ \/ link = "down"
     \/ link = "up" /\ dd \in {"ok", "failed"}
     \/ stdin = "closed" /\ Room
  /\ LeaveCopy("failed")
  /\ UNCHANGED <<fixed, asked, sourceSize, written, exitErr, verdict, ddVars,
                 link, handler, cancelled, faults>>

\* IsConnected is false on a connection that does not answer -- and for one of
\* two callers that meet in it, whatever the connection (Transfer, LostIsLost).
ProbeFails ==
  \/ link # "up" /\ UNCHANGED faults
  \/ Trouble("overlap")

\* The copy loop's own probe, once a second after a chunk ...
ProgressFails ==
  /\ pc = "copy" /\ written > 0 /\ ProbeFails
  /\ LeaveCopy("failed")
  /\ UNCHANGED <<fixed, asked, sourceSize, written, exitErr, verdict, ddVars,
                 link, handler, cancelled>>

\* ... and the watchdog's, when no chunk was read for sixty seconds.
StallCloses ==
  /\ pc \in {"copy", "write"} /\ stdin = "open" /\ ProbeFails
  /\ stdin' = "closed"
  /\ UNCHANGED <<fixed, pc, asked, sourceSize, written, copyErr, exitErr,
                 verdict, ddVars, link, handler, cancelled>>

\* session.Wait: dd's status, or none if the channel was closed before it or
\* the transport is dead.
Wait ==
  /\ pc = "wait"
  /\ \/ link = "up" /\ dd \in {"ok", "failed"} /\ exitErr' = (dd = "failed")
     \/ link = "up" /\ dd \in {"ok", "failed"} /\ stdin = "closed"
        /\ exitErr' = TRUE
     \/ link = "down" /\ exitErr' = TRUE
  /\ pc' = "sync"
  /\ UNCHANGED <<fixed, asked, sourceSize, written, copyErr, verdict, stdin,
                 ddVars, link, handler, cancelled, faults>>

\* Mutant: nothing follows dd, as if every dd had fdatasync.
Sync_Never ==
  /\ pc = "sync" /\ pc' = "verdict"
  /\ UNCHANGED <<fixed, asked, sourceSize, written, copyErr, exitErr, verdict,
                 stdin, ddVars, link, handler, cancelled, faults>>

\* The remote sync, whose failure is dropped.
Sync ==
  /\ pc = "sync"
  /\ IF cancelled \/ copyErr # "none" THEN UNCHANGED <<flushed, faults>>
     ELSE \/ link = "up" /\ flushed' = taken /\ UNCHANGED faults
          \/ Trouble("sync") /\ UNCHANGED flushed
          \/ link = "down" /\ UNCHANGED <<flushed, faults>>
  /\ pc' = "verdict"
  /\ UNCHANGED <<fixed, asked, sourceSize, written, copyErr, exitErr, verdict,
                 stdin, taken, dd, link, handler, cancelled>>

\* Mutant: an exact restore counts as a short one.
Judge_OffByOne ==
  IF cancelled \/ copyErr # "none" \/ exitErr \/ written = 0
  THEN "error"
  ELSE IF sourceSize > 0 /\ written <= sourceSize THEN "error" ELSE "ok"

Judge ==
  IF cancelled \/ copyErr # "none" \/ exitErr \/ written = 0
  THEN "error"
  ELSE IF sourceSize > 0 /\ written < sourceSize THEN "error" ELSE "ok"

\* finalErr is settled, and reported by progressFn ...
Verdict ==
  /\ pc = "verdict"
  /\ verdict' = Judge /\ pc' = "reporting"
  /\ UNCHANGED <<fixed, asked, sourceSize, written, copyErr, exitErr, stdin,
                 ddVars, link, handler, cancelled, faults>>

\* ... before the deferred close(done) and session.Close.
Return ==
  /\ pc = "reporting"
  /\ pc' = "returned" /\ handler' = FALSE /\ stdin' = "closed"
  /\ UNCHANGED <<fixed, asked, sourceSize, written, copyErr, exitErr, verdict,
                 ddVars, link, cancelled, faults>>

Main == VerifyChecksum \/ CapacityCheck \/ ConfirmOverwrite \/ OpenImage
        \/ StartDd \/ Copy \/ Write \/ WriteFails \/ ProgressFails \/ Wait
        \/ Sync \/ Verdict \/ Return

-----------------------------------------------------------------------------
(* The remote dd, the disk and the network                                 *)

DdTakes ==
  /\ dd = "running" /\ link = "up" /\ taken < written /\ taken < host.disk
  /\ taken' = taken + 1
  /\ UNCHANGED <<fixed, pc, asked, sourceSize, written, copyErr, exitErr,
                 verdict, stdin, flushed, dd, link, handler, cancelled, faults>>

\* The end of its input, after the flush if it knows how.  A session that was
\* closed looks the same to it, behind what was sent before; so does a lost
\* connection.
DdEnds ==
  /\ dd = "running"
  /\ \/ stdin # "open" /\ link = "up" /\ taken = written
     \/ link = "down"
  /\ dd' = "ok"
  /\ flushed' = IF host.fdatasync THEN taken ELSE flushed
  /\ UNCHANGED <<fixed, pc, asked, sourceSize, written, copyErr, exitErr,
                 verdict, stdin, taken, link, handler, cancelled, faults>>

\* No space left on the device.
DdFull ==
  /\ dd = "running" /\ taken < written /\ taken = host.disk
  /\ dd' = "failed"
  /\ UNCHANGED <<fixed, pc, asked, sourceSize, written, copyErr, exitErr,
                 verdict, stdin, taken, flushed, link, handler, cancelled,
                 faults>>

\* A write error, the OOM killer, or the SIGTERM of a cancellation.
DdDies ==
  /\ dd = "running"
  /\ dd' = "failed"
  /\ IF cancelled THEN UNCHANGED faults ELSE Trouble("dd")
  /\ UNCHANGED <<fixed, pc, asked, sourceSize, written, copyErr, exitErr,
                 verdict, stdin, taken, flushed, link, handler, cancelled>>

\* A cable is pulled: for a while nobody knows, until TCP gives up.
LinkFalls ==
  /\ link = "up" /\ "link" \notin faults
  /\ link' = "silent" /\ Trouble("link")
  /\ UNCHANGED <<fixed, pc, asked, sourceSize, written, copyErr, exitErr,
                 verdict, stdin, ddVars, handler, cancelled>>

LinkRecovers ==
  /\ link = "silent" /\ link' = "up"
  /\ UNCHANGED <<fixed, pc, asked, sourceSize, written, copyErr, exitErr,
                 verdict, stdin, ddVars, handler, cancelled, faults>>

LinkReset ==
  /\ link = "silent" /\ link' = "down"
  /\ UNCHANGED <<fixed, pc, asked, sourceSize, written, copyErr, exitErr,
                 verdict, stdin, ddVars, handler, cancelled, faults>>

\* The first press sets the flag; the second, or one without a handler, ends
\* the process.
Press ==
  /\ dd # "none" /\ pc # "returned"
  /\ \/ handler /\ ~cancelled /\ cancelled' = TRUE
        /\ UNCHANGED <<pc, stdin, handler>>
     \/ ~(handler /\ ~cancelled)
        /\ pc' = "returned" /\ handler' = FALSE /\ stdin' = "closed"
        /\ UNCHANGED cancelled
  /\ Trouble("press")
  /\ UNCHANGED <<fixed, asked, sourceSize, written, copyErr, exitErr, verdict,
                 ddVars, link>>

Environment == DdTakes \/ DdEnds \/ DdFull \/ DdDies \/ LinkFalls
               \/ LinkRecovers \/ LinkReset \/ Press

Next == Main \/ StallCloses \/ Environment

\* The main thread runs and its questions are answered; the host and the network
\* owe nothing.
Spec == Init /\ [][Next]_vars /\ WF_vars(Main)

\* What is asked of the host where that is said: dd goes on with its input and
\* ends behind it, and TCP (keepalive, and what is not acknowledged) gives up on
\* a connection that stays silent.
FairHost == WF_vars(DdTakes \/ DdEnds \/ DdFull) /\ WF_vars(LinkReset)

-----------------------------------------------------------------------------
(* Properties                                                              *)

MainOK ==
  /\ img \in Images
  /\ pc \in {"checksum", "capacity", "confirm", "open", "start", "copy",
             "write", "wait", "sync", "verdict", "reporting", "returned"}
  /\ asked \subseteq {"checksum", "capacity", "overwrite"}
  /\ sourceSize \in Nat /\ written \in 0..img.held
  /\ copyErr \in {"none", "read", "failed"}
  /\ verdict \in {"none", "refused", "error", "ok"}

FlagsOK ==
  /\ auto \in BOOLEAN /\ exitErr \in BOOLEAN /\ handler \in BOOLEAN
  /\ cancelled \in BOOLEAN

DdOK ==
  /\ stdin \in {"open", "eof", "closed"}
  /\ taken \in 0..written /\ flushed \in 0..taken /\ taken <= host.disk
  /\ dd \in {"none", "running", "ok", "failed"}
  /\ link \in {"up", "silent", "down"}

\* Every variable keeps its type; the disk has no more than was sent.
TypeOK == MainOK /\ FlagsOK /\ DdOK

\* No disk is written before the user has said yes to overwriting it, and to
\* going on with an image whose checksum does not match.
OverwritesAreConfirmed ==
  dd # "none" /\ ~auto =>
    /\ "overwrite" \in asked
    /\ img.shaFails => "checksum" \in asked

\* A whole image is not put on a disk that is known to be too small without a
\* question.  Two images are excepted: a compressed one that is too long for
\* its footer to be trusted, and an uncompressed one so short that imageSize
\* takes its last four bytes for a footer.
SmallTargetIsAsked ==
  /\ dd # "none" /\ ~auto /\ host.lsblk /\ host.disk < img.size
  /\ img.held = img.size /\ img.sidecar \in {0, img.size}
  => \/ "capacity" \in asked
     \/ img.sidecar = 0 /\ (img.gz <=> img.comp >= Wrap \div Ratio)

\* Every question that is due has been answered with yes before dd starts.  The
\* comment in runDirect tells of the time when "a plain -r invocation would
\* start dd-ing the remote disk unprompted".
QuestionsAreAsked == OverwritesAreConfirmed /\ SmallTargetIsAsked

\* Success means that the disk has all the file holds, that a compressed file
\* held all of the saved disk, and that a power cut changes nothing -- the last
\* only if dd flushes by itself or neither the connection nor the sync behind it
\* fails, for the result of that sync is dropped.
OkIsWhole ==
  verdict = "ok" =>
    /\ taken = img.held /\ (img.gz => img.held = img.size)
    /\ host.fdatasync \/ faults \cap {"sync", "link"} = {} => flushed = taken

\* A good image on a disk that is large enough is restored without a complaint:
\* the believed size is never more than the image decodes to, unless .size is
\* that of another image.  One failure that is the program's own is excepted with
\* the faults: an "overlap", where two calls of IsConnected meet and one of them
\* calls a working connection lost.
GoodImageRestores ==
  /\ pc = "returned" /\ verdict # "refused" /\ faults = {}
  /\ img.held = img.size /\ img.sidecar \in {0, img.size}
  /\ host.disk = img.size
  => verdict = "ok"

\* Every restore ends, also with a full disk, a dd that died, a watchdog that
\* closed the session under a blocked Write, or a connection lost at any point
\* -- if the host gets on with what it was sent and a silent connection is
\* reset.  Without that it may not: "a dd stuck on a full target disk (or a dead
\* connection) can't hang the Wait below", says the code, but sshd answers the
\* close only when dd is gone.
RestoreEnds == FairHost => <>(pc = "returned")
=============================================================================
