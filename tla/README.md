# disk-cloner: a verification project

disk-cloner images the disk of a (usually remote) machine over SSH: it prepares
the source, runs `dd [| gzip]` there and writes the stream to a local disk, a
local file or a storage service; it restores such images and repairs the boot
loader afterwards. This directory holds TLA+ models of the program, translated
from its Go source and from the shell scripts embedded in it, the TLC
configurations that check them on small instances, and TLAPS proofs.

    tlc -config CloneJob.cfg CloneJob.tla      # one configuration
    tlapm CloneJobProofs.tla                   # the proofs of one module

`PROJECT.json` lists every run with its expected outcome, the mutants that show
each property can fail, the source lines behind each definition, the hazards
and the findings. Code that is not in the repository is marked external there.

## 1. Inventory

| Component | Source | State it keeps | Operations | Module |
|---|---|---|---|---|
| clone job | internal/clone/clone.go: Run, runToSink, preRead*, zeroFillFreeSpace, freeze/unfreezeSource, watchInterrupt | where the job is; on the host: mounts, freeze, the fill script | warn, zero-fill, initramfs, verify, freeze, stream, thaw, Ctrl+C | CloneJob |
| transfer | clone.go: streamRaw, streamCompressed, streamCompressedRaw, copyWithProgress | bytes counted, copy error, session, watchdog | read, write, progress + keepalive, stall probe, wait, statistics, verdict | Transfer |
| SSH client | internal/ssh/client.go | connection, probePending | Connect, Execute, CombinedOutput, IsConnected | Transfer (IsConnected) |
| save to file | clone.go: RunToFile, WriteSizeFile; main.go: execSaveToFile, writeChecksumFile, verifyChecksum | final file, `.partial`, `.sha256`, `.size` | create, stream, sync, remove, rename, sidecars, pre-flight checks | SaveFile |
| restore | clone.go: RestoreFromFile, readGzipISize; main.go: runRestoreToRemote, runDirect -r | size believed, remote dd | verify, capacity, confirm, write, sync, verdict | Restore |
| storage | internal/storage: FTP, S3, WebDAV, SFTP, Pixeldrain | remote object, session, upload id, spool file | Open, Write, Close, Abort | FtpUpload, S3Upload, StreamUpload |
| save to storage | main.go: execSaveToStorage | writer, session log | open, stream, Close or Abort | the caller in each upload module |
| sessions | main.go: runInteractive, runLocalInteractive, runDirect, runDirectLocal | connections, disks as shown, settings (package globals), session log, batch | menus, scan, confirm, batch, log, exit code | Session |
| boot repair, local | internal/fixboot | mounts under /mnt | find root, mount, unmount | LocalFixBoot (search only) |
| boot repair over SSH | clone.go: FixBoot | mounts on the host, markers | one script, classified by its markers | its effect on mounts in CloneJob |
| local runner | internal/local | process group, exit status | start, Wait once, Signal, Close | not modelled |
| disk listing | internal/disk | none | parse lsblk | not modelled |
| terminal input | internal/cli | end of input | prompts, line editing, completion | end of input and Ctrl+C in Session |

How they interact: main.go builds a `CloneJob` over a `Runner` (SSH or local)
and calls Run, RunToFile, RunToStream or RestoreFromFile. The job's main thread
blocks on commands of the runner. Beside it run the `watchInterrupt` goroutine
(owns SIGINT while a long command runs, shares `cancelled`, may close or signal
the session, may end the process), the stall watchdog (shares `lastData`, closes
the session), one goroutine collecting stderr, the goroutines of `IsConnected`
(share `probePending` between the copy loop and the watchdog), and, on the host,
the zero-fill script with its background dd, and the pipeline. Storage writers
run a goroutine of their own for the request body. One session runs many jobs
over the same globals, the same logger and the same connection. Nothing is
persisted but the files, and nothing is resumed: recovery means "run it again".

What is hard: the host's mounts change under several steps that may each fail
without stopping the job; a disk must never stay frozen; the pipeline can die
in ways that look like success; a silent connection must not hang the program
and a working one must not be declared dead; the process may die between any
two file operations; answers to the last request of an upload get lost; what was
shown, asked or set for one operation is still there in the next one.

What makes each component correct:

* clone job: the disk dd reads is quiet; zero-fill never touches a live disk; a
  cancelled fill stops the job; every return thaws the disk if it can be thawed; every
  job ends.
* transfer: success means the sink has the whole disk; failure means something
  failed; a press is heeded; it ends, also on a dead connection.
* save to file: the final name never holds a torn image; old backups survive
  failed runs; sidecars describe the image they stand beside.
* restore: success means the whole image is on the disk and flushed; nothing is
  overwritten without the confirmation; a good image is not refused.
* storage: Close returns nil only if the object is whole under its name; Abort
  removes what this run wrote and nothing else.
* sessions: what is written over is what the user was shown and confirmed in
  this operation; one failed disk of a batch costs no other; the program ends
  when its input does.
* boot repair: nothing stays mounted; only the disk in question is touched; the
  root that is there is found.

## 2. Modules

`CloneJob.tla` -- one job from `preReadWarnIfMounted` to the deferred thaw.
`pc` is the main thread's place in Run/runToSink; one action per call, in the
code's order (`Warn`, `FillGate*`, `FillStart`, `FillReturn`, `Initramfs`,
`VerifyList`, `VerifyUmount`, `VerifyGate`, `Freeze`, `OpenStream`, ...,
`Unfreeze`). The script's loop is `FillMount`, `FillUmount`, `FillExit`;
`FillDies` and `KillScript` leave the partition mounted and possibly an orphan
dd behind. `handler` says which watchInterrupt goroutine owns SIGINT, `sigCh`
is its channel of capacity one; with no handler a press ends the process.
Partitions are model values; what matters of one is whether it is mounted, being
filled, visible to `/proc/mounts` only through device-mapper (`Lvs`), or not
attributed to the disk by any listing (`Hidden`: a file system on the whole disk, one
shown as /dev/root, a volume on a stack of device mappers). A thaw may fail with
the link up (`thawFailed`). The transfer is one phase here.

`Transfer.tla` -- that phase: the three stream functions (`conf.mode`), the copy
loop, the watchdog, the keepalive probe the two share, the interrupt goroutine,
the remote pipeline and the link. Data is counted in units of the disk;
a compressed stream stands for the units it decodes to, plus a footer that is
there or not. `Session.Close` only sends a message: `closed` says that it was sent,
and a blocked Read or Wait goes on when the host has ended its side (`Hangup`) and the
link carries that, or when TCP has given up (`LinkReset`). The verdict and the return
are two steps, because the interrupt handler outlives the last look at its flag.
`faults` is a history variable: what failed outside the program, and two events inside
it, a press handled after the verdict (`late`) and two overlapping probes.
Module `StreamContract.tla` is the abstract view the callers rely on, and
`Contract` in Transfer is the refinement mapping (sunk bytes, result).

`SaveFile.tla` -- RunToFile and execSaveToFile run after run over one name. An
image is the number of the run that wrote it; `whole` and `synced` say which are
complete and flushed. `Crash` may happen between any two calls. The transfer is
represented by its contract (`StreamOk` completes the image). After a run,
verifyChecksum and ReadSizeFile read what is left.

`Restore.tla` -- runRestoreToRemote (with `auto`, the restore branch of runDirect
under -y) and RestoreFromFile. Every behaviour starts with an image file that is
whole or cut short, compressed or not, with or without sidecars that may be those
of another image (`img`), and a target that holds it or does not (`host`).
`readGzipISize`, `imageSize` and `BelievedSize` are the three ideas the code has of
its size; the footer wraps at `Wrap`. Then the questions, dd at the other end of a
channel (`DdTakes`, `DdEnds`, `DdFull`, `DdDies`), the copy loop with its probe
(`ProgressFails`) and the watchdog (`StallCloses`), Ctrl+C, Wait, the final sync, the
verdict and, after it, the return. The probe is wrong about a silent link, and about a
working one when two callers meet (`overlap`, the case of Transfer's LostIsLost). The
read-only steps before (lsblk, tool probe) are one choice each.

`FtpUpload.tla` -- the FTP writer: `pc` is the caller (Open, Write, finish), `stor`
the goroutine, `mu` the lock on the control connection, `pipe` and `done` the
channels between them; `cmds` and `replies` are what is under way on the control
connection, and the server answers in order, STOR first. No clock: a deadline may
pass when what it waits for has not come, and finalizeWait only while the
goroutine waits for the server (`Stalled`).

`S3Upload.tla` -- the S3 writer: buffer, growing part size, acknowledged parts, the
attempt under way, and the server's open uploads, parts and object. A transient
failure is one of three (`Hiccup`): not served, served with the answer lost, or
still under way (`late`) to be served at any later time; the answer to the completion
may also be a 200 whose body is cut short, which the code takes for success
(`CompleteCut`). The key may hold an older
object, which the HEAD after NoSuchUpload cannot tell from the new one; nobody else
writes to the key or ends the upload (no lifecycle rule runs meanwhile).

`StreamUpload.tla` -- the writers that send the image in one piece, `kind` by kind:
WebDAV (a PUT fed by a pipe, or a spool file that is sent afterwards with three
attempts), Pixeldrain and SFTP. `pipe` and `done` are the channels between the
caller and the goroutine of the PUT, `srv` is the server's end of it, `got` what it
has received, and `file` what stands under the name; `inPlace` says whether the
server writes there at once or swaps the file in when it is complete. A PUT that
nobody waits for any more (`late`) may still be stored. `unknown` is
outcomeUnknown; `harm` is a history variable.

`UploadContract.tla` is what execSaveToStorage relies on, for every backend: nil
from Close means that the object is whole, and stays so. FtpUpload, S3Upload and
StreamUpload each implement it.

`Session.tla` -- one run of the program from the first prompt to the exit code,
for all four entry points (`run`). `pc` names the prompt or step; one action per
step of the code (`Connect`, `ConfirmUnsafe`, `ScanRemote`, ...). An answer, a
setting and a log line carry the number of the operation they belong to, and a
connection its own number, so that a property can say "of this operation". The
local disk is a slot the user may replug at any time; `slot.shown` is what the list
showed and `slot.stale` that the list is no longer that of the slot. A batch keeps
a disk in `pick.queue` until its job is over. The remote host has at least one disk
(`Remote # {}`): of a batch of none, which the code accepts, the model says nothing.
The jobs
themselves are one step that may fail. `closed` is cli's stdinClosed: from then on
every prompt returns what the code makes of an end of file.

`LocalFixBoot.tla` -- fixboot.Run up to the end of findRootPartition: candidates
by name and file system, a probe mount of each, umountSingle that may give up, so
that the next candidate is mounted on top of the last one (`probe` is that stack),
and the test for a root. `disks` says of every device what it is and holds,
`untried` what is left of the candidates, `outcome` what the search returns.

`CloneJobProofs`, `TransferProofs`, `SaveFileProofs`, `FtpUploadProofs`,
`StreamUploadProofs`, `S3UploadProofs`, `RestoreProofs` and `SessionProofs` hold the
theorems, section 5; those about LocalFixBoot, which are few, stand in
`CloneJobProofs`. Each component module has one type invariant, TypeOK (FindTypeOK in
LocalFixBoot).

How they fit together: CloneJob's "streaming" phase is what Transfer details;
SaveFile's `StreamOk` and `StreamFails`, and the caller in the upload modules, rely
on StreamContract; Session's jobs are those of CloneJob, SaveFile, Restore and the
uploads. No run puts two of the detailed modules in one state space: the contracts
are there so that none has to.

## 3. Runs

| Run | Module | What it checks |
|---|---|---|
| clone_job | CloneJob | SourceQuiet, FillsOnlyOffline, CancelledFillStops, ReturnThaws, JobEnds |
| transfer | Transfer | TypeOK, OkIsCleanExit, HealthySucceeds, CancelledIsError, Implements (StreamContract), TransferEnds |
| transfer_lost | Transfer | LostIsLost fails: two overlapping probes lose a live link (finding) |
| save_file | SaveFile | NoTornBackup, SavedIsDescribed, OldStaysUntilNewIsWhole, KeepsOneWhole |
| restore | Restore | QuestionsAreAsked, OkIsWhole, GoodImageRestores, RestoreEnds |
| ftp_upload | FtpUpload | AnsweredAbortTellsTruth, Implements (UploadContract), UploadEnds |
| s3_upload | S3Upload | TypeOK, AcknowledgedIsStored, HiccupsDoNotKill, WithinLimit, Implements (UploadContract) |
| stream_upload | StreamUpload | NothingIsLeftBehind, UnknownIsKept, Implements (UploadContract), FinishEnds |
| stream_deletes | StreamUpload | OnlyPartialIsDeleted fails: the clean-up DELETE takes a whole image (finding) |
| session | Session | OverwritesAreConfirmed, UnsafeIsAccepted, SettingsAndLogAreOwn, FailureIsContained, EofEnds |
| local_fixboot | LocalFixBoot | OnlyTargetIsMounted, OneStuckIsUnmounted |
| local_fixboot_root | LocalFixBoot | RootIsFound fails: no system is ever recognised (finding) |

TypeOK is a theorem in every module; the runs check it in Transfer and S3Upload, the
two where it says more than the types.

Bounds, and why they are enough.

* CloneJob: a partition, an LVM volume (one for the script to be at, one it left
  behind) and a file system no listing shows, three presses (cancel, force, one more),
  a link that drops, an SSH server that ignores "signal". `ProbeMayFail = FALSE`: with TRUE,
  SourceQuiet and FillsOnlyOffline fail, see section 4.
* Transfer: a disk of 4 units against a record size of 2 and a window of 1, so
  that a stream breaks within a record, between records and after the last;
  the size known or not; every kind of shell; every pair of kinds of faults; the
  link goes silent at most once. transfer_lost: a disk of 3, so that the last
  record is partial, and no faults at all.
* SaveFile: three runs, so that a crashed run meets the leftovers of a crashed
  run and an older backup; disks of two sizes, so that a stale `.size` is wrong.
* Restore: images of 1 and 5 units against a footer that wraps at 4 and a ratio of
  2: one image below the wrap and one beyond it, files of 1 and 3 units on both
  sides of the bound `Wrap / Ratio`; a channel of 1, so that the copy blocks behind a
  dd that takes nothing and behind a silent link; a disk that is long enough or one
  unit short, so that dd fails on what was already sent; two kinds of faults at once.
* FtpUpload: four chunks and a data connection that holds two, so that a mute
  server blocks the writer before the image ends.
* S3Upload: images of one to six chunks against four parts of 1, 1, 2 and 2 chunks,
  which the longest fills exactly (theorem `FitsTheLimit` says how long an image may
  be for other sizes), three attempts and four failures, so that one
  request can fail for good and another be retried.
* StreamUpload: three chunks, a connection that holds two, three attempts.
* Session: two remote disks (one for a batch to fail on, one to go on with), a large
  and a small local disk, two operations, two connections, one replug: whatever
  the second operation inherits, it inherits from the first.
* LocalFixBoot: three devices of any kind and two umounts that give up, so that a
  probe can lie two deep under a third.

All runs end in states where the program has stopped, so deadlock is not an error
there (CHECK_DEADLOCK FALSE).

Fairness.

* CloneJob: weak fairness of the main thread, of the script on the host and of the
  handler goroutine -- Go runs a runnable goroutine, and `umount` has five tries;
  the user and the network owe nothing.
* Transfer: weak fairness of the main thread and of the watchdog, nothing of the
  pipeline or the network. TransferEnds has `FairHost` as its premise: a silent
  connection is reset in the end (Go's dialer enables TCP keepalive), dd makes progress
  on a working link, sshd ends a closed session. It needs all three: the watchdog's
  Close cannot reach a host that is silent.
* FtpUpload: the caller and the goroutine run; nothing is asked of the server or the
  network. StreamUpload: the caller, and the transport that ends a request whose
  body was closed with an error (`PutTorn`).
* Restore: the main thread. RestoreEnds has `FairHost` as its premise: dd gets on with
  what it was sent and ends behind it, and a silent connection is reset. A dd stuck in
  a write blocks the restore, for sshd answers the close of a session only when its
  process is gone; no fairness of the watchdog is needed.
* Session: only what comes after the end of the input; a user may think for ever.
* SaveFile, S3Upload and LocalFixBoot state no fairness: no property there needs it.

Assumptions about code outside the repository (external in the map): dd, gzip
and shells as POSIX describes them; `Session.Close` of x/crypto sends a channel close
and returns, and Read and Wait end with the answer or with the transport; sshd answers
once the process is gone and hands over first what it has read from it; the operating
system mounts
nothing on its own while a job runs (the documented RAM OS); a request whose
connection broke is over before the next one is served, unless its whole body had
been sent; file system calls take effect in order.

## 4. Findings

Each of these is a run with expected outcome "violation"; PROJECT.json quotes the
line.

1. `IsConnected` reports a live link as lost to the second of two callers
   (transfer_lost; ssh/client.go:285).
2. WebDAV's clean-up deletes images that are not partial (stream_deletes;
   webdav.go:283): the one an earlier run left, when nothing was sent yet or the
   server swaps files in at the end; and this run's own, when it is whole and only
   the answer was lost.
3. The local boot repair never finds a root: isRootFS asks fileExists for two
   directories (local_fixboot_root; fixboot.go:583).

Without a run of their own; met while modelling, and each a step, a guard or an
excepted case of a model:

* clone.go:442 -- `lvmDevicesOnDisk` drops the error of its probe, so the gates
  that must fail closed (394-397, 418-420) open for LVM. `ProbeMayFail = TRUE` in
  CloneJob.cfg shows it.
* clone.go:431-460 -- the gates also pass a file system on the whole disk, one that
  /proc/mounts shows as /dev/root and a volume on a stack of device mappers (`Hidden`).
  SourceQuiet and FillsOnlyOffline are about the others.
* clone.go:1280 -- a press during zero-fill is forgotten when the script still
  exits 0 (against 1067-1069). CancelledFillStops is stated for a script that dies.
* clone.go:1722-1762 -- the handler stays registered behind the last look at the
  cancel flag; a press in that gap (and in those of 1834 and 1928, and of the restore)
  is answered with "cancelling" and the function returns nil. `late` in Transfer,
  excepted in CancelledIsError.
* clone.go:2001-2003, 1016-1017 -- "closing the session unblocks it" and "can't hang
  the Wait below" do not hold by themselves: Session.Close only sends a message. On a
  silent connection Read and Wait end with TCP's patience, and behind a dd that is stuck
  they do not end. Hence the premises of TransferEnds and RestoreEnds.
* clone.go:675, 766 -- no handler is registered between the freeze and the stream's
  handler, nor after it: Ctrl+C there leaves the disk frozen, as does a forced exit
  whose thaw takes more than five seconds. And 595-598 drops the error of a thaw that
  fails (`thawFailed`, excepted in ReturnThaws).
* clone.go:1677 -- `set -o pipefail 2>/dev/null;` ends a dash shell with status 2,
  against the comment (1675-1676) that such shells behave as before.
* clone.go:840 -- between os.Remove and os.Rename a crash or a failing rename leaves
  no backup under the name (against 799-800 and main.go:1226-1227); the new one is
  whole under ".partial", which is what KeepsOneWhole says.
* clone.go:1029 -- the result of the sync behind an old dd is dropped (982-983);
  excepted in OkIsWhole.
* RestoreFromFile ignores `.size` for an uncompressed image, so a short one is
  restored with success if it has no `.sha256`; a stale `.size` makes a complete
  compressed restore reported as truncated; imageSize takes the last four bytes of an
  uncompressed image below 4 MiB for a gzip footer. Excepted in the properties of
  Restore, each by name.
* main.go:573-599, 2327-2335 -- the log buffer is emptied only into a file: the
  choices of an operation that was given up, and the job of a save whose log could not
  be created, land in the log of a later operation, against 2269-2271 ("simply
  discarded"). SettingsAndLogAreOwn allows them.
* main.go:1238, 2452 -- a `.sha256` of an older image beside a newer one (the process
  died after the rename) makes a good image fail its verification.
* ftp.go:193 -- Abort can take the late reply to STOR for the reply to DELE and
  report a removal that was not confirmed (against 456-459); AnsweredAbortTellsTruth
  is stated for a goroutine that read its reply in time.
* WebDAV's Abort returns nil also when its DELETE failed; the PUT of a spool file has
  neither outcomeUnknown nor a deadline for writing.
* s3.go:222 -- the error of reading the answer to CompleteMultipartUpload is dropped: a
  200 cut short before its `<Error>` is success, with or without an object. `presumed`
  in S3Upload, excepted in Implements.
* ftp.go:519 -- finalizeWait and the read deadline of stor are both 60 s; if the
  deadline wins, Close deletes a file whose outcome is unknown. FtpUpload has no clock
  and allows it.
* s3.go:105 -- after a failed Close a second Close would return nil, which no caller
  tries; s3.go:230 -- the HEAD behind NoSuchUpload is not retried; s3.go:263 -- a
  retried CreateMultipartUpload leaves an upload nobody aborts.
* main.go: the remote disk list is not rescanned within a connection; a local refresh
  that failed keeps the old list; a save that failed (-o, -dst) exits 0; FixBoot's
  error does not reach the exit code (clone.go:1614-1615 says it can); clone mode
  does not ask whether the local machine runs from RAM; opening a session log
  truncates the one of that name.
* fixboot.go:488-506 -- dmOnTargetDisk reads a directory as a file, so an LVM root is
  never a candidate; 889-900 -- umountSingle gives up silently and a probe mount that
  stays is never reported (against 85-86).
* local.go:139 -- Signal or Close may reach a process group whose leader has been
  reaped and whose id may be in use again.

## 5. Proofs

Every theorem holds for all values of the constants that satisfy the assumption its
module names (positive sizes, sets that do not overlap, natural bounds); where it
needs more, the theorem says so. In each module one invariant is inductive, checked
by TLC before it was proved, and the properties follow from it. Every safety property,
invariant or refinement that a passing run checks is a theorem.

`CloneJobProofs` -- every set of partitions, any number of presses.
`OrderInv` is what the code's order guarantees in every configuration: only the
tail of the job holds a freeze; a handler is registered exactly around its long
command; once past the fill, a script can run only on a host that cannot be
reached; what is being filled is mounted. From it follow `CancelledFill` and
`ThawOnReturn`. `GateInv` adds what the gates establish (nothing is mounted from
the last gate to the thaw; a script only ever started on an unmounted disk) and
needs `~ProbeMayFail`, stated in the theorems `QuietSource` and `OfflineFill`; of what
is in `Hidden` it says nothing.

`TransferProofs` -- every disk, record and window size, every set of shells, any
number of faults. `ExitInv` carries dd's success from the pipeline to session.Wait:
once dd has succeeded the stream has ended, and stays so, and a pipeline that a
strict shell never started is broken from the outset; hence `CleanExit`.
`CountInv` bounds the sink by what was counted and what is in hand, and what is
counted by what was sent. With it a step that returns nil with a known size has
failed the test `written < SourceSize` and so finds the sink at the size of the
disk: every step is a step of StreamContract or a stutter
(`StreamsImplementContract`). `PressInv` (a flag that is up at or after the verdict
is in the result, unless the press was late) gives `PressIsHeeded`. `HealthInv` says
how a transfer goes on while `faults` is empty -- the link is up, dd runs or has read the whole disk, the session is open
until the return, and past the copy all of the disk was counted -- so that no
truncation test fires and no probe fails: `NoFalseAlarm`. It includes the
arithmetic of ddRecordsTruncated for every record size (lemma `Multiple`).

`SaveFileProofs` -- any number of runs. `ProtocolInv` records what each step of
RunToFile has established about ".partial", and gives `TargetIsWhole`, `OldStays`
and `OneWholeKept`. `SidecarInv` adds which sidecars can be whose at each step, and
gives `Described`.

`FtpUploadProofs` -- any image and any data connection. `StorInv` follows the image
through the goroutine (what the server has stored, what its reply claims, what is
in `done`); `LineInv` says which commands and replies can be under way on the
control connection, so that a reply is read for its own command unless STOR's was
given up; `SuccessInv` keeps the image once Close has returned nil, and
`AnsweredInv` the truth of an Abort. They give `AbortIsHonest` and
`FtpImplementsContract`.

`StreamUploadProofs` -- any image, connection and number of attempts. `PutInv` ties
the caller's pipe to the server's end of the PUT and what it has received to what
it stores; `SuccessInv` says that nothing is left under way that could undo a
success. They give `StreamsImplementContract`. `CleanInv` follows what
a failed upload leaves: `SpoolInv` that the spool file is there only while the image is
written or sent, `HealthInv` that a PUT nobody waits for is a harm of its own and that
nothing stands under a new Pixeldrain id, `LateInv` that the outcome of a PUT becomes
unknown only with the return or in an Abort, and that a server which is still receiving
does not yet have the whole image under the name. It gives `NothingLeft` and
`UnknownKept`.

`S3UploadProofs` -- images and parts of every size, any number of attempts and of
transient failures. A request may reach the server twice, at any later time, but never
with two contents: `LateInv` says that a PUT still on its way carries what was
acknowledged under its number, or, where no other PUT of that number can follow, the
part that was being sent; `ServerInv` says the same of the parts the open upload holds.
Hence `Acknowledged`. `HiccupInv` counts failed attempts against transient failures
(`HiccupsSurvived`), `SuccessInv` carries a completion to the verdict, also by way of
NoSuchUpload and the HEAD, and with it every step is one of UploadContract or a
stutter (`S3ImplementsContract`; a `presumed` nil is no success there). `FitsTheLimit` takes the table of part sizes as a
parameter: after `j` doublings and `r` more parts the upload holds exactly
`Held(size, j, r)` (`FilledInv`), so that an image which PartLimit parts can hold needs
no part beyond it. For the sizes of s3.go that is an image of 191000 times 8 MiB, 1.46
TiB (the comment at s3.go:155 rounds up, to "~1.5+ TiB"). The module assumes `FirstSize <= MaxSize`, which s3.go:44 and 157 give (8 MiB, 256
MiB).

`RestoreProofs` -- images, channels and wraps of every size. `QuestionInv` carries
the answers to the start of dd, `FlowInv` what was read, written, taken and flushed,
`SuccessInv` the verdict. `Asked` also needs arithmetic: a compressed image shorter
than `Wrap \div Ratio` decodes to less than `Wrap`, so that its footer is its size
(lemmas `Quotient`, `NoWrap`). `Whole` is OkIsWhole. `GoodRestores` is the other
direction: `HealthInv` follows the restore of a good image while nothing fails, from
the size believed, which `BeliefIsModest` bounds by the size of the image, through the
channel to the verdict, and finds every test passed; an `overlap` of two probes counts
as a failure.

`SessionProofs` -- any disks and any number of operations, connections and replugs.
`PlaceInv`, `BatchInv` and `ModeInv` say in which places the program can be under
each entry point; `AcceptedInv` that past its question the risk was accepted for
the machine at hand; `AskedInv` that a disk was shown or the list is stale, and that
each answer still belongs to the disks chosen. They give `Accepted` and `Confirmed`.
A second layer, `MixInv` and `LogInv`, is about what
one operation leaves to the next. `FreshInv` says from where on the settings are those
of this operation; `AllInv` that a batch is nothing but a save of all disks from the
menu, its queue and what it has done together all of them; `SaidInv` and `TriedInv` that
a confirmed batch ends only with an empty queue; `ReportInv` that a job which failed
under a command line has ended the program with 1. They give `Contained`. For the log,
`PreambleInv` says whose preamble the buffer has, `ChoiceInv` that the choices are in it
before the file is opened, `OldInv` that it has no job of this operation until that is
over (the lines a refused log leaves there are those of an earlier one), and `LinesInv`
that an open file has no job yet and a closed one exactly one. They give
`OwnSettingsAndLog`.

LocalFixBoot, in `CloneJobProofs` -- any devices and any number of stuck umounts.
`StackInv`: the probe mounts are a stack of file systems of the target, no deeper than
the umounts that gave up and the one that is being looked into.

Model-checked only: liveness (JobEnds, TransferEnds, RestoreEnds, UploadEnds,
 FinishEnds, EofEnds). It rests on fairness and ENABLED, which are out of
this prover's reach. None of the modules with theorems uses a recursive operator.

## 6. Plan

Done: CloneJob, Transfer with StreamContract, SaveFile, the three upload modules with
UploadContract, Restore, Session, the search of LocalFixBoot; proofs of every safety
property of the passing runs.

Left, in this order:

1. The script of FixBoot over SSH: mounts, chroot, markers and their order.
2. The rest of fixboot.Run (mounts under /mnt/clonefix, initramfs, GRUB, fstab), once
   the search finds a root: today no behaviour of the program gets there.
3. The local runner: Wait once, Signal, Close and the reaping of a process group.

## 7. Not modelled

Line editing, completion, dialogs and the Windows menus (presentation; what a prompt
returns at the end of the input is in Session). Parsing of lsblk output, of URLs and
of replies, SigV4 signing, redaction of credentials, validateBS and bsToBytes (pure
conversions, of which no property needs the detail). Printing, logging and progress
figures, except for which operation a line of the session log belongs to. The SSH
handshake and the login of FTP: they run before any state that matters exists, and
fail as a whole. The checksum object printed after an upload. The local runner: what
its callers see is in their models, the rest belongs to the kernel. Build files.
