------------------------------ MODULE CloneJob ------------------------------
(***************************************************************************)
(* One save or clone job of internal/clone: CloneJob.Run and runToSink.    *)
(*                                                                         *)
(* The main thread prepares the source disk on the (usually remote) host:  *)
(*   warn -> zero-fill -> initramfs -> sync+verify -> freeze -> dd -> thaw *)
(* Beside it run the zero-fill script on the host, the watchInterrupt      *)
(* goroutine that owns Ctrl+C while a long command runs, the user, and the *)
(* SSH connection.  The transfer itself is one phase here ("streaming");   *)
(* module Transfer refines it.                                             *)
(*                                                                         *)
(* The host mounts nothing on its own once the job runs (the documented    *)
(* Alpine RAM OS): only the job's scripts and umounts change "mounted".    *)
(***************************************************************************)
EXTENDS Naturals, FiniteSets

CONSTANTS
  Parts,             \* file systems on the source disk: partitions and LVs
  Lvs,               \* those /proc/mounts shows under a device-mapper name only
  Hidden,            \* those no listing attributes to the disk: on the whole disk,
                     \* shown as /dev/root, or on a device mapper over another
  ProbeMayFail,      \* the dm-slaves probe may fail while the session works
  SigtermMayBeLost,  \* the SSH server may not implement "signal" (dropbear)
  LinkMayDrop,       \* the connection to the host may break
  MaxPresses         \* bound on the user's Ctrl+C presses

ASSUME CloneJobAssumption ==
  /\ Lvs \subseteq Parts /\ Hidden \subseteq Parts
  /\ ProbeMayFail \in BOOLEAN /\ SigtermMayBeLost \in BOOLEAN
  /\ LinkMayDrop \in BOOLEAN
  /\ MaxPresses \in Nat

VARIABLES
  \* the main thread
  opts,         \* Params: zeroFill, fixInitramfs
  pc,           \* where it is
  seen,         \* the mount list preReadSyncAndVerify read first
  result,       \* what the job returns
  \* the host
  live,         \* what was mounted when the job began (never changes)
  mounted,      \* what is mounted now
  frozen,       \* blockdev --freeze is in force
  thawFailed,   \* history: the deferred blockdev --unfreeze ran and failed
  linkUp,
  \* the zero-fill script on the host
  script,       \* its life
  todo,         \* partitions its loop has not reached
  filling,      \* the partition its background dd writes zeros to, if any
  filled,       \* every partition zeros were ever written to
  \* Ctrl+C
  presses,
  sigCh,        \* os/signal's channel of capacity one
  handler,      \* which watchInterrupt goroutine is registered
  zfCancelled,  \* the cancelled flag of zeroFillFreeSpace
  cancelled,    \* the cancelled flag of the stream function
  forcing       \* a second press is being handled: thaw, then os.Exit

jobVars  == <<opts, pc, seen, result>>
hostVars == <<live, mounted, frozen, thawFailed, linkUp>>
fillVars == <<script, todo, filling, filled>>
intVars  == <<presses, sigCh, handler, zfCancelled, cancelled, forcing>>
vars     == <<opts, pc, seen, result, live, mounted, frozen, thawFailed, linkUp,
              script, todo, filling, filled, presses, sigCh, handler,
              zfCancelled, cancelled, forcing>>

Phases == {"warn", "fillGate", "fillStart", "fillWait", "initramfs",
           "verifyList", "verifyUmount", "verifyGate", "freeze", "open",
           "streaming", "returning", "unfreeze", "done", "dead"}

Init ==
  /\ opts \in [zeroFill : BOOLEAN, fixInitramfs : BOOLEAN]
  /\ pc = "warn"
  /\ seen = {}
  /\ result = "none"
  /\ live \in SUBSET Parts
  /\ mounted = live
  /\ frozen = FALSE
  /\ thawFailed = FALSE
  /\ linkUp = TRUE
  /\ script = "idle"
  /\ todo = Parts
  /\ filling = {}
  /\ filled = {}
  /\ presses = 0
  /\ sigCh = FALSE
  /\ handler = "none"
  /\ zfCancelled = FALSE
  /\ cancelled = FALSE
  /\ forcing = FALSE

-----------------------------------------------------------------------------
(* The main thread                                                         *)

Goto(from, to) == pc = from /\ pc' = to

\* mountedSourcePartitions succeeded with list l: /proc/mounts was read, and
\* lvmDevicesOnDisk attributed the dm devices -- or failed, which it ignores.
\* devMatchesSourceDisk wants a partition's name, the probe a direct slave.
ListsMounted(l) ==
  /\ linkUp
  /\ \/ l = mounted \ Hidden
     \/ ProbeMayFail /\ l = mounted \ (Hidden \cup Lvs)

\* An early "return err": nothing is frozen yet, nothing is deferred.
ReturnError(from) ==
  /\ Goto(from, "done")
  /\ result' = "error"
  /\ UNCHANGED <<opts, seen, hostVars, fillVars, intVars>>

AfterFill == IF opts.fixInitramfs THEN "initramfs" ELSE "verifyList"

\* preReadWarnIfMounted: sync, list and log; a listing error is only logged.
Warn ==
  /\ Goto("warn", IF opts.zeroFill THEN "fillGate" ELSE AfterFill)
  /\ UNCHANGED <<opts, seen, result, hostVars, fillVars, intVars>>

\* Mutant: the zero-fill gate only warns, as preReadWarnIfMounted does.
FillGatePass_WarnOnly ==
  /\ Goto("fillGate", "fillStart")
  /\ UNCHANGED <<opts, seen, result, hostVars, fillVars, intVars>>

\* ensureSourceUnmountedForZeroFill: pass on an empty list ...
FillGatePass ==
  /\ Goto("fillGate", "fillStart")
  /\ ListsMounted({})
  /\ UNCHANGED <<opts, seen, result, hostVars, fillVars, intVars>>

\* ... and abort on a non-empty one, or when /proc/mounts cannot be read.
FillGateFail == ReturnError("fillGate")

\* zeroFillFreeSpace: Execute starts the script, "go watchInterrupt" the
\* handler; a failed start is logged and the job goes on without the fill.
FillStart ==
  /\ \/ /\ Goto("fillStart", "fillWait")
        /\ linkUp
        /\ script' = "running"
        /\ handler' = "fill"
     \/ /\ Goto("fillStart", AfterFill)
        /\ UNCHANGED <<script, handler>>
  /\ UNCHANGED <<opts, seen, result, hostVars, todo, filling, filled,
                 presses, sigCh, zfCancelled, cancelled, forcing>>

\* Mutant: an error of Wait is logged and the cancelled flag never asked.
FillReturn_IgnoresCancel ==
  /\ Goto("fillWait", AfterFill)
  /\ script # "running" \/ ~linkUp
  /\ handler' = "none"
  /\ sigCh' = FALSE
  /\ UNCHANGED <<opts, seen, result, hostVars, fillVars, presses,
                 zfCancelled, cancelled, forcing>>

\* Mutant: Wait returns only on the script's exit, not on a lost session.
FillReturn_NeedsExit ==
  /\ Goto("fillWait", AfterFill)
  /\ script = "exited"
  /\ handler' = "none"
  /\ sigCh' = FALSE
  /\ UNCHANGED <<opts, seen, result, hostVars, fillVars, presses,
                 zfCancelled, cancelled, forcing>>

\* session.Wait returned: "defer close(done)" stops the handler, and a press
\* still in its channel is lost.  zfCancelled counts only if Wait failed.
FillReturn ==
  /\ pc = "fillWait"
  /\ \/ /\ script = "exited" /\ linkUp
        /\ pc' = AfterFill
        /\ UNCHANGED result
     \/ /\ script = "killed" \/ ~linkUp
        /\ pc' = IF zfCancelled THEN "done" ELSE AfterFill
        /\ result' = IF zfCancelled THEN "error" ELSE result
  /\ handler' = "none"
  /\ sigCh' = FALSE
  /\ UNCHANGED <<opts, seen, hostVars, fillVars, presses, zfCancelled,
                 cancelled, forcing>>

\* FixInitramfs = FixBoot(""): probes each file system, mounts root, /boot and
\* the ESP under /mnt, chroots, unmounts with retries.  Its first step unmounts
\* whatever was at /mnt, and each of its umounts may fail, so any set may be
\* mounted afterwards; a busy partition stays.  Its error is only logged.
Initramfs ==
  /\ Goto("initramfs", "verifyList")
  /\ \/ /\ linkUp
        /\ mounted' \in {m \in SUBSET Parts : filling \subseteq m}
     \/ UNCHANGED mounted
  /\ UNCHANGED <<opts, seen, result, live, frozen, thawFailed, linkUp, fillVars,
                 intVars>>

\* preReadSyncAndVerify: sync and list ...
VerifyList ==
  /\ Goto("verifyList", "verifyUmount")
  /\ \E l \in SUBSET Parts : ListsMounted(l) /\ seen' = l
  /\ UNCHANGED <<opts, result, hostVars, fillVars, intVars>>

\* ... one regular umount of each listed mount point, which a busy file
\* system refuses ...
VerifyUmount ==
  /\ Goto("verifyUmount", "verifyGate")
  /\ \E u \in SUBSET (seen \ filling) :
       mounted' = IF linkUp THEN mounted \ u ELSE mounted
  /\ UNCHANGED <<opts, seen, result, live, frozen, thawFailed, linkUp, fillVars,
                 intVars>>

\* Mutant: the last look is skipped when every umount reported success.
VerifyGate_NoRecheck ==
  /\ Goto("verifyGate", "freeze")
  /\ linkUp
  /\ UNCHANGED <<opts, seen, result, hostVars, fillVars, intVars>>

\* ... and abortIfSourceMounted on a fresh listing.
VerifyGate ==
  /\ Goto("verifyGate", "freeze")
  /\ ListsMounted({})
  /\ UNCHANGED <<opts, seen, result, hostVars, fillVars, intVars>>

VerifyFail == ReturnError("verifyList") \/ ReturnError("verifyGate")

\* freezeSource is best effort.
Freeze ==
  /\ Goto("freeze", "open")
  /\ frozen' \in IF linkUp THEN BOOLEAN ELSE {FALSE}
  /\ UNCHANGED <<opts, seen, result, live, mounted, thawFailed, linkUp, fillVars,
                 intVars>>

\* Open the target, choose the compressor, Execute dd, "go watchInterrupt".
OpenStream ==
  /\ Goto("open", "streaming")
  /\ linkUp
  /\ handler' = "stream"
  /\ UNCHANGED <<opts, seen, result, hostVars, fillVars, presses, sigCh,
                 zfCancelled, cancelled, forcing>>

\* Mutant: "defer unfreezeSource" registered only after the target is open.
OpenFail_NoDefer ==
  /\ Goto("open", "done")
  /\ result' = "error"
  /\ UNCHANGED <<opts, seen, hostVars, fillVars, intVars>>

\* Any of them failed: return through "defer unfreezeSource".
OpenFail ==
  /\ Goto("open", "unfreeze")
  /\ result' = "error"
  /\ UNCHANGED <<opts, seen, hostVars, fillVars, intVars>>

\* The stream function has its verdict; cancelled is the first thing it asks.
StreamVerdict ==
  /\ Goto("streaming", "returning")
  /\ result' \in IF cancelled THEN {"error"} ELSE {"ok", "error"}
  /\ UNCHANGED <<opts, seen, hostVars, fillVars, intVars>>

\* "defer close(done)" and, in Run, target.Sync, which may fail.
StreamReturn ==
  /\ Goto("returning", "unfreeze")
  /\ result' \in {result, "error"}
  /\ handler' = "none"
  /\ sigCh' = FALSE
  /\ UNCHANGED <<opts, seen, hostVars, fillVars, presses, zfCancelled,
                 cancelled, forcing>>

\* "defer unfreezeSource": lost when the host can no longer be reached, and a
\* command that fails there is dropped.
Unfreeze ==
  /\ Goto("unfreeze", "done")
  /\ thawFailed' \in IF linkUp /\ frozen THEN BOOLEAN ELSE {FALSE}
  /\ frozen' = (frozen /\ (~linkUp \/ thawFailed'))
  /\ UNCHANGED <<opts, seen, result, live, mounted, linkUp, fillVars, intVars>>

Main ==
  \/ Warn \/ FillGatePass \/ FillGateFail \/ FillStart \/ FillReturn
  \/ Initramfs \/ VerifyList \/ VerifyUmount \/ VerifyGate \/ VerifyFail
  \/ Freeze \/ OpenStream \/ OpenFail \/ StreamVerdict \/ StreamReturn
  \/ Unfreeze

-----------------------------------------------------------------------------
(* The zero-fill script on the host, and the connection                    *)

\* for dev in $all_devices: mount and start the background dd, or SKIP.
FillMount ==
  /\ script = "running" /\ filling = {}
  /\ \E p \in todo :
       /\ todo' = todo \ {p}
       /\ \/ /\ mounted' = mounted \cup {p}
             /\ filling' = {p}
             /\ filled' = filled \cup {p}
          \/ UNCHANGED <<mounted, filling, filled>>
  /\ UNCHANGED <<jobVars, live, frozen, thawFailed, linkUp, script, intVars>>

\* dd hit ENOSPC (or failed); rm, sync, up to five umounts; UMOUNTFAIL leaves
\* the partition mounted and the loop goes on.
FillUmount ==
  /\ script = "running" /\ filling # {}
  /\ mounted' \in {mounted, mounted \ filling}
  /\ filling' = {}
  /\ UNCHANGED <<jobVars, live, frozen, thawFailed, linkUp, script, todo, filled,
                 intVars>>

\* echo DONE; the script exits 0 whatever failed on the way.
FillExit ==
  /\ script = "running" /\ filling = {} /\ todo = {}
  /\ script' = "exited"
  /\ UNCHANGED <<jobVars, hostVars, todo, filling, filled, intVars>>

\* The shell is killed (OOM, hangup, SIGTERM): its dd may die with it or go on
\* alone, and either way the partition stays mounted.
KillScript ==
  /\ script' = "killed"
  /\ filling' \in {filling, {}}
  /\ UNCHANGED <<todo, filled>>

FillDies ==
  /\ script = "running"
  /\ KillScript
  /\ UNCHANGED <<jobVars, hostVars, intVars>>

\* The orphaned dd reaches the end of the file system.
OrphanEnds ==
  /\ script = "killed" /\ filling # {}
  /\ filling' = {}
  /\ UNCHANGED <<jobVars, hostVars, script, todo, filled, intVars>>

Script == FillMount \/ FillUmount \/ FillExit \/ FillDies \/ OrphanEnds

LinkDrop ==
  /\ LinkMayDrop /\ linkUp
  /\ linkUp' = FALSE
  /\ UNCHANGED <<jobVars, live, mounted, frozen, thawFailed, fillVars, intVars>>

-----------------------------------------------------------------------------
(* Ctrl+C                                                                  *)

Running == pc \notin {"done", "dead"}

\* With a handler registered the press goes to its channel (a full channel
\* drops it); with none, SIGINT ends the process where it stands.
Press ==
  /\ Running /\ presses < MaxPresses
  /\ presses' = presses + 1
  /\ IF handler = "none" /\ ~forcing
     THEN pc' = "dead" /\ UNCHANGED sigCh
     ELSE sigCh' = TRUE /\ UNCHANGED pc
  /\ UNCHANGED <<opts, seen, result, hostVars, fillVars, handler,
                 zfCancelled, cancelled, forcing>>

\* First press during the fill: set the flag, send SIGTERM.
CancelFill ==
  /\ Running /\ handler = "fill" /\ sigCh /\ ~zfCancelled
  /\ sigCh' = FALSE
  /\ zfCancelled' = TRUE
  /\ \/ linkUp /\ script = "running" /\ KillScript
     \/ /\ script # "running" \/ SigtermMayBeLost \/ ~linkUp
        /\ UNCHANGED fillVars
  /\ UNCHANGED <<jobVars, hostVars, presses, handler, cancelled, forcing>>

\* First press during the stream (its SIGTERM shows as a failing stream).
CancelStream ==
  /\ Running /\ handler = "stream" /\ sigCh /\ ~cancelled /\ ~forcing
  /\ sigCh' = FALSE
  /\ cancelled' = TRUE
  /\ UNCHANGED <<jobVars, hostVars, fillVars, presses, handler, zfCancelled,
                 forcing>>

\* Second press: the fill's handler has nothing to clean up and exits; the
\* stream's first starts unfreezeSource in a goroutine of its own.
ForceFill ==
  /\ Running /\ handler = "fill" /\ sigCh /\ zfCancelled
  /\ pc' = "dead"
  /\ UNCHANGED <<opts, seen, result, hostVars, fillVars, intVars>>

ForceStream ==
  /\ Running /\ handler = "stream" /\ sigCh /\ cancelled /\ ~forcing
  /\ sigCh' = FALSE
  /\ forcing' = TRUE
  /\ UNCHANGED <<jobVars, hostVars, fillVars, presses, handler, zfCancelled,
                 cancelled>>

\* os.Exit(130) once the thaw is through, or after five seconds without it.
ForceExit ==
  /\ Running /\ forcing
  /\ pc' = "dead"
  /\ frozen' \in IF linkUp THEN {FALSE, frozen} ELSE {frozen}
  /\ UNCHANGED <<opts, seen, result, live, mounted, thawFailed, linkUp, fillVars,
                 intVars>>

Handler == CancelFill \/ CancelStream \/ ForceFill \/ ForceStream \/ ForceExit

Next == Main \/ Script \/ LinkDrop \/ Press \/ Handler

\* The main thread, the script and the handler goroutine keep running; the
\* user and the network owe nothing.
Spec ==
  /\ Init /\ [][Next]_vars
  /\ WF_vars(Main) /\ WF_vars(Script) /\ WF_vars(Handler)

-----------------------------------------------------------------------------
(* Properties                                                              *)

FlagsOK ==
  /\ frozen \in BOOLEAN /\ thawFailed \in BOOLEAN
  /\ linkUp \in BOOLEAN /\ sigCh \in BOOLEAN
  /\ zfCancelled \in BOOLEAN /\ cancelled \in BOOLEAN /\ forcing \in BOOLEAN

StateOK ==
  /\ opts \in [zeroFill : BOOLEAN, fixInitramfs : BOOLEAN]
  /\ pc \in Phases
  /\ result \in {"none", "ok", "error"}
  /\ seen \subseteq Parts /\ live \subseteq Parts /\ mounted \subseteq Parts
  /\ todo \subseteq Parts /\ filling \subseteq Parts /\ filled \subseteq Parts
  /\ script \in {"idle", "running", "exited", "killed"}
  /\ handler \in {"none", "fill", "stream"}
  /\ presses \in 0..MaxPresses

\* Every variable keeps its type: known phases, sets of the source's file
\* systems, a bounded number of presses.
TypeOK == FlagsOK /\ StateOK

\* While dd reads the source, and for as long as the source is frozen, nothing
\* of it that a listing can attribute is mounted, and no process writes to that: neither the zero-fill script,
\* nor a dd that outlived the script, nor a mount initramfs left behind
\* (preReadSyncAndVerify: "MUST run after zero-fill and initramfs rebuild").
SourceQuiet ==
  frozen \/ pc \in {"open", "streaming", "returning"}
    => mounted \subseteq Hidden /\ filling \subseteq Hidden /\ script # "running"

\* Zeros are only ever written to a disk of which nothing was mounted when the
\* job began, as far as a listing can tell: a live production disk is never
\* filled to 100%.
FillsOnlyOffline == filled # {} => live \subseteq Hidden

\* A zero-fill that died after the user cancelled it ends the job before the
\* disk is read (errZeroFillCancelled).  A script that was cancelled and exits 0
\* all the same is not covered: the job then reads the disk.
CancelledFillStops ==
  zfCancelled /\ script = "killed" => pc \in {"fillWait", "done", "dead"}

\* A job that returns, with whatever result, leaves no frozen disk behind
\* unless the host can no longer be reached or refused the thaw.
ReturnThaws == pc = "done" /\ frozen => thawFailed \/ ~linkUp

\* Every job comes to an end.
JobEnds == <>(pc \in {"done", "dead"})
=============================================================================
