------------------------------ MODULE SaveFile ------------------------------
(***************************************************************************)
(* Saving disks to a local file, run after run under one name: RunToFile's *)
(* ".partial" protocol and the .sha256 and .size sidecars execSaveToFile   *)
(* writes next, with every system call that can fail and the process dying *)
(* between any two of them.  restore's pre-flight checks read what is left. *)
(*                                                                         *)
(* An image is named by the run that wrote it; a run's disk has the size   *)
(* of its parity, so that successive runs differ in size too.  File system *)
(* operations take effect in order.                                        *)
(***************************************************************************)
EXTENDS Naturals

CONSTANTS
  MaxRuns,     \* runs over the same file name
  CanCrash,    \* the process may die, or be killed, anywhere
  CallsFail    \* system calls may fail

ASSUME SaveFileAssumption ==
  /\ MaxRuns \in Nat /\ CanCrash \in BOOLEAN /\ CallsFail \in BOOLEAN

VARIABLES
  pc,          \* where the run is
  run,         \* number of runs so far, and the name of this one's image
  target,      \* the image under the final name, NoFile if none
  partial,     \* the image under "<name>.partial"
  whole,       \* runs whose image is complete
  synced,      \* runs whose image was flushed to disk
  sha,         \* the run .sha256 belongs to; NoFile, or Torn
  size,        \* the run .size belongs to; NoFile, or Torn
  saved,       \* history: a run has succeeded before
  outcome      \* of the last run

fileVars == <<target, partial, whole, synced>>
vars == <<pc, run, target, partial, whole, synced, sha, size, saved, outcome>>

\* Run numbers start at 1, so two values are left for the special cases.
NoFile == 0
Torn   == MaxRuns + 1       \* truncated, or written in part

Runs == 1..MaxRuns

Init ==
  /\ pc = "idle" /\ run = 0
  /\ target = NoFile /\ partial = NoFile
  /\ whole = {} /\ synced = {}
  /\ sha = NoFile /\ size = NoFile
  /\ saved = FALSE /\ outcome = "none"

\* Mutant: every failure tidies the partial file away.
Failed_RemovesPartial(from) ==
  /\ pc = from /\ CallsFail
  /\ pc' = "idle" /\ outcome' = "failed"
  /\ partial' = NoFile
  /\ UNCHANGED <<run, target, whole, synced, sha, size, saved>>

\* "return err" (and, from runToSink, f.Close first).
Failed(from) ==
  /\ pc = from /\ CallsFail
  /\ pc' = "idle" /\ outcome' = "failed"
  /\ UNCHANGED <<run, fileVars, sha, size, saved>>

-----------------------------------------------------------------------------
(* RunToFile                                                               *)

\* Mutant: the output is created under its final name.
CreatePartial_InPlace ==
  /\ pc = "idle" /\ run < MaxRuns
  /\ run' = run + 1
  /\ partial' = run' /\ target' = run'
  /\ pc' = "stream" /\ outcome' = "none"
  /\ UNCHANGED <<whole, synced, sha, size, saved>>

\* os.Create(partPath), before the long preparation; it truncates a leftover.
CreatePartial ==
  /\ pc = "idle" /\ run < MaxRuns
  /\ run' = run + 1
  /\ partial' = run'
  /\ pc' = "stream" /\ outcome' = "none"
  /\ UNCHANGED <<target, whole, synced, sha, size, saved>>

\* runToSink returned nil: by Transfer's contract the file holds the disk.
StreamOk ==
  /\ pc = "stream"
  /\ whole' = whole \cup {run}
  /\ pc' = "sync"
  /\ UNCHANGED <<run, target, partial, synced, sha, size, saved, outcome>>

\* Mutant: closing the file is taken for flushing it.
Sync_CloseOnly ==
  /\ pc = "sync"
  /\ pc' = "remove"
  /\ UNCHANGED <<run, fileVars, sha, size, saved, outcome>>

\* f.Sync and f.Close.
Sync ==
  /\ pc = "sync"
  /\ synced' = synced \cup {run}
  /\ pc' = "remove"
  /\ UNCHANGED <<run, target, partial, whole, sha, size, saved, outcome>>

\* os.Remove(TargetPath), where "does not exist" is no error.
Remove ==
  /\ pc = "remove"
  /\ target' = NoFile
  /\ pc' = "rename"
  /\ UNCHANGED <<run, partial, whole, synced, sha, size, saved, outcome>>

Rename ==
  /\ pc = "rename"
  /\ target' = partial /\ partial' = NoFile
  /\ saved' = TRUE
  /\ pc' = "shaOpen"
  /\ UNCHANGED <<run, whole, synced, sha, size, outcome>>

-----------------------------------------------------------------------------
(* execSaveToFile: the sidecars.  os.WriteFile truncates, then writes.     *)

\* Mutant: an existing sidecar is kept.
ShaOpen_KeepsExisting ==
  /\ pc = "shaOpen"
  /\ IF sha = NoFile THEN sha' = Torn /\ pc' = "shaWrite"
                     ELSE UNCHANGED sha /\ pc' = "sizeOpen"
  /\ UNCHANGED <<run, fileVars, size, saved, outcome>>

\* A sidecar that cannot be opened keeps its old content.
ShaOpen ==
  /\ pc = "shaOpen"
  /\ \/ sha' = Torn /\ pc' = "shaWrite"
        /\ UNCHANGED outcome
     \/ CallsFail /\ UNCHANGED sha /\ pc' = "sizeOpen" /\ outcome' = "warned"
  /\ UNCHANGED <<run, fileVars, size, saved>>

ShaWrite ==
  /\ pc = "shaWrite"
  /\ \/ sha' = run /\ UNCHANGED outcome
     \/ CallsFail /\ UNCHANGED sha /\ outcome' = "warned"
  /\ pc' = "sizeOpen"
  /\ UNCHANGED <<run, fileVars, size, saved>>

\* "Save complete" is printed in any case, after the warnings there were.
Complete == IF outcome = "none" THEN "saved" ELSE outcome

SizeOpen ==
  /\ pc = "sizeOpen"
  /\ \/ size' = Torn /\ pc' = "sizeWrite" /\ UNCHANGED outcome
     \/ CallsFail /\ UNCHANGED size /\ pc' = "idle" /\ outcome' = "warned"
  /\ UNCHANGED <<run, fileVars, sha, saved>>

SizeWrite ==
  /\ pc = "sizeWrite"
  /\ \/ size' = run /\ outcome' = Complete
     \/ CallsFail /\ UNCHANGED size /\ outcome' = "warned"
  /\ pc' = "idle"
  /\ UNCHANGED <<run, fileVars, sha, saved>>

\* Ctrl+C outside the handlers, a kill, a power cut.
Crash ==
  /\ CanCrash /\ pc # "idle"
  /\ pc' = "idle" /\ outcome' = "crashed"
  /\ UNCHANGED <<run, fileVars, sha, size, saved>>

StreamFails == Failed("stream")
SyncFails == Failed("sync")
RemoveFails == Failed("remove")
RenameFails == Failed("rename")

Next ==
  \/ CreatePartial \/ StreamOk \/ Sync \/ Remove \/ Rename
  \/ ShaOpen \/ ShaWrite \/ SizeOpen \/ SizeWrite \/ Crash
  \/ StreamFails \/ SyncFails \/ RemoveFails \/ RenameFails

Spec == Init /\ [][Next]_vars

-----------------------------------------------------------------------------
(* What a restore makes of the files                                       *)

\* ReadSizeFile: 0 if missing or unparsable.
DiskSizeOf(r) == 1 + (r % 2)
ReadSizeFile == IF size \in Runs THEN DiskSizeOf(size) ELSE 0

-----------------------------------------------------------------------------
(* Properties                                                              *)

\* Files hold runs' images, runs are numbered in order.
TypeOK ==
  /\ pc \in {"idle", "stream", "sync", "remove", "rename", "shaOpen",
             "shaWrite", "sizeOpen", "sizeWrite"}
  /\ run \in 0..MaxRuns
  /\ target \in 0..MaxRuns /\ partial \in 0..MaxRuns
  /\ whole \subseteq Runs /\ synced \subseteq Runs
  /\ sha \in 0..Torn /\ size \in 0..Torn
  /\ saved \in BOOLEAN
  /\ outcome \in {"none", "failed", "crashed", "warned", "saved"}

\* What stands under the final name is always one complete, flushed image:
\* no failure and no crash leaves a torn backup where a good one is expected.
NoTornBackup == target # NoFile => target \in whole /\ target \in synced

\* The old backup stays until the new image is complete and flushed: a run that
\* fails in the preparation, the transfer or the flush leaves it intact.
OldStaysUntilNewIsWhole ==
  [][target' # target => partial \in whole /\ partial \in synced]_vars

\* A complete image is to be found under one of the two names.
HasWhole == target # NoFile \/ partial \in whole

\* A run that is under way, fails or dies never throws away the only complete
\* image: at worst it is left under ".partial".
KeepsOneWhole == [][HasWhole /\ run' = run => HasWhole']_vars

\* Whatever failed or crashed predecessors left behind, a run that completes
\* without a warning ends with the sidecars of its own image.
SavedIsDescribed ==
  outcome = "saved" => target = run /\ sha = run
                       /\ ReadSizeFile = DiskSizeOf(run)
=============================================================================
