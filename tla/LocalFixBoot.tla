---------------------------- MODULE LocalFixBoot ----------------------------
(* fixboot.Run up to the end of findRootPartition: which of the local file  *)
(* systems is the root of the disk that was just written.  Every candidate  *)
(* is mounted on /mnt/clonefix.probe, looked into and unmounted again; an   *)
(* umount may find the mount busy for all of its tries, and the next        *)
(* candidate is then mounted on top of it.                                  *)
(*                                                                          *)
(* The rest of Run (mounting the root, chroot, initramfs, GRUB, fstab) is   *)
(* not modelled: RootIsFound shows that it is never reached.                *)
EXTENDS Naturals, Sequences

CONSTANTS
  Devices,   \* block devices whose file systems could be candidates
  MaxStuck   \* how often umount finds the probe mount busy to the end

VARIABLES
  digits,  \* the target's name ends in a digit (nvme0n1) and not in a letter
  disks,   \* what every device is, and what is on it
  phase,
  untried, \* candidates that are still to be tried
  probe,   \* mounts on the probe directory, the visible one first
  refused, \* candidates that mount would not take
  stuck,   \* calls of umountSingle that gave up
  outcome  \* of findRootPartition: "none", "found", "error"

findVars == <<digits, disks, phase, untried, probe, refused, stuck, outcome>>
fixed == <<digits, disks>>

LinuxFS == {"ext4", "btrfs"}
\* A disk of its own ("disk") counts only if its name begins with the target's.
Disks == [place : {"partition", "disk", "lv"}, owner : {"target", "other"},
          fs : LinuxFS \cup {"vfat", "swap", ""}, content : {"system", "data"}]

\* A device holds one thing: an installed system is on a Linux file system, and
\* the target itself is not a candidate.
Possible ==
  {d \in Disks : /\ d.content = "system" => d.fs \in LinuxFS
                 /\ d.place = "disk" => d.owner = "other"}

OnTarget(d) == disks[d].owner = "target"

-----------------------------------------------------------------------------
(* The candidates                                                          *)

\* What follows the target's name in the name of a device: n a number, a letters.
Suffix(d) ==
  CASE disks[d].place = "disk" -> IF digits THEN "n" ELSE "a"
    [] disks[d].place = "partition" /\ OnTarget(d) -> IF digits THEN "pn" ELSE "n"
    [] disks[d].place = "partition" /\ ~OnTarget(d) -> IF digits THEN "npn" ELSE "an"
    [] OTHER -> ""

\* Mutant: whatever "disk*" matches.
isPartitionOf_Prefix(d) == Suffix(d) # ""

\* A partition number; behind a name that ends in a digit, "p" and a number.
isPartitionOf(d) == Suffix(d) = IF digits THEN "pn" ELSE "n"

\* os.ReadFile of what /sys/block/dm-N/slaves is: a directory of links.
SlavesEntry == "dir"
ReadFileWorks(entry) == entry = "file"
dmOnTargetDisk(d) ==
  disks[d].place = "lv" /\ ReadFileWorks(SlavesEntry) /\ OnTarget(d)

\* The names below an NVMe or loop disk that a second glob adds unasked ("disk"p*)
\* pass isPartitionOf as well: a whole disk of that name begins with another "n" or
\* number.
Candidates == {d \in Devices : isPartitionOf(d) \/ dmOnTargetDisk(d)}

Linux(d) == disks[d].fs \in LinuxFS

\* What an installed system has under the names that isRootFS looks for.
Entry(d, name) ==
  CASE disks[d].content = "data" -> "none"
    [] name = "etc/os-release" -> "file"
    [] OTHER -> "dir"

\* "err == nil && !info.IsDir()"
fileExists(d, name) == Entry(d, name) = "file"

isRootFS(d) ==
  \A name \in {"etc/os-release", "usr/lib/modules", "usr/bin"} : fileExists(d, name)

-----------------------------------------------------------------------------
(* Run                                                                     *)

FindInit ==
  /\ digits \in BOOLEAN
  /\ disks \in [Devices -> Possible]
  /\ phase = "find" /\ untried = {} /\ probe = <<>>
  /\ refused = {} /\ stuck = 0 /\ outcome = "none"

\* Without a candidate findRootPartition returns before its defer.
Find ==
  /\ phase = "find"
  /\ untried' = Candidates
  /\ IF Candidates = {} THEN phase' = "returned" /\ outcome' = "error"
                        ELSE phase' = "probe" /\ UNCHANGED outcome
  /\ UNCHANGED <<fixed, probe, refused, stuck>>

\* File systems that a Linux root may be on come first.
IsNext(d) == d \in untried /\ (Linux(d) \/ \A e \in untried : ~Linux(e))

Skip ==
  /\ phase = "probe"
  /\ \E d \in untried : IsNext(d) /\ disks[d].fs \in {"swap", ""} /\ untried' = untried \ {d}
  /\ UNCHANGED <<fixed, phase, probe, refused, stuck, outcome>>

\* mount -t: refused by the kernel (no module, a log that cannot be replayed),
\* or done, whatever is mounted there already.
Probe ==
  /\ phase = "probe"
  /\ \E d \in untried :
       /\ IsNext(d) /\ disks[d].fs \notin {"swap", ""}
       /\ untried' = untried \ {d}
       /\ \/ probe' = <<d>> \o probe /\ phase' = "look" /\ UNCHANGED refused
          \/ refused' = refused \cup {d} /\ UNCHANGED <<probe, phase>>
  /\ UNCHANGED <<fixed, stuck, outcome>>

Look ==
  /\ phase = "look"
  /\ phase' = "unmount"
  /\ outcome' = IF isRootFS(Head(probe)) THEN "found" ELSE outcome
  /\ UNCHANGED <<fixed, untried, probe, refused, stuck>>

\* umount takes the uppermost mount off; after five tries it is left, and
\* nobody is told.
umountSingle ==
  \/ probe # <<>> /\ probe' = Tail(probe) /\ UNCHANGED stuck
  \/ probe = <<>> /\ UNCHANGED <<probe, stuck>>
  \/ /\ probe # <<>> /\ stuck < MaxStuck
     /\ stuck' = stuck + 1 /\ UNCHANGED probe

Unmount ==
  /\ phase = "unmount"
  /\ umountSingle
  /\ phase' = IF outcome = "found" THEN "deferred" ELSE "probe"
  /\ UNCHANGED <<fixed, untried, refused, outcome>>

NoneLeft ==
  /\ phase = "probe" /\ untried = {}
  /\ phase' = "deferred" /\ outcome' = "error"
  /\ UNCHANGED <<fixed, untried, probe, refused, stuck>>

\* Mutant: the function returns without its deferred clean-up.
Deferred_Skipped ==
  /\ phase = "deferred" /\ phase' = "returned"
  /\ UNCHANGED <<fixed, untried, probe, refused, stuck, outcome>>

\* The deferred umountSingle, a second chance for a mount that was busy.
Deferred ==
  /\ phase = "deferred"
  /\ umountSingle
  /\ phase' = "returned"
  /\ UNCHANGED <<fixed, untried, refused, outcome>>

FindNext == Find \/ Skip \/ Probe \/ Look \/ Unmount \/ NoneLeft \/ Deferred

FindSpec == FindInit /\ [][FindNext]_findVars

-----------------------------------------------------------------------------
(* Properties                                                              *)

\* Every variable keeps its type; what is mounted or refused is no longer to do.
FindTypeOK ==
  /\ digits \in BOOLEAN /\ disks \in [Devices -> Possible]
  /\ phase \in {"find", "probe", "look", "unmount", "deferred", "returned"}
  /\ untried \subseteq Devices /\ refused \subseteq Devices
  /\ probe \in Seq(Devices)
  /\ stuck \in Nat
  /\ outcome \in {"none", "found", "error"}

\* findRootPartition: "without the filter a multi-disk machine could pick
\* another disk's root by alphabetical accident".  No file system but the
\* target's is ever mounted, also next to a disk whose name begins alike.
OnlyTargetIsMounted == \A i \in DOMAIN probe : OnTarget(probe[i])

\* A mount that stayed busy once does not outlive the search, although others
\* were mounted over it: every later umount leaves one mount less, and the
\* deferred one has the last.  One that is left behind was given up twice.
OneStuckIsUnmounted == phase = "returned" /\ stuck <= 1 => probe = <<>>

\* Run: "Find and mount root filesystem".  Not kept for any disk: the search
\* fails although a partition of the target has an installed system and could be
\* mounted.  (For a logical volume it fails before: dmOnTargetDisk never holds.)
RootIsFound ==
  outcome = "error" =>
    \A d \in Devices :
       OnTarget(d) /\ disks[d].place = "partition" /\ disks[d].content = "system"
       => d \in refused
=============================================================================
