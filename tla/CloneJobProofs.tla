--------------------------- MODULE CloneJobProofs ---------------------------
(***************************************************************************)
(* Proofs about module CloneJob, for every disk layout and every number of *)
(* Ctrl+C presses.                                                         *)
(*                                                                         *)
(* None of the safety properties is inductive alone.  OrderInv collects    *)
(* what the code's ORDER guarantees in every configuration: which phases   *)
(* can hold a freeze, which a handler, which a running script.  GateInv is *)
(* what the mount gates add, and it needs a truthful LVM probe.            *)
(*                                                                         *)
(* The last section is about LocalFixBoot, the search that follows a clone *)
(* onto a local disk, for every set of devices and every number of unmounts *)
(* that give up.  It shares nothing with the job but this module.          *)
(***************************************************************************)
EXTENDS CloneJob, LocalFixBoot, TLAPS

OrderInv ==
  \* only the tail of the job can hold a freeze, and "done" only without link
  \* or after a thaw that failed
  /\ frozen => pc \in {"open", "streaming", "returning", "unfreeze", "done",
                       "dead"}
  /\ pc = "done" /\ frozen => thawFailed \/ ~linkUp
  \* a handler is registered exactly around its long command
  /\ handler = "fill" => pc \in {"fillWait", "dead"}
  /\ handler = "stream" => pc \in {"streaming", "returning", "dead"}
  \* past fillWait a script can still run only where it cannot be reached
  /\ script = "running" /\ linkUp => pc \in {"fillWait", "dead"}
  /\ zfCancelled /\ script \in {"running", "killed"}
       => pc \in {"fillWait", "done", "dead"}
  \* what is being filled is mounted
  /\ filling \subseteq mounted
  /\ script \in {"idle", "exited"} => filling = {}

GateInv ==
  /\ pc \in {"warn", "fillGate"} => mounted = live
  /\ pc \in {"warn", "fillGate", "fillStart"} => script = "idle"
  /\ pc \in {"fillStart", "fillWait"} => live \subseteq Hidden
  /\ script # "idle" => live \subseteq Hidden
  /\ filled # {} => script # "idle"
  /\ frozen \/ pc \in {"freeze", "open", "streaming", "returning"}
       => mounted \subseteq Hidden /\ script # "running"

\* CloneJob's variables keep their types: the job's phases, sets of partitions
\* of the source disk, the life of the fill script, a bounded press count.
THEOREM TypeCorrect == Spec => []TypeOK
<1>1. Init => TypeOK
  <2>1. Init => FlagsOK BY DEF Init, FlagsOK
  <2>2. Init => StateOK BY CloneJobAssumption DEF Init, StateOK, Phases
  <2>3. QED BY <2>1, <2>2 DEF TypeOK
<1>2. FlagsOK /\ [Next]_vars => FlagsOK'
  BY DEF FlagsOK, Next, Main, Script, Handler, vars, jobVars, hostVars,
     fillVars, intVars, Warn, FillGatePass, FillGateFail, ReturnError,
     FillStart, FillReturn, Initramfs, VerifyList, VerifyUmount, VerifyGate,
     VerifyFail, Freeze, OpenStream, OpenFail, StreamVerdict, StreamReturn,
     Unfreeze, FillMount, FillUmount, FillExit, FillDies, KillScript,
     OrphanEnds, LinkDrop, Press, CancelFill, CancelStream, ForceFill,
     ForceStream, ForceExit
<1>3. StateOK /\ [Next]_vars => StateOK'
  <2> SUFFICES ASSUME StateOK, [Next]_vars PROVE StateOK'
    OBVIOUS
  <2> USE DEF StateOK, Phases, Goto, AfterFill, jobVars, hostVars, fillVars,
          intVars
  <2>1. CASE Main
    <3>1. CASE Warn BY <3>1 DEF Warn
    <3>2. CASE FillGatePass \/ FillGateFail
      BY <3>2 DEF FillGatePass, FillGateFail, ReturnError
    <3>3. CASE FillStart BY <3>3 DEF FillStart
    <3>4. CASE FillReturn BY <3>4 DEF FillReturn
    <3>5. CASE Initramfs BY <3>5 DEF Initramfs
    <3>6. CASE VerifyList BY <3>6 DEF VerifyList
    <3>7. CASE VerifyUmount BY <3>7 DEF VerifyUmount
    <3>8. CASE VerifyGate \/ VerifyFail
      BY <3>8 DEF VerifyGate, VerifyFail, ReturnError
    <3>9. CASE Freeze \/ Unfreeze BY <3>9 DEF Freeze, Unfreeze
    <3>10. CASE OpenStream \/ OpenFail BY <3>10 DEF OpenStream, OpenFail
    <3>11. CASE StreamVerdict \/ StreamReturn
      BY <3>11 DEF StreamVerdict, StreamReturn
    <3>12. QED
      BY <2>1, <3>1, <3>2, <3>3, <3>4, <3>5, <3>6, <3>7, <3>8, <3>9, <3>10,
         <3>11 DEF Main
  <2>2. CASE Script
    <3>1. CASE FillMount BY <3>1 DEF FillMount
    <3>2. CASE FillUmount BY <3>2 DEF FillUmount
    <3>3. CASE FillExit \/ FillDies \/ OrphanEnds
      BY <3>3 DEF FillExit, FillDies, OrphanEnds, KillScript
    <3>4. QED BY <2>2, <3>1, <3>2, <3>3 DEF Script
  <2>3. CASE LinkDrop BY <2>3 DEF LinkDrop
  <2>4. CASE Press BY CloneJobAssumption, <2>4 DEF Press, Running
  <2>5. CASE Handler
    <3>1. CASE CancelFill BY <3>1 DEF CancelFill, KillScript
    <3>2. CASE CancelStream \/ ForceStream
      BY <3>2 DEF CancelStream, ForceStream
    <3>3. CASE ForceFill \/ ForceExit BY <3>3 DEF ForceFill, ForceExit
    <3>4. QED BY <2>5, <3>1, <3>2, <3>3 DEF Handler
  <2>6. CASE UNCHANGED vars BY <2>6 DEF vars
  <2>7. QED BY <2>1, <2>2, <2>3, <2>4, <2>5, <2>6 DEF Next
<1>4. TypeOK /\ [Next]_vars => TypeOK' BY <1>2, <1>3 DEF TypeOK
<1>5. QED BY <1>1, <1>4, PTL DEF Spec

LEMMA OrderInvariant == Spec => []OrderInv
<1>1. Init => OrderInv BY DEF Init, OrderInv
<1>2. TypeOK /\ OrderInv /\ [Next]_vars => OrderInv'
  <2> SUFFICES ASSUME TypeOK, OrderInv, [Next]_vars PROVE OrderInv'
    OBVIOUS
  <2> USE DEF TypeOK, FlagsOK, OrderInv, Goto, AfterFill, jobVars, hostVars,
          fillVars, intVars, Running
  <2>1. CASE Main
    <3>1. CASE Warn BY <3>1 DEF Warn
    <3>2. CASE FillGatePass \/ FillGateFail
      BY <3>2 DEF FillGatePass, FillGateFail, ReturnError
    <3>3. CASE FillStart BY <3>3 DEF FillStart
    <3>4. CASE FillReturn BY <3>4 DEF FillReturn
    <3>5. CASE Initramfs BY <3>5 DEF Initramfs
    <3>6. CASE VerifyList BY <3>6 DEF VerifyList
    <3>7. CASE VerifyUmount BY <3>7 DEF VerifyUmount
    <3>8. CASE VerifyGate \/ VerifyFail
      BY <3>8 DEF VerifyGate, VerifyFail, ReturnError
    <3>9. CASE Freeze BY <3>9 DEF Freeze
    <3>10. CASE OpenStream \/ OpenFail BY <3>10 DEF OpenStream, OpenFail
    <3>11. CASE StreamVerdict \/ StreamReturn
      BY <3>11 DEF StreamVerdict, StreamReturn
    <3>12. CASE Unfreeze BY <3>12 DEF Unfreeze
    <3>13. QED
      BY <2>1, <3>1, <3>2, <3>3, <3>4, <3>5, <3>6, <3>7, <3>8, <3>9, <3>10,
         <3>11, <3>12 DEF Main
  <2>2. CASE Script
    <3>1. CASE FillMount BY <3>1 DEF FillMount
    <3>2. CASE FillUmount BY <3>2 DEF FillUmount
    <3>3. CASE FillExit \/ FillDies \/ OrphanEnds
      BY <3>3 DEF FillExit, FillDies, OrphanEnds, KillScript
    <3>4. QED BY <2>2, <3>1, <3>2, <3>3 DEF Script
  <2>3. CASE LinkDrop BY <2>3 DEF LinkDrop
  <2>4. CASE Press BY <2>4 DEF Press
  <2>5. CASE Handler
    <3>1. CASE CancelFill BY <3>1 DEF CancelFill, KillScript
    <3>2. CASE CancelStream \/ ForceStream
      BY <3>2 DEF CancelStream, ForceStream
    <3>3. CASE ForceFill \/ ForceExit BY <3>3 DEF ForceFill, ForceExit
    <3>4. QED BY <2>5, <3>1, <3>2, <3>3 DEF Handler
  <2>6. CASE UNCHANGED vars BY <2>6 DEF vars
  <2>7. QED BY <2>1, <2>2, <2>3, <2>4, <2>5, <2>6 DEF Next
<1>3. QED BY <1>1, <1>2, TypeCorrect, PTL DEF Spec

\* With a truthful LVM probe a gate passes only on a disk of which nothing that
\* can be attributed is mounted.
LEMMA EmptyListing ==
  ASSUME ~ProbeMayFail, ListsMounted({}) PROVE mounted \subseteq Hidden /\ linkUp
BY DEF ListsMounted

LEMMA GateInvariant == ASSUME ~ProbeMayFail PROVE Spec => []GateInv
<1>1. Init => GateInv BY DEF Init, GateInv
<1>2. TypeOK /\ OrderInv /\ GateInv /\ [Next]_vars => GateInv'
  <2> SUFFICES ASSUME TypeOK, OrderInv, GateInv, [Next]_vars PROVE GateInv'
    OBVIOUS
  <2> USE EmptyListing
      DEF TypeOK, FlagsOK, OrderInv, GateInv, Goto, AfterFill, jobVars,
          hostVars, fillVars, intVars, Running
  <2>1. CASE Main
    <3>1. CASE Warn BY <3>1 DEF Warn
    <3>2. CASE FillGatePass \/ FillGateFail
      BY <3>2 DEF FillGatePass, FillGateFail, ReturnError
    <3>3. CASE FillStart BY <3>3 DEF FillStart
    <3>4. CASE FillReturn BY <3>4 DEF FillReturn
    <3>5. CASE Initramfs BY <3>5 DEF Initramfs
    <3>6. CASE VerifyList BY <3>6 DEF VerifyList
    <3>7. CASE VerifyUmount BY <3>7 DEF VerifyUmount
    <3>8. CASE VerifyGate \/ VerifyFail
      BY <3>8 DEF VerifyGate, VerifyFail, ReturnError
    <3>9. CASE Freeze BY <3>9 DEF Freeze
    <3>10. CASE OpenStream \/ OpenFail BY <3>10 DEF OpenStream, OpenFail
    <3>11. CASE StreamVerdict \/ StreamReturn
      BY <3>11 DEF StreamVerdict, StreamReturn
    <3>12. CASE Unfreeze BY <3>12 DEF Unfreeze
    <3>13. QED
      BY <2>1, <3>1, <3>2, <3>3, <3>4, <3>5, <3>6, <3>7, <3>8, <3>9, <3>10,
         <3>11, <3>12 DEF Main
  <2>2. CASE Script
    <3>1. CASE FillMount BY <3>1 DEF FillMount
    <3>2. CASE FillUmount BY <3>2 DEF FillUmount
    <3>3. CASE FillExit \/ FillDies \/ OrphanEnds
      BY <3>3 DEF FillExit, FillDies, OrphanEnds, KillScript
    <3>4. QED BY <2>2, <3>1, <3>2, <3>3 DEF Script
  <2>3. CASE LinkDrop BY <2>3 DEF LinkDrop
  <2>4. CASE Press BY <2>4 DEF Press
  <2>5. CASE Handler
    <3>1. CASE CancelFill BY <3>1 DEF CancelFill, KillScript
    <3>2. CASE CancelStream \/ ForceStream
      BY <3>2 DEF CancelStream, ForceStream
    <3>3. CASE ForceFill \/ ForceExit BY <3>3 DEF ForceFill, ForceExit
    <3>4. QED BY <2>5, <3>1, <3>2, <3>3 DEF Handler
  <2>6. CASE UNCHANGED vars BY <2>6 DEF vars
  <2>7. QED BY <2>1, <2>2, <2>3, <2>4, <2>5, <2>6 DEF Next
<1>3. QED BY <1>1, <1>2, TypeCorrect, OrderInvariant, PTL DEF Spec

-----------------------------------------------------------------------------

\* preReadSyncAndVerify's promise, for every disk layout: dd never reads, and a
\* freeze never holds, a source of which anything that a listing attributes is
\* mounted or being written -- provided the LVM probe cannot fail silently.
THEOREM QuietSource == ASSUME ~ProbeMayFail PROVE Spec => []SourceQuiet
<1>1. OrderInv /\ GateInv => SourceQuiet
  <2> SUFFICES ASSUME OrderInv, GateInv,
                      frozen \/ pc \in {"open", "streaming", "returning"}
               PROVE  /\ mounted \subseteq Hidden /\ filling \subseteq Hidden
                      /\ script # "running"
    BY DEF SourceQuiet
  <2>1. mounted \subseteq Hidden /\ script # "running" BY DEF GateInv
  <2>2. filling \subseteq Hidden BY <2>1 DEF OrderInv
  <2>3. QED BY <2>1, <2>2
<1>2. QED BY <1>1, OrderInvariant, GateInvariant, PTL

\* ensureSourceUnmountedForZeroFill's promise: no zero is ever written to a
\* disk of which the listing had a file system when the job began.
THEOREM OfflineFill == ASSUME ~ProbeMayFail PROVE Spec => []FillsOnlyOffline
<1>1. GateInv => FillsOnlyOffline BY DEF GateInv, FillsOnlyOffline
<1>2. QED BY <1>1, GateInvariant, PTL

\* A zero-fill that dies after its cancellation ends the job, whatever the
\* probe, the link and the SSH server do.
THEOREM CancelledFill == Spec => []CancelledFillStops
<1>1. OrderInv => CancelledFillStops BY DEF OrderInv, CancelledFillStops
<1>2. QED BY <1>1, OrderInvariant, PTL

\* Every return of the job, successful or not, has thawed a source that can be
\* reached and whose thaw does not fail.
THEOREM ThawOnReturn == Spec => []ReturnThaws
<1>1. OrderInv => ReturnThaws BY DEF OrderInv, ReturnThaws
<1>2. QED BY <1>1, OrderInvariant, PTL

-----------------------------------------------------------------------------
(* The search for the root of the written disk: LocalFixBoot               *)

\* The mounts on the probe directory are no more than the unmounts that gave up:
\* that is why the deferred one can take the last mount off.
StackInv ==
  /\ FindTypeOK
  /\ untried \subseteq Candidates
  /\ OnlyTargetIsMounted
  /\ phase = "find" => probe = <<>>
  /\ phase \in {"probe", "deferred"} => Len(probe) <= stuck
  /\ phase = "look" => probe # <<>>
  /\ phase \in {"look", "unmount"} => Len(probe) <= stuck + 1
  /\ OneStuckIsUnmounted

\* What a candidate is, as far as its name and sysfs tell, lies on the target.
LEMMA CandidatesAreOnTarget == FindTypeOK => \A d \in Candidates : OnTarget(d)
<1> SUFFICES ASSUME FindTypeOK, NEW d \in Candidates PROVE OnTarget(d)
  OBVIOUS
<1>1. disks[d] \in Possible BY DEF FindTypeOK, Candidates
<1>2. CASE dmOnTargetDisk(d) BY <1>2 DEF dmOnTargetDisk
<1>3. CASE isPartitionOf(d)
  BY <1>1, <1>3 DEF isPartitionOf, Suffix, OnTarget, Possible, Disks, FindTypeOK
<1>4. QED BY <1>2, <1>3 DEF Candidates

\* A device keeps its nature, so a candidate stays one.
LEMMA DisksConstant == [FindNext]_findVars => UNCHANGED fixed /\ Candidates' = Candidates
<1> SUFFICES ASSUME [FindNext]_findVars PROVE UNCHANGED fixed /\ Candidates' = Candidates
  OBVIOUS
<1>1. UNCHANGED fixed
  BY DEF FindNext, findVars, Find, Skip, Probe, Look, Unmount, NoneLeft, Deferred, fixed
<1>2. QED
  BY <1>1 DEF fixed, Candidates, isPartitionOf, dmOnTargetDisk, Suffix, OnTarget

\* The uppermost mount goes, or one more umount has given up.
LEMMA UmountOnce ==
  ASSUME FindTypeOK, umountSingle
  PROVE  /\ probe' \in Seq(Devices) /\ stuck' \in Nat
         /\ Len(probe') \in Nat /\ Len(probe) \in Nat
         /\ \A n \in Nat : Len(probe) <= stuck + n + 1 => Len(probe') <= stuck' + n
         /\ \A i \in DOMAIN probe' : \E j \in DOMAIN probe : probe'[i] = probe[j]
         /\ stuck' <= 1 /\ Len(probe) <= stuck => probe' = <<>>
<1> USE DEF FindTypeOK
<1>1. CASE probe # <<>> /\ probe' = Tail(probe) /\ UNCHANGED stuck
  <2>1. Len(probe') = Len(probe) - 1 /\ Len(probe) \in Nat \ {0}
    BY <1>1
  <2>2. \A i \in DOMAIN probe' : i + 1 \in DOMAIN probe /\ probe'[i] = probe[i + 1]
    BY <1>1
  <2>3. QED BY <1>1, <2>1, <2>2
<1>2. CASE probe = <<>> /\ UNCHANGED <<probe, stuck>>
  BY <1>2
<1>3. CASE probe # <<>> /\ stuck' = stuck + 1 /\ UNCHANGED probe
  BY <1>3
<1>4. QED BY <1>1, <1>2, <1>3 DEF umountSingle

LEMMA StackStep == StackInv /\ [FindNext]_findVars => StackInv'
<1> SUFFICES ASSUME StackInv, [FindNext]_findVars PROVE StackInv'
  OBVIOUS
<1>0. UNCHANGED fixed /\ Candidates' = Candidates /\ Candidates \subseteq Devices
  BY DisksConstant DEF Candidates
<1> USE <1>0 DEF StackInv, FindTypeOK, OnlyTargetIsMounted, OneStuckIsUnmounted, fixed,
                 OnTarget
<1>1. CASE Find BY <1>1 DEF Find
<1>2. CASE Skip BY <1>2 DEF Skip
<1>3. CASE Probe
  <2>1. PICK d \in untried :
          /\ untried' = untried \ {d}
          /\ \/ probe' = <<d>> \o probe /\ phase' = "look" /\ UNCHANGED refused
             \/ refused' = refused \cup {d} /\ UNCHANGED <<probe, phase>>
    BY <1>3 DEF Probe
  <2>2. OnTarget(d) /\ d \in Devices BY CandidatesAreOnTarget
  <2>3. CASE UNCHANGED <<probe, phase>>
    BY <1>3, <2>1, <2>2, <2>3 DEF Probe
  <2>4. CASE probe' = <<d>> \o probe /\ phase' = "look"
    <3>1. probe' \in Seq(Devices) /\ Len(probe') = Len(probe) + 1
      BY <2>2, <2>4
    <3>2. \A i \in DOMAIN probe' : probe'[i] = IF i = 1 THEN d ELSE probe[i - 1]
      BY <2>2, <2>4
    <3>3. \A i \in DOMAIN probe' : i # 1 => i - 1 \in DOMAIN probe
      BY <3>1
    <3>4. \A i \in DOMAIN probe' : OnTarget(probe'[i])
      BY <2>2, <3>2, <3>3
    <3>5. phase = "probe" /\ UNCHANGED <<fixed, stuck, outcome, refused>>
      BY <1>3, <2>1, <2>4 DEF Probe
    <3>6. FindTypeOK' BY <2>1, <2>4, <3>1, <3>5
    <3>7. Len(probe') <= stuck + 1 /\ probe' # <<>>
      <4>1. Len(probe) \in Nat /\ Len(probe) <= stuck BY <3>5
      <4>2. QED BY <3>1, <4>1
    <3>8. QED BY <2>1, <2>4, <3>4, <3>5, <3>6, <3>7
  <2>5. QED BY <2>1, <2>3, <2>4
<1>4. CASE Look BY <1>4 DEF Look
<1>5. CASE Unmount
  <2>1. umountSingle BY <1>5 DEF Unmount
  <2>2. Len(probe') <= stuck' BY <1>5, <2>1, UmountOnce DEF Unmount
  <2>3. OnlyTargetIsMounted' BY <2>1, UmountOnce
  <2>4. QED BY <1>5, <2>1, <2>2, <2>3, UmountOnce DEF Unmount
<1>6. CASE NoneLeft BY <1>6 DEF NoneLeft
<1>7. CASE Deferred
  <2>1. umountSingle /\ Len(probe) <= stuck BY <1>7 DEF Deferred
  <2>2. OnlyTargetIsMounted' BY <2>1, UmountOnce
  <2>3. QED BY <1>7, <2>1, <2>2, UmountOnce DEF Deferred
<1>8. CASE UNCHANGED findVars BY <1>8 DEF findVars
<1>9. QED BY <1>1, <1>2, <1>3, <1>4, <1>5, <1>6, <1>7, <1>8 DEF FindNext

LEMMA StackInvariant == FindSpec => []StackInv
<1>1. FindInit => StackInv
  BY DEF FindInit, StackInv, FindTypeOK, OnlyTargetIsMounted, OneStuckIsUnmounted
<1>2. QED BY <1>1, StackStep, PTL DEF FindSpec

\* Type correctness for every set of devices.
THEOREM FindTypeCorrect == FindSpec => []FindTypeOK
<1>1. StackInv => FindTypeOK BY DEF StackInv
<1>2. QED BY <1>1, StackInvariant, PTL

\* findRootPartition never mounts a file system that is not on the target.
THEOREM OnlyTargetEver == FindSpec => []OnlyTargetIsMounted
<1>1. StackInv => OnlyTargetIsMounted BY DEF StackInv
<1>2. QED BY <1>1, StackInvariant, PTL

\* A mount that stayed busy once is taken off by the deferred umount.
THEOREM OneStuckEver == FindSpec => []OneStuckIsUnmounted
<1>1. StackInv => OneStuckIsUnmounted BY DEF StackInv
<1>2. QED BY <1>1, StackInvariant, PTL
=============================================================================
