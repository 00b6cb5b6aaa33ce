--------------------------- MODULE SaveFileProofs ---------------------------
(***************************************************************************)
(* The ".partial" protocol of SaveFile, for every number of runs.          *)
(*                                                                         *)
(* ProtocolInv says what each step of RunToFile has established about the  *)
(* image under ".partial"; it is what makes the rename safe.               *)
(***************************************************************************)
EXTENDS SaveFile, TLAPS

ProtocolInv ==
  /\ run \in Nat
  /\ pc \in {"stream", "sync", "remove", "rename"} => partial = run
  /\ pc \in {"sync", "remove", "rename"} => run \in whole
  /\ pc \in {"remove", "rename"} => run \in synced
  /\ pc = "rename" => target = NoFile
  /\ NoTornBackup

\* Every step of the protocol keeps it, whatever fails.
LEMMA ProtocolStep == ProtocolInv /\ [Next]_vars => ProtocolInv'
<1> SUFFICES ASSUME ProtocolInv, [Next]_vars PROVE ProtocolInv'
  OBVIOUS
<1> USE DEF ProtocolInv, NoTornBackup, fileVars, NoFile
<1>1. CASE CreatePartial BY <1>1 DEF CreatePartial
<1>2. CASE StreamOk BY <1>2 DEF StreamOk
<1>3. CASE Sync BY <1>3 DEF Sync
<1>4. CASE Remove BY <1>4 DEF Remove
<1>5. CASE Rename BY <1>5 DEF Rename
<1>6. CASE ShaOpen \/ ShaWrite BY <1>6 DEF ShaOpen, ShaWrite
<1>7. CASE SizeOpen \/ SizeWrite BY <1>7 DEF SizeOpen, SizeWrite
<1>8. CASE Crash BY <1>8 DEF Crash
<1>9. CASE StreamFails \/ SyncFails \/ RemoveFails \/ RenameFails
  BY <1>9 DEF StreamFails, SyncFails, RemoveFails, RenameFails, Failed
<1>10. CASE UNCHANGED vars BY <1>10 DEF vars
<1>11. QED
  BY <1>1, <1>2, <1>3, <1>4, <1>5, <1>6, <1>7, <1>8, <1>9, <1>10 DEF Next

LEMMA ProtocolInvariant == Spec => []ProtocolInv
<1>1. Init => ProtocolInv BY DEF Init, ProtocolInv, NoTornBackup, NoFile
<1>2. QED BY <1>1, ProtocolStep, PTL DEF Spec

\* RunToFile's promise: what stands under the final name is a complete image
\* that was flushed to disk, after any failures and crashes of any run.
THEOREM TargetIsWhole == Spec => []NoTornBackup
<1>1. ProtocolInv => NoTornBackup BY DEF ProtocolInv
<1>2. QED BY <1>1, ProtocolInvariant, PTL

\* The previous backup is not touched before the new image is complete and
\* flushed.
THEOREM OldStays == Spec => OldStaysUntilNewIsWhole
<1>1. ProtocolInv /\ [Next]_vars
        => [target' # target => partial \in whole /\ partial \in synced]_vars
  <2> SUFFICES ASSUME ProtocolInv, Next, target' # target
               PROVE  partial \in whole /\ partial \in synced
    OBVIOUS
  <2>1. Remove \/ Rename
    BY DEF Next, CreatePartial, StreamOk, Sync, ShaOpen, ShaWrite, SizeOpen,
       SizeWrite, Crash, StreamFails, SyncFails, RemoveFails, RenameFails,
       Failed, fileVars
  <2>2. pc \in {"remove", "rename"} BY <2>1 DEF Remove, Rename
  <2>3. QED BY <2>2 DEF ProtocolInv
<1>2. QED BY <1>1, ProtocolInvariant, PTL DEF Spec, OldStaysUntilNewIsWhole

\* No step of a run throws away the only complete image there is.
THEOREM OneWholeKept == Spec => KeepsOneWhole
<1>1. ProtocolInv /\ [Next]_vars
        => [HasWhole /\ run' = run => HasWhole']_vars
  <2> SUFFICES ASSUME ProtocolInv, Next, HasWhole, run' = run PROVE HasWhole'
    OBVIOUS
  <2> USE DEF HasWhole, fileVars, NoFile, ProtocolInv, NoTornBackup
  <2>1. CASE CreatePartial BY <2>1 DEF CreatePartial
  <2>2. CASE StreamOk \/ Sync BY <2>2 DEF StreamOk, Sync
  <2>3. CASE Remove BY <2>3 DEF Remove
  <2>4. CASE Rename BY <2>4 DEF Rename
  <2>5. CASE ShaOpen \/ ShaWrite \/ SizeOpen \/ SizeWrite
    BY <2>5 DEF ShaOpen, ShaWrite, SizeOpen, SizeWrite
  <2>6. CASE Crash \/ StreamFails \/ SyncFails \/ RemoveFails \/ RenameFails
    BY <2>6 DEF Crash, StreamFails, SyncFails, RemoveFails, RenameFails, Failed
  <2>7. QED BY <2>1, <2>2, <2>3, <2>4, <2>5, <2>6 DEF Next
<1>2. QED BY <1>1, ProtocolInvariant, PTL DEF Spec, KeepsOneWhole

-----------------------------------------------------------------------------
(* The sidecars                                                            *)

\* From the rename on, the final name holds this run's image, and without a
\* warning each sidecar that is behind the run is this run's.
SidecarInv ==
  /\ TypeOK
  /\ pc # "idle" => outcome # "saved" /\ run \in Runs
  /\ pc \in {"stream", "sync", "remove", "rename"} => partial = run
  /\ pc \in {"shaOpen", "shaWrite", "sizeOpen", "sizeWrite"} => target = run
  /\ pc \in {"sizeOpen", "sizeWrite"} /\ outcome = "none" => sha = run
  /\ outcome = "saved"
       => target = run /\ sha = run /\ size = run /\ run \in Runs

LEMMA SidecarInvariant == Spec => []SidecarInv
<1> USE SaveFileAssumption DEF SidecarInv, TypeOK, Runs, Torn, NoFile
<1>1. Init => SidecarInv
  <2> SUFFICES ASSUME Init PROVE SidecarInv
    OBVIOUS
  <2>1. saved \in BOOLEAN BY DEF Init
  <2>2. QED BY <2>1 DEF Init
<1>2. SidecarInv /\ [Next]_vars => SidecarInv'
  <2> SUFFICES ASSUME SidecarInv, [Next]_vars PROVE SidecarInv'
    OBVIOUS
  <2> USE DEF fileVars
  <2>1. CASE CreatePartial BY <2>1 DEF CreatePartial
  <2>2. CASE StreamOk BY <2>2 DEF StreamOk
  <2>3. CASE Sync BY <2>3 DEF Sync
  <2>4. CASE Remove BY <2>4 DEF Remove
  <2>5. CASE Rename BY <2>5 DEF Rename
  <2>6. CASE ShaOpen BY <2>6 DEF ShaOpen
  <2>7. CASE ShaWrite BY <2>7 DEF ShaWrite
  <2>8. CASE SizeOpen BY <2>8 DEF SizeOpen
  <2>9. CASE SizeWrite BY <2>9 DEF SizeWrite, Complete
  <2>10. CASE Crash BY <2>10 DEF Crash
  <2>11. CASE StreamFails \/ SyncFails \/ RemoveFails \/ RenameFails
    BY <2>11 DEF StreamFails, SyncFails, RemoveFails, RenameFails, Failed
  <2>12. CASE UNCHANGED vars BY <2>12 DEF vars
  <2>13. QED
    BY <2>1, <2>2, <2>3, <2>4, <2>5, <2>6, <2>7, <2>8, <2>9, <2>10, <2>11, <2>12
    DEF Next
<1>3. QED BY <1>1, <1>2, PTL DEF Spec

\* Type correctness for any number of runs.
THEOREM TypeCorrect == Spec => []TypeOK
<1>1. SidecarInv => TypeOK BY DEF SidecarInv
<1>2. QED BY <1>1, SidecarInvariant, PTL

\* execSaveToFile: a run without a warning leaves the sidecars of its own image.
THEOREM Described == Spec => []SavedIsDescribed
<1>1. SidecarInv => SavedIsDescribed
  BY DEF SidecarInv, SavedIsDescribed, ReadSizeFile
<1>2. QED BY <1>1, SidecarInvariant, PTL
=============================================================================
