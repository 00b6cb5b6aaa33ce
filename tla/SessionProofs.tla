---------------------------- MODULE SessionProofs ----------------------------
(***************************************************************************)
(* What a session promises before a machine is imaged or a disk is         *)
(* overwritten, for any number of disks, connections and operations.       *)
(*                                                                         *)
(* PlaceInv says where the program can be, for each way of starting it,    *)
(* and ModeInv what it can be doing there; AcceptedInv that a machine that *)
(* is not safe has been accepted before anything of it is touched; AskedInv *)
(* which questions are behind an operation, and about which disk.  MixInv   *)
(* is what an operation finds of those before it, and LogInv what its log   *)
(* holds, from the preamble to the one job it tells of.                    *)
(***************************************************************************)
EXTENDS Session, TLAPS

\* Where an operation on a remote host gets its source, target and file.
OnTheWay == {"local", "op", "source", "target", "small", "file", "device",
             "checks"}

\* Behind the question whether the machine may be imaged.
Past == OnTheWay \cup {"scan", "storage", "settings", "dest", "confirm", "start",
                       "job", "again"}

\* Before an operation that overwrites a disk.
Overwriting == {"settings", "confirm", "start", "job"}

PlaceInv ==
  /\ Menu => pc # "flags"
  /\ ~Menu => pc \notin {"menu", "op", "source", "target", "file", "device",
                         "settings", "storage", "again"}
  /\ ~Menu /\ pc # "flags" => op.mode = run.task
  /\ pc \in OnTheWay \cup {"connect", "scan"} => ~OnThisMachine
  /\ pc \in {"storage", "localScan"} => OnThisMachine
  /\ pc \notin {"menu", "flags", "end"} => op.mode # "none"
  /\ Menu /\ op.first => op.n <= MaxOps

BatchInv ==
  /\ ~Menu => ~Batch
  /\ pc = "job" /\ Batch => pick.src \in Remote
  /\ pc \in {"file", "device"} => pick.src \in Remote

ModeInv ==
  /\ pc \in {"target", "small"} \/ (pc = "local" /\ ~Menu) => Task = "clone"
  /\ pc \in {"file", "device", "checks"} => Task = "restore"
  /\ pc = "dest" => Task \in {"save", "storage"}

AcceptedInv ==
  pc \in Past \/ (pc = "localScan" /\ ~Menu) => run.yes \/ IsSafe \/ risk = Here

ShownInv == slot.shown = slot.disk \/ slot.stale

StartInv == pc \in {"start", "job"} /\ ~run.yes => "start" \in said

CloneInv ==
  Task = "clone" /\ pc \in {"small"} \cup Overwriting
    => pick.tgt = slot.disk \/ slot.stale

SmallInv ==
  Task = "clone" /\ pc \in Overwriting /\ ~run.yes
    => (pick.tgt \in Small => "small" \in said)

RestoreInv ==
  Task = "restore" /\ pc \in {"checks"} \cup Overwriting => pick.tgt \in Remote

AskedInv == ShownInv /\ StartInv /\ CloneInv /\ SmallInv /\ RestoreInv

SessionInv ==
  /\ PlaceOK /\ ConnOK /\ SlotOK /\ OpOK /\ PickOK /\ AnsOK /\ RestOK
  /\ closed \in BOOLEAN
  /\ PlaceInv /\ BatchInv /\ ModeInv /\ AcceptedInv /\ AskedInv

-----------------------------------------------------------------------------
(* What the larger steps come to                                           *)

\* scanRemoteDisks and what follows it: a restore named by -r gets its
\* target here.
LEMMA ScanRemoteShape ==
  ASSUME PickOK, ScanRemote
  PROVE  /\ UNCHANGED <<run, env, risk, slot, op, said>> /\ pc = "scan"
         /\ pick'.queue = pick.queue /\ pick'.done = pick.done
         /\ \/ pc' \in {"local", "connect", "end"}
            \/ pc' = "checks" /\ pick'.tgt \in Remote
            \/ pc' = "dest"
BY DEF PickOK, ScanRemote, Fail, GoTo, End

\* The list of the local disks is fresh, or marked as stale; -c takes its target
\* from it.
LEMMA ScanLocalShape ==
  ASSUME SlotOK, PickOK, ScanLocal
  PROVE  /\ UNCHANGED <<run, env, risk, conn, op, said>> /\ pc = "local"
         /\ slot'.shown = slot'.disk \/ slot'.stale
         /\ \/ Menu /\ pc' = "op" /\ pick' = pick
            \/ ~Menu /\ pc' \in {"end", "small", "confirm"}
               /\ pick'.tgt = slot'.shown /\ pick'.queue = pick.queue
               /\ pick'.done = pick.done
               /\ (pc' = "confirm" => pick'.tgt \notin Small)
<1>1. PICK ok \in BOOLEAN :
        slot' = [slot EXCEPT !.shown = IF ok THEN slot.disk ELSE NoDisk,
                             !.stale = ~ok]
  BY DEF ScanLocal
<1>2. slot'.shown = slot'.disk \/ slot'.stale
  <2>1. CASE ok = TRUE
    <3>1. slot'.shown = slot.disk /\ slot'.disk = slot.disk
      BY <1>1, <2>1 DEF SlotOK
    <3>2. QED BY <3>1
  <2>2. CASE ok = FALSE
    <3>1. slot'.stale = TRUE BY <1>1, <2>2 DEF SlotOK
    <3>2. QED BY <3>1
  <2>3. QED BY <2>1, <2>2
<1>3. QED BY <1>2 DEF ScanLocal, PickOK, GoTo, End

\* A new operation forgets the disks of the one before it.
LEMMA NextOpShape ==
  ASSUME SlotOK, OpOK, PlaceInv, NextOp
  PROVE  /\ UNCHANGED <<run, env, risk, conn>> /\ Menu
         /\ slot'.shown = slot'.disk \/ slot'.stale
         /\ pick' = Nothing
         /\ \/ op' = op /\ pc' = "connect"
            \/ \E m \in Tasks :
                 /\ op' = [n |-> op.n + 1, mode |-> m, first |-> FALSE, ok |-> op.ok]
                 /\ pc' = "source"
<1>1. Menu /\ pick' = Nothing /\ UNCHANGED <<run, env, risk, conn>>
  BY DEF NextOp, PlaceInv
<1>2. slot'.shown = slot'.disk \/ slot'.stale
  <2>1. CASE slot' = [slot EXCEPT !.shown = slot.disk, !.stale = FALSE]
    <3>1. slot'.shown = slot.disk /\ slot'.disk = slot.disk BY <2>1 DEF SlotOK
    <3>2. QED BY <3>1
  <2>2. CASE slot' = [slot EXCEPT !.stale = TRUE]
    <3>1. slot'.stale = TRUE BY <2>2 DEF SlotOK
    <3>2. QED BY <3>1
  <2>3. QED BY <2>1, <2>2 DEF NextOp
<1>3. op.mode \in Tasks
  BY <1>1 DEF NextOp, PlaceInv, OpOK, OnTheWay, OnThisMachine, Menu
<1>4. \/ op' = op /\ pc' = "connect"
      \/ \E m \in Tasks : StartOp(m)
  BY <1>3 DEF NextOp, GoTo, Answers
<1>5. ASSUME NEW m \in Tasks, StartOp(m)
      PROVE  /\ op' = [n |-> op.n + 1, mode |-> m, first |-> FALSE, ok |-> op.ok]
             /\ pc' = "source"
  BY <1>5 DEF StartOp, GoTo, OpOK
<1>6. QED BY <1>1, <1>2, <1>4, <1>5

\* The source, and where each kind of operation goes with it.
LEMMA SourceShape ==
  ASSUME OpOK, PickOK, PlaceInv, Source
  PROVE  /\ Menu /\ UNCHANGED <<run, op, slot, said>>
         /\ \/ pc' \in {"op", "target"}
            \/ pc' = "dest" /\ Task = "save"
            \/ pc' = "file" /\ pick'.src \in Remote
<1>1. Menu /\ Task \in Tasks
  BY DEF Source, PlaceInv, OpOK, OnTheWay, OnThisMachine, Menu, Task
<1>2. CASE \E d \in Remote : pick' = [pick EXCEPT !.src = d]
  BY <1>1, <1>2 DEF Source, GoTo, Tasks, PickOK
<1>3. CASE ~\E d \in Remote : pick' = [pick EXCEPT !.src = d]
  BY <1>1, <1>3 DEF Source, GoTo
<1>4. QED BY <1>2, <1>3

\* Nobody passes the question about an unsafe machine without a yes to it.
LEMMA ConfirmUnsafeShape ==
  ConfirmUnsafe =>
    /\ UNCHANGED <<run, env, conn, op, slot, pick, said>> /\ pc = "ready"
    /\ \/ IsSafe \/ run.yes \/ risk' = Here
       \/ pc' = "end" \/ (Menu /\ pc' \in {"connect", "localScan"})
BY DEF ConfirmUnsafe, GoTo, Refuse, End

\* Nobody passes the question about a small target without a yes to it.
LEMMA ConfirmSmallShape ==
  ConfirmSmall =>
    /\ UNCHANGED <<run, op, slot, pick>> /\ pc = "small"
    /\ \/ pc' \in {"settings", "confirm"} /\ (run.yes \/ "small" \in said')
       \/ pc' \in {"op", "end"}
BY DEF ConfirmSmall, GoTo, Refuse, End

\* Nobody passes the last question without a yes to it.
LEMMA ConfirmShape ==
  Confirm =>
    /\ UNCHANGED <<run, op, slot, pick>> /\ pc = "confirm"
    /\ said \subseteq said'
    /\ \/ pc' = "start" /\ (run.yes \/ "start" \in said')
       \/ pc' \in {"localScan", "op", "again", "end"}
BY DEF Confirm, GoTo, Refuse, End

\* A batch takes one remote disk after the other.
LEMMA StartNextShape ==
  ASSUME PickOK, PlaceInv, StartNext
  PROVE  /\ UNCHANGED <<run, op, slot, said>> /\ pc = "start"
         /\ pick'.tgt = pick.tgt
         /\ \/ pc' = "again"
            \/ pc' = "job" /\ pick'.src \in Remote
BY DEF StartNext, PickOK, GoTo

-----------------------------------------------------------------------------
(* Every step keeps the types                                              *)

\* The slot ...
LEMMA SlotStep == SessionInv /\ Next => SlotOK'
<1> SUFFICES ASSUME SessionInv, Next PROVE SlotOK'
  OBVIOUS
<1> USE SessionAssumption DEF SessionInv, SlotOK
<1>1. CASE StartMenu BY <1>1 DEF StartMenu
<1>2. CASE Flags BY <1>2 DEF Flags
<1>3. CASE Connect BY <1>3 DEF Connect, NewLog
<1>4. CASE ConfirmUnsafe BY <1>4 DEF ConfirmUnsafe
<1>5. CASE ScanRemote BY <1>5 DEF ScanRemote
<1>6. CASE ScanLocal BY <1>6 DEF ScanLocal
<1>7. CASE NextOp BY <1>7 DEF NextOp, StartOp, Note, Nothing
<1>8. CASE Source BY <1>8 DEF Source
<1>9. CASE Target BY <1>9 DEF Target
<1>10. CASE ConfirmSmall BY <1>10 DEF ConfirmSmall
<1>11. CASE RestoreFile BY <1>11 DEF RestoreFile
<1>12. CASE RestoreDevice BY <1>12 DEF RestoreDevice
<1>13. CASE RestoreChecks BY <1>13 DEF RestoreChecks
<1>14. CASE AskSettings BY <1>14 DEF AskSettings, Note, Logged
<1>15. CASE Destination BY <1>15 DEF Destination, Note
<1>16. CASE Confirm BY <1>16 DEF Confirm
<1>17. CASE Start BY <1>17 DEF Start, OpenLog
<1>18. CASE StartNext BY <1>18 DEF StartNext
<1>19. CASE JobEnds BY <1>19 DEF JobEnds, JobLog, Logged
<1>20. CASE Again BY <1>20 DEF Again, Nothing
<1>21. CASE LocalScan BY <1>21 DEF LocalScan, NewLog, NoLog, Nothing
<1>22. CASE AskStorage BY <1>22 DEF AskStorage
<1>23. CASE InputEnds BY <1>23 DEF InputEnds
<1>24. CASE Interrupt BY <1>24 DEF Interrupt, NoLog, Nothing
<1>25. CASE LinkLost BY <1>25 DEF LinkLost
<1>26. CASE Replug
  <2>1. PICK d \in Local \cup {NoDisk} :
          slot' = [disk |-> d, shown |-> slot.shown, stale |-> TRUE,
                   swaps |-> slot.swaps + 1]
    BY <1>26 DEF Replug
  <2>2. slot.swaps + 1 \in 0..MaxReplugs BY <1>26 DEF Replug
  <2>3. slot.shown \in Local \cup {NoDisk} OBVIOUS
  <2>4. slot' \in [disk : Local \cup {NoDisk}, shown : Local \cup {NoDisk},
                  stale : BOOLEAN, swaps : 0..MaxReplugs]
    <3> HIDE DEF SlotOK
    <3>1. QED BY <2>1, <2>2, <2>3
  <2>5. QED BY <2>4
<1>27. QED
  BY <1>1, <1>2, <1>3, <1>4, <1>5, <1>6, <1>7, <1>8, <1>9, <1>10, <1>11, <1>12,
     <1>13, <1>14, <1>15, <1>16, <1>17, <1>18, <1>19, <1>20, <1>21, <1>22,
     <1>23, <1>24, <1>25, <1>26
  DEF Next, Program

\* ... the connections ...
LEMMA ConnStep == SessionInv /\ Next => ConnOK'
<1> SUFFICES ASSUME SessionInv, Next PROVE ConnOK'
  OBVIOUS
<1> USE SessionAssumption DEF SessionInv, ConnOK
<1>1. CASE StartMenu BY <1>1 DEF StartMenu
<1>2. CASE Flags BY <1>2 DEF Flags
<1>3. CASE Connect BY <1>3 DEF Connect, NewLog
<1>4. CASE ConfirmUnsafe BY <1>4 DEF ConfirmUnsafe
<1>5. CASE ScanRemote BY <1>5 DEF ScanRemote
<1>6. CASE ScanLocal BY <1>6 DEF ScanLocal
<1>7. CASE NextOp BY <1>7 DEF NextOp, StartOp, Note, Nothing
<1>8. CASE Source BY <1>8 DEF Source
<1>9. CASE Target BY <1>9 DEF Target
<1>10. CASE ConfirmSmall BY <1>10 DEF ConfirmSmall
<1>11. CASE RestoreFile BY <1>11 DEF RestoreFile
<1>12. CASE RestoreDevice BY <1>12 DEF RestoreDevice
<1>13. CASE RestoreChecks BY <1>13 DEF RestoreChecks
<1>14. CASE AskSettings BY <1>14 DEF AskSettings, Note, Logged
<1>15. CASE Destination BY <1>15 DEF Destination, Note
<1>16. CASE Confirm BY <1>16 DEF Confirm
<1>17. CASE Start BY <1>17 DEF Start, OpenLog
<1>18. CASE StartNext BY <1>18 DEF StartNext
<1>19. CASE JobEnds BY <1>19 DEF JobEnds, JobLog, Logged
<1>20. CASE Again BY <1>20 DEF Again, Nothing
<1>21. CASE LocalScan BY <1>21 DEF LocalScan, NewLog, NoLog, Nothing
<1>22. CASE AskStorage BY <1>22 DEF AskStorage
<1>23. CASE InputEnds BY <1>23 DEF InputEnds
<1>24. CASE Interrupt BY <1>24 DEF Interrupt, NoLog, Nothing
<1>25. CASE LinkLost BY <1>25 DEF LinkLost
<1>26. CASE Replug BY <1>26 DEF Replug
<1>27. QED
  BY <1>1, <1>2, <1>3, <1>4, <1>5, <1>6, <1>7, <1>8, <1>9, <1>10, <1>11, <1>12,
     <1>13, <1>14, <1>15, <1>16, <1>17, <1>18, <1>19, <1>20, <1>21, <1>22,
     <1>23, <1>24, <1>25, <1>26
  DEF Next, Program

\* ... the operation ...
LEMMA OpStep == SessionInv /\ Next => OpOK'
<1> SUFFICES ASSUME SessionInv, Next PROVE OpOK'
  OBVIOUS
<1> USE SessionAssumption DEF SessionInv, OpOK, Tasks, Answers, YesNo
<1>1. CASE StartMenu BY <1>1 DEF StartMenu
<1>2. CASE Flags
  <2>1. run.task \in Tasks \cup {"storage"}
    BY <1>2 DEF Flags, PlaceInv, RestOK, Runs, Menu
  <2>2. op' = [n |-> 1, mode |-> run.task, first |-> op.first, ok |-> op.ok]
    BY <1>2 DEF Flags
  <2>3. QED BY <2>1, <2>2
<1>3. CASE Connect BY <1>3 DEF Connect, NewLog
<1>4. CASE ConfirmUnsafe BY <1>4 DEF ConfirmUnsafe
<1>5. CASE ScanRemote BY <1>5 DEF ScanRemote
<1>6. CASE ScanLocal BY <1>6 DEF ScanLocal
<1>7. CASE NextOp
  <2>1. CASE op' = op BY <2>1
  <2>2. CASE op' # op
    <3>1. Menu BY <1>7 DEF NextOp, PlaceInv
    <3>2. PICK m \in Tasks :
            op' = [n |-> op.n + 1, mode |-> m, first |-> FALSE, ok |-> op.ok]
      BY <1>7, <2>2, <3>1
      DEF NextOp, StartOp, PlaceInv, OnTheWay, OnThisMachine, Menu
    <3>3. op.n <= MaxOps BY <1>7, <2>2, <3>1 DEF NextOp, PlaceInv
    <3>4. op.n + 1 \in 0..(MaxOps + 1) BY <3>3
    <3>5. QED BY <3>2, <3>4
  <2>3. QED BY <2>1, <2>2
<1>8. CASE Source BY <1>8 DEF Source
<1>9. CASE Target BY <1>9 DEF Target
<1>10. CASE ConfirmSmall BY <1>10 DEF ConfirmSmall
<1>11. CASE RestoreFile BY <1>11 DEF RestoreFile
<1>12. CASE RestoreDevice BY <1>12 DEF RestoreDevice
<1>13. CASE RestoreChecks BY <1>13 DEF RestoreChecks
<1>14. CASE AskSettings BY <1>14 DEF AskSettings, Note, Logged
<1>15. CASE Destination BY <1>15 DEF Destination, Note
<1>16. CASE Confirm BY <1>16 DEF Confirm
<1>17. CASE Start BY <1>17 DEF Start, OpenLog
<1>18. CASE StartNext BY <1>18 DEF StartNext
<1>19. CASE JobEnds BY <1>19 DEF JobEnds, JobLog, Logged
<1>20. CASE Again BY <1>20 DEF Again, Nothing
<1>21. CASE LocalScan BY <1>21 DEF LocalScan, NewLog, NoLog, Nothing
<1>22. CASE AskStorage BY <1>22 DEF AskStorage
<1>23. CASE InputEnds BY <1>23 DEF InputEnds
<1>24. CASE Interrupt BY <1>24 DEF Interrupt, NoLog, Nothing
<1>25. CASE LinkLost BY <1>25 DEF LinkLost
<1>26. CASE Replug BY <1>26 DEF Replug
<1>27. QED
  BY <1>1, <1>2, <1>3, <1>4, <1>5, <1>6, <1>7, <1>8, <1>9, <1>10, <1>11, <1>12,
     <1>13, <1>14, <1>15, <1>16, <1>17, <1>18, <1>19, <1>20, <1>21, <1>22,
     <1>23, <1>24, <1>25, <1>26
  DEF Next, Program

\* ... the disks ...
LEMMA PickStep == SessionInv /\ Next => PickOK'
<1> SUFFICES ASSUME SessionInv, Next PROVE PickOK'
  OBVIOUS
<1> USE SessionAssumption DEF SessionInv, PickOK, SlotOK, Answers, YesNo
<1>1. CASE StartMenu BY <1>1 DEF StartMenu
<1>2. CASE Flags BY <1>2 DEF Flags
<1>3. CASE Connect BY <1>3 DEF Connect, NewLog
<1>4. CASE ConfirmUnsafe BY <1>4 DEF ConfirmUnsafe
<1>5. CASE ScanRemote BY <1>5 DEF ScanRemote
<1>6. CASE ScanLocal BY <1>6 DEF ScanLocal
<1>7. CASE NextOp BY <1>7 DEF NextOp, StartOp, Note, Nothing
<1>8. CASE Source BY <1>8 DEF Source
<1>9. CASE Target BY <1>9 DEF Target
<1>10. CASE ConfirmSmall BY <1>10 DEF ConfirmSmall
<1>11. CASE RestoreFile BY <1>11 DEF RestoreFile
<1>12. CASE RestoreDevice BY <1>12 DEF RestoreDevice
<1>13. CASE RestoreChecks BY <1>13 DEF RestoreChecks
<1>14. CASE AskSettings BY <1>14 DEF AskSettings, Note, Logged
<1>15. CASE Destination BY <1>15 DEF Destination, Note
<1>16. CASE Confirm BY <1>16 DEF Confirm
<1>17. CASE Start BY <1>17 DEF Start, OpenLog
<1>18. CASE StartNext
  <2>1. CASE pick' = pick BY <2>1
  <2>2. CASE pick' # pick
    <3>1. PICK d \in pick.queue :
            pick' = [src |-> d, tgt |-> pick.tgt, queue |-> pick.queue,
                     done |-> pick.done]
      BY <1>18, <2>2 DEF StartNext
    <3>2. QED BY <3>1
  <2>3. QED BY <2>1, <2>2
<1>19. CASE JobEnds
  <2>1. CASE Batch
    <3>1. pick.src \in Remote BY <1>19, <2>1 DEF JobEnds, BatchInv
    <3>2. pick' = [src |-> pick.src, tgt |-> pick.tgt, queue |-> pick.queue \ {pick.src},
                   done |-> pick.done \cup {pick.src}]
      BY <1>19, <2>1 DEF JobEnds
    <3>3. QED BY <3>1, <3>2
  <2>2. CASE ~Batch BY <1>19, <2>2 DEF JobEnds
  <2>3. QED BY <2>1, <2>2
<1>20. CASE Again BY <1>20 DEF Again, Nothing
<1>21. CASE LocalScan BY <1>21 DEF LocalScan, NewLog, NoLog, Nothing
<1>22. CASE AskStorage BY <1>22 DEF AskStorage
<1>23. CASE InputEnds BY <1>23 DEF InputEnds
<1>24. CASE Interrupt BY <1>24 DEF Interrupt, NoLog, Nothing
<1>25. CASE LinkLost BY <1>25 DEF LinkLost
<1>26. CASE Replug BY <1>26 DEF Replug
<1>27. QED
  BY <1>1, <1>2, <1>3, <1>4, <1>5, <1>6, <1>7, <1>8, <1>9, <1>10, <1>11, <1>12,
     <1>13, <1>14, <1>15, <1>16, <1>17, <1>18, <1>19, <1>20, <1>21, <1>22,
     <1>23, <1>24, <1>25, <1>26
  DEF Next, Program

\* ... the settings ...
LEMMA AnsStep == SessionInv /\ Next => AnsOK'
<1> SUFFICES ASSUME SessionInv, Next PROVE AnsOK'
  OBVIOUS
<1> USE SessionAssumption DEF SessionInv, AnsOK, OpOK
<1>1. CASE StartMenu BY <1>1 DEF StartMenu
<1>2. CASE Flags BY <1>2 DEF Flags
<1>3. CASE Connect BY <1>3 DEF Connect, NewLog
<1>4. CASE ConfirmUnsafe BY <1>4 DEF ConfirmUnsafe
<1>5. CASE ScanRemote BY <1>5 DEF ScanRemote
<1>6. CASE ScanLocal BY <1>6 DEF ScanLocal
<1>7. CASE NextOp
  <2>1. ans' = ans BY <1>7 DEF NextOp
  <2>2. op' = op \/ op'.n = op.n + 1 BY <1>7 DEF NextOp, StartOp
  <2>3. op.n \in Nat /\ 0..op.n \subseteq 0..op'.n BY <2>2
  <2>4. QED BY <2>1, <2>3
<1>8. CASE Source BY <1>8 DEF Source
<1>9. CASE Target BY <1>9 DEF Target
<1>10. CASE ConfirmSmall BY <1>10 DEF ConfirmSmall
<1>11. CASE RestoreFile BY <1>11 DEF RestoreFile
<1>12. CASE RestoreDevice BY <1>12 DEF RestoreDevice
<1>13. CASE RestoreChecks BY <1>13 DEF RestoreChecks
<1>14. CASE AskSettings BY <1>14 DEF AskSettings, Note, Logged
<1>15. CASE Destination BY <1>15 DEF Destination, Note
<1>16. CASE Confirm BY <1>16 DEF Confirm
<1>17. CASE Start BY <1>17 DEF Start, OpenLog
<1>18. CASE StartNext BY <1>18 DEF StartNext
<1>19. CASE JobEnds BY <1>19 DEF JobEnds, JobLog, Logged
<1>20. CASE Again BY <1>20 DEF Again, Nothing
<1>21. CASE LocalScan BY <1>21 DEF LocalScan, NewLog, NoLog, Nothing
<1>22. CASE AskStorage BY <1>22 DEF AskStorage
<1>23. CASE InputEnds BY <1>23 DEF InputEnds
<1>24. CASE Interrupt BY <1>24 DEF Interrupt, NoLog, Nothing
<1>25. CASE LinkLost BY <1>25 DEF LinkLost
<1>26. CASE Replug BY <1>26 DEF Replug
<1>27. QED
  BY <1>1, <1>2, <1>3, <1>4, <1>5, <1>6, <1>7, <1>8, <1>9, <1>10, <1>11, <1>12,
     <1>13, <1>14, <1>15, <1>16, <1>17, <1>18, <1>19, <1>20, <1>21, <1>22,
     <1>23, <1>24, <1>25, <1>26
  DEF Next, Program

\* ... the place of the program ...
LEMMA PlaceStep == SessionInv /\ Next => PlaceOK'
<1> SUFFICES ASSUME SessionInv, Next PROVE PlaceOK'
  OBVIOUS
<1> USE SessionAssumption DEF SessionInv, PlaceOK, PlaceInv, OnTheWay,
        OnThisMachine, OpOK, Task, Tasks, Menu, GoTo, End, Fail, Refuse,
        Answers, YesNo
<1>1. CASE StartMenu BY <1>1 DEF StartMenu
<1>2. CASE Flags BY <1>2 DEF Flags
<1>3. CASE Connect BY <1>3 DEF Connect, NewLog
<1>4. CASE ConfirmUnsafe BY <1>4 DEF ConfirmUnsafe
<1>5. CASE ScanRemote BY <1>5 DEF ScanRemote
<1>6. CASE ScanLocal BY <1>6 DEF ScanLocal
<1>7. CASE NextOp BY <1>7 DEF NextOp, StartOp, Note, Nothing
<1>8. CASE Source BY <1>8 DEF Source
<1>9. CASE Target BY <1>9 DEF Target
<1>10. CASE ConfirmSmall BY <1>10 DEF ConfirmSmall
<1>11. CASE RestoreFile BY <1>11 DEF RestoreFile
<1>12. CASE RestoreDevice BY <1>12 DEF RestoreDevice
<1>13. CASE RestoreChecks BY <1>13 DEF RestoreChecks
<1>14. CASE AskSettings BY <1>14 DEF AskSettings, Note, Logged
<1>15. CASE Destination BY <1>15 DEF Destination, Note
<1>16. CASE Confirm BY <1>16 DEF Confirm
<1>17. CASE Start BY <1>17 DEF Start, OpenLog
<1>18. CASE StartNext BY <1>18 DEF StartNext
<1>19. CASE JobEnds BY <1>19 DEF JobEnds, JobLog, Logged
<1>20. CASE Again BY <1>20 DEF Again, Nothing
<1>21. CASE LocalScan BY <1>21 DEF LocalScan, NewLog, NoLog, Nothing
<1>22. CASE AskStorage BY <1>22 DEF AskStorage
<1>23. CASE InputEnds BY <1>23 DEF InputEnds
<1>24. CASE Interrupt BY <1>24 DEF Interrupt, NoLog, Nothing
<1>25. CASE LinkLost BY <1>25 DEF LinkLost
<1>26. CASE Replug BY <1>26 DEF Replug
<1>27. QED
  BY <1>1, <1>2, <1>3, <1>4, <1>5, <1>6, <1>7, <1>8, <1>9, <1>10, <1>11, <1>12,
     <1>13, <1>14, <1>15, <1>16, <1>17, <1>18, <1>19, <1>20, <1>21, <1>22,
     <1>23, <1>24, <1>25, <1>26
  DEF Next, Program

\* ... the state of the input ...
LEMMA ClosedStep == SessionInv /\ Next => closed' \in BOOLEAN
BY DEF SessionInv, Next, Program, StartMenu, Flags, Connect, ConfirmUnsafe,
       ScanRemote, ScanLocal, NextOp, Source, Target, ConfirmSmall,
       RestoreFile, RestoreDevice, RestoreChecks, AskSettings, Destination,
       Confirm, Start, StartNext, JobEnds, Again, LocalScan, AskStorage,
       InputEnds, Interrupt, LinkLost, Replug

\* ... and the rest.
LEMMA RestStep == SessionInv /\ Next => RestOK'
<1> SUFFICES ASSUME SessionInv, Next PROVE RestOK'
  OBVIOUS
<1> USE SessionAssumption DEF SessionInv, RestOK, PlaceInv, ConnOK, Here,
        OnTheWay, OnThisMachine, OpOK, Task, Tasks, Menu, GoTo, End, Fail,
        Refuse
<1>1. CASE StartMenu BY <1>1 DEF StartMenu
<1>2. CASE Flags BY <1>2 DEF Flags
<1>3. CASE Connect BY <1>3 DEF Connect, NewLog
<1>4. CASE ConfirmUnsafe BY <1>4 DEF ConfirmUnsafe
<1>5. CASE ScanRemote BY <1>5 DEF ScanRemote
<1>6. CASE ScanLocal BY <1>6 DEF ScanLocal
<1>7. CASE NextOp BY <1>7 DEF NextOp, StartOp, Note, Nothing
<1>8. CASE Source BY <1>8 DEF Source
<1>9. CASE Target BY <1>9 DEF Target
<1>10. CASE ConfirmSmall
  <2>1. said' \in {said, said \cup {"small"}} BY <1>10 DEF ConfirmSmall
  <2>2. exit' \in {exit, 0} /\ UNCHANGED <<run, env, risk>> BY <1>10 DEF ConfirmSmall
  <2>3. QED BY <2>1, <2>2
<1>11. CASE RestoreFile BY <1>11 DEF RestoreFile
<1>12. CASE RestoreDevice BY <1>12 DEF RestoreDevice
<1>13. CASE RestoreChecks BY <1>13 DEF RestoreChecks
<1>14. CASE AskSettings BY <1>14 DEF AskSettings, Note, Logged
<1>15. CASE Destination BY <1>15 DEF Destination, Note
<1>16. CASE Confirm
  <2>1. said' \in {said, said \cup {"start"}} BY <1>16 DEF Confirm
  <2>2. exit' \in {exit, 0} /\ UNCHANGED <<run, env, risk>> BY <1>16 DEF Confirm
  <2>3. QED BY <2>1, <2>2
<1>17. CASE Start BY <1>17 DEF Start, OpenLog
<1>18. CASE StartNext BY <1>18 DEF StartNext
<1>19. CASE JobEnds BY <1>19 DEF JobEnds, JobLog, Logged
<1>20. CASE Again BY <1>20 DEF Again, Nothing
<1>21. CASE LocalScan BY <1>21 DEF LocalScan, NewLog, NoLog, Nothing
<1>22. CASE AskStorage BY <1>22 DEF AskStorage
<1>23. CASE InputEnds BY <1>23 DEF InputEnds
<1>24. CASE Interrupt BY <1>24 DEF Interrupt, NoLog, Nothing
<1>25. CASE LinkLost BY <1>25 DEF LinkLost
<1>26. CASE Replug BY <1>26 DEF Replug
<1>27. QED
  BY <1>1, <1>2, <1>3, <1>4, <1>5, <1>6, <1>7, <1>8, <1>9, <1>10, <1>11, <1>12,
     <1>13, <1>14, <1>15, <1>16, <1>17, <1>18, <1>19, <1>20, <1>21, <1>22,
     <1>23, <1>24, <1>25, <1>26
  DEF Next, Program

-----------------------------------------------------------------------------
(* ... and the rest of the invariant                                       *)

\* Where the program can be.
LEMMA PlaceInvStep == SessionInv /\ Next => PlaceInv'
<1> SUFFICES ASSUME SessionInv, Next PROVE PlaceInv'
  OBVIOUS
<1> USE SessionAssumption DEF SessionInv, PlaceInv, OnTheWay, OnThisMachine,
        RestOK, Runs, OpOK, Task, Tasks, Menu, GoTo, End, Fail, Refuse,
        Answers, YesNo, Batch, BatchInv
<1>1. CASE StartMenu BY <1>1 DEF StartMenu
<1>2. CASE Flags BY <1>2 DEF Flags
<1>3. CASE Connect BY <1>3 DEF Connect, NewLog
<1>4. CASE ConfirmUnsafe BY <1>4 DEF ConfirmUnsafe
<1>5. CASE ScanRemote BY <1>5 DEF ScanRemote
<1>6. CASE ScanLocal BY <1>6 DEF ScanLocal
<1>7. CASE NextOp
  <2>1. Menu /\ UNCHANGED run BY <1>7, NextOpShape
  <2>2. CASE op' = op /\ pc' = "connect" BY <1>7, <2>1, <2>2 DEF NextOp
  <2>3. CASE ~(op' = op /\ pc' = "connect")
    <3>1. PICK m \in Tasks :
            /\ op' = [n |-> op.n + 1, mode |-> m, first |-> FALSE, ok |-> op.ok]
            /\ pc' = "source"
      BY <1>7, <2>3, NextOpShape
    <3>2. QED BY <2>1, <3>1
  <2>4. QED BY <2>2, <2>3
<1>8. CASE Source BY <1>8 DEF Source
<1>9. CASE Target BY <1>9 DEF Target
<1>10. CASE ConfirmSmall BY <1>10 DEF ConfirmSmall
<1>11. CASE RestoreFile BY <1>11 DEF RestoreFile
<1>12. CASE RestoreDevice BY <1>12 DEF RestoreDevice
<1>13. CASE RestoreChecks BY <1>13 DEF RestoreChecks
<1>14. CASE AskSettings BY <1>14 DEF AskSettings, Note, Logged
<1>15. CASE Destination BY <1>15 DEF Destination, Note
<1>16. CASE Confirm BY <1>16 DEF Confirm
<1>17. CASE Start BY <1>17 DEF Start, OpenLog
<1>18. CASE StartNext BY <1>18 DEF StartNext
<1>19. CASE JobEnds BY <1>19 DEF JobEnds, JobLog, Logged
<1>20. CASE Again BY <1>20 DEF Again, Nothing
<1>21. CASE LocalScan BY <1>21 DEF LocalScan, NewLog, NoLog, Nothing
<1>22. CASE AskStorage BY <1>22 DEF AskStorage
<1>23. CASE InputEnds BY <1>23 DEF InputEnds
<1>24. CASE Interrupt BY <1>24 DEF Interrupt, Prompts, Menu, NoLog, Nothing
<1>25. CASE LinkLost BY <1>25 DEF LinkLost
<1>26. CASE Replug BY <1>26 DEF Replug
<1>27. QED
  BY <1>1, <1>2, <1>3, <1>4, <1>5, <1>6, <1>7, <1>8, <1>9, <1>10, <1>11, <1>12,
     <1>13, <1>14, <1>15, <1>16, <1>17, <1>18, <1>19, <1>20, <1>21, <1>22,
     <1>23, <1>24, <1>25, <1>26
  DEF Next, Program

\* Which disks a batch goes through.
LEMMA BatchInvStep == SessionInv /\ Next => BatchInv'
<1> SUFFICES ASSUME SessionInv, Next PROVE BatchInv'
  OBVIOUS
<1> USE SessionAssumption DEF SessionInv, BatchInv, PickOK, Batch, PlaceInv,
        OnTheWay, OnThisMachine, RestOK, Runs, OpOK, Task, Tasks, Menu, GoTo,
        End, Fail, Refuse, Answers, YesNo
<1>1. CASE StartMenu BY <1>1 DEF StartMenu
<1>2. CASE Flags BY <1>2 DEF Flags
<1>3. CASE Connect BY <1>3 DEF Connect, NewLog
<1>4. CASE ConfirmUnsafe BY <1>4 DEF ConfirmUnsafe
<1>5. CASE ScanRemote
  BY <1>5, ScanRemoteShape
<1>6. CASE ScanLocal BY <1>6 DEF ScanLocal
<1>7. CASE NextOp BY <1>7 DEF NextOp, StartOp, Note, Nothing
<1>8. CASE Source
  BY <1>8, SourceShape
<1>9. CASE Target BY <1>9 DEF Target
<1>10. CASE ConfirmSmall BY <1>10 DEF ConfirmSmall
<1>11. CASE RestoreFile BY <1>11 DEF RestoreFile
<1>12. CASE RestoreDevice BY <1>12 DEF RestoreDevice
<1>13. CASE RestoreChecks BY <1>13 DEF RestoreChecks
<1>14. CASE AskSettings BY <1>14 DEF AskSettings, Note, Logged
<1>15. CASE Destination BY <1>15 DEF Destination, Note
<1>16. CASE Confirm BY <1>16 DEF Confirm
<1>17. CASE Start BY <1>17 DEF Start, OpenLog
<1>18. CASE StartNext
  <2>1. Menu /\ UNCHANGED run BY <1>18 DEF StartNext
  <2>2. QED BY <1>18, <2>1, StartNextShape
<1>19. CASE JobEnds BY <1>19 DEF JobEnds, JobLog, Logged
<1>20. CASE Again BY <1>20 DEF Again, Nothing
<1>21. CASE LocalScan BY <1>21 DEF LocalScan, NewLog, NoLog, Nothing
<1>22. CASE AskStorage BY <1>22 DEF AskStorage
<1>23. CASE InputEnds BY <1>23 DEF InputEnds
<1>24. CASE Interrupt BY <1>24 DEF Interrupt, NoLog, Nothing
<1>25. CASE LinkLost BY <1>25 DEF LinkLost
<1>26. CASE Replug BY <1>26 DEF Replug
<1>27. QED
  BY <1>1, <1>2, <1>3, <1>4, <1>5, <1>6, <1>7, <1>8, <1>9, <1>10, <1>11, <1>12,
     <1>13, <1>14, <1>15, <1>16, <1>17, <1>18, <1>19, <1>20, <1>21, <1>22,
     <1>23, <1>24, <1>25, <1>26
  DEF Next, Program

\* What it can be doing.
LEMMA ModeInvStep == SessionInv /\ Next => ModeInv'
<1> SUFFICES ASSUME SessionInv, Next PROVE ModeInv'
  OBVIOUS
<1> USE SessionAssumption DEF SessionInv, ModeInv, PlaceInv, OnTheWay,
        OnThisMachine, RestOK, Runs, OpOK, Task, Tasks, Menu, GoTo, End, Fail,
        Refuse, Answers, YesNo
<1>1. CASE StartMenu BY <1>1 DEF StartMenu
<1>2. CASE Flags BY <1>2 DEF Flags
<1>3. CASE Connect BY <1>3 DEF Connect, NewLog
<1>4. CASE ConfirmUnsafe BY <1>4 DEF ConfirmUnsafe
<1>5. CASE ScanRemote BY <1>5 DEF ScanRemote
<1>6. CASE ScanLocal BY <1>6 DEF ScanLocal
<1>7. CASE NextOp BY <1>7 DEF NextOp, StartOp, Note, Nothing
<1>8. CASE Source BY <1>8 DEF Source
<1>9. CASE Target BY <1>9 DEF Target
<1>10. CASE ConfirmSmall BY <1>10 DEF ConfirmSmall
<1>11. CASE RestoreFile BY <1>11 DEF RestoreFile
<1>12. CASE RestoreDevice BY <1>12 DEF RestoreDevice
<1>13. CASE RestoreChecks BY <1>13 DEF RestoreChecks
<1>14. CASE AskSettings BY <1>14 DEF AskSettings, Note, Logged
<1>15. CASE Destination BY <1>15 DEF Destination, Note
<1>16. CASE Confirm BY <1>16 DEF Confirm
<1>17. CASE Start BY <1>17 DEF Start, OpenLog
<1>18. CASE StartNext BY <1>18 DEF StartNext
<1>19. CASE JobEnds BY <1>19 DEF JobEnds, JobLog, Logged
<1>20. CASE Again BY <1>20 DEF Again, Nothing
<1>21. CASE LocalScan BY <1>21 DEF LocalScan, NewLog, NoLog, Nothing
<1>22. CASE AskStorage BY <1>22 DEF AskStorage
<1>23. CASE InputEnds BY <1>23 DEF InputEnds
<1>24. CASE Interrupt BY <1>24 DEF Interrupt, NoLog, Nothing
<1>25. CASE LinkLost BY <1>25 DEF LinkLost
<1>26. CASE Replug BY <1>26 DEF Replug
<1>27. QED
  BY <1>1, <1>2, <1>3, <1>4, <1>5, <1>6, <1>7, <1>8, <1>9, <1>10, <1>11, <1>12,
     <1>13, <1>14, <1>15, <1>16, <1>17, <1>18, <1>19, <1>20, <1>21, <1>22,
     <1>23, <1>24, <1>25, <1>26
  DEF Next, Program

\* What has been accepted.
LEMMA AcceptedInvStep == SessionInv /\ Next => AcceptedInv'
<1> SUFFICES ASSUME SessionInv, Next PROVE AcceptedInv'
  OBVIOUS
<1> USE SessionAssumption DEF SessionInv, AcceptedInv, Past, IsSafe, Here,
        ConnOK, PlaceInv, OnTheWay, OnThisMachine, RestOK, Runs, OpOK, Task,
        Tasks, Menu, GoTo, End, Fail, Refuse, Answers, YesNo
<1>1. CASE StartMenu BY <1>1 DEF StartMenu
<1>2. CASE Flags BY <1>2 DEF Flags
<1>3. CASE Connect BY <1>3 DEF Connect, NewLog
<1>4. CASE ConfirmUnsafe
  <2>1. UNCHANGED <<run, env, conn, op>> BY <1>4, ConfirmUnsafeShape
  <2>2. Here' = Here /\ IsSafe' = IsSafe BY <2>1
  <2>3. CASE pc' = "end" \/ (Menu /\ pc' \in {"connect", "localScan"})
    BY <2>1, <2>3
  <2>4. CASE IsSafe \/ run.yes \/ risk' = Here BY <2>1, <2>2, <2>4
  <2>5. QED BY <1>4, <2>3, <2>4, ConfirmUnsafeShape
<1>5. CASE ScanRemote BY <1>5 DEF ScanRemote
<1>6. CASE ScanLocal BY <1>6 DEF ScanLocal
<1>7. CASE NextOp
  <2>1. UNCHANGED <<env, risk, run, conn>> /\ Menu /\ ~OnThisMachine
    BY <1>7, NextOpShape DEF NextOp
  <2>2. CASE op' = op BY <1>7, <2>1, <2>2 DEF NextOp
  <2>3. CASE op' # op
    <3>1. PICK m \in Tasks :
            op' = [n |-> op.n + 1, mode |-> m, first |-> FALSE, ok |-> op.ok]
      BY <1>7, <2>3, NextOpShape
    <3>2. ~OnThisMachine' BY <2>1, <3>1
    <3>3. Here' = Here BY <2>1, <3>2
    <3>4. QED BY <1>7, <2>1, <3>3 DEF NextOp
  <2>4. QED BY <2>2, <2>3
<1>8. CASE Source BY <1>8 DEF Source
<1>9. CASE Target BY <1>9 DEF Target
<1>10. CASE ConfirmSmall BY <1>10 DEF ConfirmSmall
<1>11. CASE RestoreFile BY <1>11 DEF RestoreFile
<1>12. CASE RestoreDevice BY <1>12 DEF RestoreDevice
<1>13. CASE RestoreChecks BY <1>13 DEF RestoreChecks
<1>14. CASE AskSettings BY <1>14 DEF AskSettings, Note, Logged
<1>15. CASE Destination BY <1>15 DEF Destination, Note
<1>16. CASE Confirm BY <1>16 DEF Confirm
<1>17. CASE Start BY <1>17 DEF Start, OpenLog
<1>18. CASE StartNext BY <1>18 DEF StartNext
<1>19. CASE JobEnds BY <1>19 DEF JobEnds, JobLog, Logged
<1>20. CASE Again BY <1>20 DEF Again, Nothing
<1>21. CASE LocalScan BY <1>21 DEF LocalScan, NewLog, NoLog, Nothing
<1>22. CASE AskStorage BY <1>22 DEF AskStorage
<1>23. CASE InputEnds BY <1>23 DEF InputEnds
<1>24. CASE Interrupt BY <1>24 DEF Interrupt, NoLog, Nothing
<1>25. CASE LinkLost BY <1>25 DEF LinkLost
<1>26. CASE Replug BY <1>26 DEF Replug
<1>27. QED
  BY <1>1, <1>2, <1>3, <1>4, <1>5, <1>6, <1>7, <1>8, <1>9, <1>10, <1>11, <1>12,
     <1>13, <1>14, <1>15, <1>16, <1>17, <1>18, <1>19, <1>20, <1>21, <1>22,
     <1>23, <1>24, <1>25, <1>26
  DEF Next, Program

\* What has been asked.
LEMMA AskedInvStep == SessionInv /\ Next => AskedInv'
<1> SUFFICES ASSUME SessionInv, Next PROVE AskedInv'
  OBVIOUS
<1> USE SessionAssumption DEF SessionInv, AskedInv, ShownInv, StartInv,
        CloneInv, SmallInv, RestoreInv, Overwriting, SlotOK, PickOK, ModeInv,
        BatchInv, Batch, PlaceInv, OnTheWay, OnThisMachine, RestOK, Runs, OpOK,
        Task, Tasks, Menu, GoTo, End, Fail, Refuse, Answers, YesNo
<1>1. CASE StartMenu BY <1>1 DEF StartMenu
<1>2. CASE Flags BY <1>2 DEF Flags
<1>3. CASE Connect BY <1>3 DEF Connect, NewLog
<1>4. CASE ConfirmUnsafe BY <1>4 DEF ConfirmUnsafe
<1>5. CASE ScanRemote
  <2>1. ShownInv' BY <1>5, ScanRemoteShape
  <2>2. StartInv' BY <1>5, ScanRemoteShape
  <2>3. CloneInv' BY <1>5, ScanRemoteShape
  <2>4. SmallInv' BY <1>5, ScanRemoteShape
  <2>5. RestoreInv' BY <1>5, ScanRemoteShape
  <2>6. QED BY <2>1, <2>2, <2>3, <2>4, <2>5 DEF AskedInv
<1>6. CASE ScanLocal
  <2>1. ShownInv' BY <1>6, ScanLocalShape
  <2>2. StartInv' BY <1>6, ScanLocalShape
  <2>3. CloneInv' BY <1>6, ScanLocalShape
  <2>4. SmallInv' BY <1>6, ScanLocalShape
  <2>5. RestoreInv' BY <1>6, ScanLocalShape
  <2>6. QED BY <2>1, <2>2, <2>3, <2>4, <2>5 DEF AskedInv
<1>7. CASE NextOp
  <2>1. ShownInv' BY <1>7, NextOpShape
  <2>2. StartInv' BY <1>7, NextOpShape
  <2>3. CloneInv' BY <1>7, NextOpShape
  <2>4. SmallInv' BY <1>7, NextOpShape
  <2>5. RestoreInv' BY <1>7, NextOpShape
  <2>6. QED BY <2>1, <2>2, <2>3, <2>4, <2>5 DEF AskedInv
<1>8. CASE Source BY <1>8 DEF Source
<1>9. CASE Target BY <1>9 DEF Target
<1>10. CASE ConfirmSmall
  <2>1. ShownInv' BY <1>10, ConfirmSmallShape
  <2>2. StartInv' BY <1>10, ConfirmSmallShape
  <2>3. CloneInv' BY <1>10, ConfirmSmallShape
  <2>4. SmallInv' BY <1>10, ConfirmSmallShape
  <2>5. RestoreInv' BY <1>10, ConfirmSmallShape
  <2>6. QED BY <2>1, <2>2, <2>3, <2>4, <2>5 DEF AskedInv
<1>11. CASE RestoreFile BY <1>11 DEF RestoreFile
<1>12. CASE RestoreDevice BY <1>12 DEF RestoreDevice
<1>13. CASE RestoreChecks BY <1>13 DEF RestoreChecks
<1>14. CASE AskSettings BY <1>14 DEF AskSettings, Note, Logged
<1>15. CASE Destination BY <1>15 DEF Destination, Note
<1>16. CASE Confirm
  <2>1. ShownInv' BY <1>16, ConfirmShape
  <2>2. StartInv' BY <1>16, ConfirmShape
  <2>3. CloneInv' BY <1>16, ConfirmShape
  <2>4. SmallInv' BY <1>16, ConfirmShape
  <2>5. RestoreInv' BY <1>16, ConfirmShape
  <2>6. QED BY <2>1, <2>2, <2>3, <2>4, <2>5 DEF AskedInv
<1>17. CASE Start BY <1>17 DEF Start, OpenLog
<1>18. CASE StartNext
  <2>1. ShownInv' BY <1>18, StartNextShape
  <2>2. StartInv' BY <1>18, StartNextShape
  <2>3. CloneInv' BY <1>18, StartNextShape
  <2>4. SmallInv' BY <1>18, StartNextShape
  <2>5. RestoreInv' BY <1>18, StartNextShape
  <2>6. QED BY <2>1, <2>2, <2>3, <2>4, <2>5 DEF AskedInv
<1>19. CASE JobEnds BY <1>19 DEF JobEnds, JobLog, Logged
<1>20. CASE Again BY <1>20 DEF Again, Nothing
<1>21. CASE LocalScan BY <1>21 DEF LocalScan, NewLog, NoLog, Nothing
<1>22. CASE AskStorage BY <1>22 DEF AskStorage
<1>23. CASE InputEnds BY <1>23 DEF InputEnds
<1>24. CASE Interrupt BY <1>24 DEF Interrupt, NoLog, Nothing
<1>25. CASE LinkLost BY <1>25 DEF LinkLost
<1>26. CASE Replug BY <1>26 DEF Replug
<1>27. QED
  BY <1>1, <1>2, <1>3, <1>4, <1>5, <1>6, <1>7, <1>8, <1>9, <1>10, <1>11, <1>12,
     <1>13, <1>14, <1>15, <1>16, <1>17, <1>18, <1>19, <1>20, <1>21, <1>22,
     <1>23, <1>24, <1>25, <1>26
  DEF Next, Program

-----------------------------------------------------------------------------
(* The theorems                                                            *)

\* SessionInv holds at the start ...
LEMMA InitInv == Init => SessionInv
<1> SUFFICES ASSUME Init PROVE SessionInv
  OBVIOUS
<1> USE SessionAssumption DEF Init, Menu
<1>0. MaxOps \in Nat /\ MaxConns \in Nat /\ MaxReplugs \in Nat
  OBVIOUS
<1>1. PlaceOK /\ ConnOK /\ OpOK /\ PickOK /\ closed \in BOOLEAN
  <2>1. PlaceOK /\ closed \in BOOLEAN BY DEF PlaceOK
  <2>2. ConnOK BY <1>0 DEF ConnOK
  <2>3. OpOK BY <1>0 DEF OpOK
  <2>4. PickOK BY DEF PickOK, Nothing
  <2>5. QED BY <2>1, <2>2, <2>3, <2>4
<1>2. SlotOK
  <2>1. 0 \in 0..MaxReplugs BY <1>0
  <2>2. PICK d \in Local :
          slot = [disk |-> d, shown |-> NoDisk, stale |-> TRUE, swaps |-> 0]
    OBVIOUS
  <2>3. QED BY <2>1, <2>2 DEF SlotOK
<1>3. AnsOK
  BY DEF AnsOK
<1>4. RestOK
  BY DEF RestOK
<1>5. PlaceInv
  BY DEF PlaceInv, OnTheWay
<1>6. BatchInv
  BY DEF BatchInv, Batch, Nothing
<1>7. ModeInv /\ AcceptedInv
  BY DEF ModeInv, AcceptedInv, Past, OnTheWay
<1>8. AskedInv
  BY DEF AskedInv, ShownInv, StartInv, CloneInv, SmallInv, RestoreInv,
         Overwriting
<1>9. QED
  BY <1>1, <1>2, <1>3, <1>4, <1>5, <1>6, <1>7, <1>8 DEF SessionInv

\* ... stays if nothing happens ...
LEMMA StutterInv == SessionInv /\ UNCHANGED vars => SessionInv'
<1> SUFFICES ASSUME SessionInv, UNCHANGED vars PROVE SessionInv'
  OBVIOUS
<1> USE DEF vars
<1>1. (PlaceOK /\ ConnOK /\ SlotOK /\ OpOK /\ PickOK /\ AnsOK /\ RestOK)'
  BY DEF SessionInv, PlaceOK, ConnOK, SlotOK, OpOK, PickOK, AnsOK, RestOK
<1>2. (closed \in BOOLEAN)'
  BY DEF SessionInv
<1>3. PlaceInv' /\ BatchInv' /\ ModeInv'
  BY DEF SessionInv, PlaceInv, BatchInv, ModeInv, Menu, Task, Batch,
         OnThisMachine
<1>4. AcceptedInv'
  BY DEF SessionInv, AcceptedInv, Menu, IsSafe, Here, OnThisMachine
<1>5. AskedInv'
  BY DEF SessionInv, AskedInv, ShownInv, StartInv, CloneInv, SmallInv,
         RestoreInv, Menu, Task
<1>6. QED BY <1>1, <1>2, <1>3, <1>4, <1>5 DEF SessionInv

\* ... and is an invariant.
LEMMA SessionInvariant == Spec => []SessionInv
<1>1. SessionInv /\ Next => SessionInv'
  BY PlaceStep, ConnStep, SlotStep, OpStep, PickStep, AnsStep, RestStep,
     ClosedStep, PlaceInvStep, BatchInvStep, ModeInvStep, AcceptedInvStep,
     AskedInvStep
  DEF SessionInv
<1>2. SessionInv /\ [Next]_vars => SessionInv' BY <1>1, StutterInv
<1>3. QED BY InitInv, <1>2, PTL DEF Spec

\* Every variable but the log keeps its type, however many operations and
\* connections a session has.
THEOREM TypeCorrect == Spec => []TypeOK
<1>1. SessionInv => TypeOK BY DEF SessionInv, TypeOK
<1>2. QED BY <1>1, SessionInvariant, PTL

\* confirmUnsafeRemote, and its local twin: no machine that does not run from RAM
\* is imaged, or written to, unless the user accepted that for this connection or
\* this disk.
THEOREM Accepted == Spec => []UnsafeIsAccepted
<1>1. SessionInv => UnsafeIsAccepted
  BY DEF SessionInv, AcceptedInv, Past, UnsafeIsAccepted
<1>2. QED BY <1>1, SessionInvariant, PTL

\* doClone, runDirect and runRestoreToRemote: what is overwritten was named in a
\* question of this operation, and a clone goes to the disk that was shown.
THEOREM Confirmed == Spec => []OverwritesAreConfirmed
<1>1. SessionInv => OverwritesAreConfirmed
  <2> SUFFICES ASSUME SessionInv, pc = "job", Task \in {"clone", "restore"}
               PROVE  /\ ~run.yes => /\ "start" \in said
                                     /\ pick.tgt \in Small => "small" \in said
                      /\ Task = "clone" => pick.tgt = slot.disk \/ slot.stale
    BY DEF OverwritesAreConfirmed
  <2> USE DEF SessionInv, AskedInv, Overwriting
  <2>1. ~run.yes => "start" \in said BY DEF StartInv
  <2>2. CASE Task = "clone" BY <2>1, <2>2 DEF CloneInv, SmallInv
  <2>3. CASE Task = "restore"
    <3>1. pick.tgt \notin Small
      BY <2>3, SessionAssumption DEF RestoreInv
    <3>2. QED BY <2>1, <2>3, <3>1
  <2>4. QED BY <2>2, <2>3
<1>2. QED BY <1>1, SessionInvariant, PTL

-----------------------------------------------------------------------------
(* What an operation leaves to the next one                                *)

\* log is a record, so that what a step changes of it is known.
LogShapeInv ==
  /\ log = [buffer |-> log.buffer, open |-> log.open, lines |-> log.lines]
  /\ log.open \in BOOLEAN

\* A command line is one operation, and nothing is logged before it is read.
OneOpInv == /\ ~Menu /\ pc # "flags" => op.n = 1
            /\ pc = "flags" => log = NoLog

\* The settings are those of this operation once they have been asked for.
FreshInv ==
  \/ ~Menu /\ pc # "flags"
  \/ pc \in {"confirm", "start", "job"} \/ (pc = "dest" /\ OnThisMachine)
  => \A s \in Settings : ans[s] = op.n \/ (Task = "restore" /\ s # "bs")

\* Only a save from the menu takes all disks, and it takes all of them ...
AllInv ==
  Batch => Menu /\ Task = "save" /\ pc \notin {"menu", "flags"}
           /\ pick.queue \cup pick.done = Remote

\* ... and is over, once confirmed, when none is left.
SaidInv == "start" \in said => pc \in {"start", "job", "again", "op", "end"}
TriedInv == pc = "again" /\ "start" \in said /\ Batch => pick.queue = {}

\* What failed under a command line has ended the program.
ReportInv ==
  ~Menu /\ Task \in {"clone", "restore"} /\ ~op.ok => pc = "end" /\ exit = 1
  
\* There is a disk to save.
SourceInv ==
  /\ Task \in {"save", "storage"}
  /\ \/ pc \in {"storage", "dest", "settings", "confirm", "start", "job"}
     \/ pc = "ready" /\ Menu /\ OnThisMachine
  => Batch \/ pick.src \in Remote \cup Local

MixInv == LogShapeInv /\ OneOpInv /\ FreshInv /\ AllInv /\ SaidInv /\ TriedInv
          /\ ReportInv /\ SourceInv


\* A log that is made anew has the shape.
LEMMA Shaped ==
  ASSUME NEW b, NEW o \in BOOLEAN, NEW l,
         log' = [buffer |-> b, open |-> o, lines |-> l]
  PROVE  LogShapeInv'
BY DEF LogShapeInv

\* The choice of a source takes one disk or all of them.
LEMMA SourcePick ==
  ASSUME PickOK, Source
  PROVE  /\ pick'.done = pick.done
         /\ \/ pc' = "op" /\ pick' = pick
            \/ Task = "save" /\ pick'.queue = Remote
            \/ pick'.queue = pick.queue /\ pick'.src \in Remote
<1>1. \/ pc' = "op" /\ pick' = pick
      \/ Task = "save" /\ pick' = [pick EXCEPT !.queue = Remote]
      \/ \E d \in Remote : pick' = [pick EXCEPT !.src = d]
  BY DEF Source, GoTo
<1>2. CASE pc' = "op" /\ pick' = pick BY <1>2
<1>3. CASE Task = "save" /\ pick' = [pick EXCEPT !.queue = Remote]
  BY <1>3 DEF PickOK
<1>4. CASE \E d \in Remote : pick' = [pick EXCEPT !.src = d]
  BY <1>4 DEF PickOK
<1>5. QED BY <1>1, <1>2, <1>3, <1>4

\* A batch keeps what it has to do while it goes on to the next disk.
LEMMA StartNextPick ==
  ASSUME PickOK, StartNext
  PROVE  pick'.queue = pick.queue /\ pick'.done = pick.done
<1>1. pick' = pick \/ \E d \in pick.queue : pick' = [pick EXCEPT !.src = d]
  BY DEF StartNext
<1>2. QED BY <1>1 DEF PickOK

\* One operation of a command line.
LEMMA OneOpStep == SessionInv /\ MixInv /\ Next => OneOpInv'
<1> SUFFICES ASSUME SessionInv, MixInv, Next PROVE OneOpInv'
  OBVIOUS
<1> USE SessionAssumption DEF SessionInv, MixInv, OneOpInv, NoLog, PlaceInv,
        ModeInv, BatchInv, OnTheWay, OnThisMachine, RestOK, Runs, OpOK,
        PickOK, Batch, Task, Tasks, Menu, GoTo, End, Fail, Refuse, Answers,
        YesNo
<1>1. CASE StartMenu BY <1>1 DEF StartMenu
<1>2. CASE Flags BY <1>2 DEF Flags
<1>3. CASE Connect BY <1>3 DEF Connect, NewLog
<1>4. CASE ConfirmUnsafe BY <1>4 DEF ConfirmUnsafe
<1>5. CASE ScanRemote BY <1>5 DEF ScanRemote
<1>6. CASE ScanLocal BY <1>6 DEF ScanLocal
<1>7. CASE NextOp BY <1>7 DEF NextOp, StartOp, Note, Nothing
<1>8. CASE Source BY <1>8 DEF Source
<1>9. CASE Target BY <1>9 DEF Target
<1>10. CASE ConfirmSmall BY <1>10 DEF ConfirmSmall
<1>11. CASE RestoreFile BY <1>11 DEF RestoreFile
<1>12. CASE RestoreDevice BY <1>12 DEF RestoreDevice
<1>13. CASE RestoreChecks BY <1>13 DEF RestoreChecks
<1>14. CASE AskSettings BY <1>14 DEF AskSettings, Note, Logged
<1>15. CASE Destination BY <1>15 DEF Destination, Note
<1>16. CASE Confirm BY <1>16 DEF Confirm
<1>17. CASE Start BY <1>17 DEF Start, OpenLog
<1>18. CASE StartNext BY <1>18 DEF StartNext
<1>19. CASE JobEnds BY <1>19 DEF JobEnds, JobLog, Logged
<1>20. CASE Again BY <1>20 DEF Again, Nothing
<1>21. CASE LocalScan BY <1>21 DEF LocalScan, NewLog, NoLog, Nothing
<1>22. CASE AskStorage BY <1>22 DEF AskStorage
<1>23. CASE InputEnds BY <1>23 DEF InputEnds
<1>24. CASE Interrupt BY <1>24 DEF Interrupt, Prompts, Menu, NoLog, Nothing
<1>25. CASE LinkLost BY <1>25 DEF LinkLost
<1>26. CASE Replug BY <1>26 DEF Replug
<1>27. QED
  BY <1>1, <1>2, <1>3, <1>4, <1>5, <1>6, <1>7, <1>8, <1>9, <1>10, <1>11, <1>12,
     <1>13, <1>14, <1>15, <1>16, <1>17, <1>18, <1>19, <1>20, <1>21, <1>22,
     <1>23, <1>24, <1>25, <1>26
  DEF Next, Program

\* The shape of the log.
LEMMA LogShapeStep == SessionInv /\ MixInv /\ Next => LogShapeInv'
<1> SUFFICES ASSUME SessionInv, MixInv, Next PROVE LogShapeInv'
  OBVIOUS
<1> USE SessionAssumption DEF SessionInv, MixInv, LogShapeInv, NoLog
<1>1. CASE StartMenu BY <1>1 DEF StartMenu
<1>2. CASE Flags BY <1>2 DEF Flags
<1>3. CASE Connect
  <2>1. log' = log \/ \E n : log' = NewLog(n) BY <1>3 DEF Connect
  <2>2. CASE log' = log BY <2>2
  <2>3. CASE \E n : log' = NewLog(n) BY <2>3, Shaped DEF NewLog
  <2>4. QED BY <2>1, <2>2, <2>3
<1>4. CASE ConfirmUnsafe BY <1>4 DEF ConfirmUnsafe
<1>5. CASE ScanRemote BY <1>5 DEF ScanRemote
<1>6. CASE ScanLocal BY <1>6 DEF ScanLocal
<1>7. CASE NextOp BY <1>7 DEF NextOp, StartOp, Note, Nothing
<1>8. CASE Source BY <1>8 DEF Source
<1>9. CASE Target BY <1>9 DEF Target
<1>10. CASE ConfirmSmall BY <1>10 DEF ConfirmSmall
<1>11. CASE RestoreFile BY <1>11 DEF RestoreFile
<1>12. CASE RestoreDevice BY <1>12 DEF RestoreDevice
<1>13. CASE RestoreChecks BY <1>13 DEF RestoreChecks
<1>14. CASE AskSettings BY <1>14 DEF AskSettings, Note, Logged
<1>15. CASE Destination BY <1>15 DEF Destination, Note
<1>16. CASE Confirm BY <1>16 DEF Confirm
<1>17. CASE Start
  <2>1. log' = log \/ \E ok \in BOOLEAN : OpenLog(ok) BY <1>17 DEF Start
  <2>2. CASE log' = log BY <2>2
  <2>3. CASE OpenLog(TRUE) BY <2>3, Shaped DEF OpenLog
  <2>4. CASE OpenLog(FALSE) BY <2>4, Shaped DEF OpenLog
  <2>5. QED BY <2>1, <2>2, <2>3, <2>4
<1>18. CASE StartNext BY <1>18 DEF StartNext
<1>19. CASE JobEnds
  <2>1. log' = JobLog BY <1>19 DEF JobEnds
  <2>2. QED BY <2>1 DEF JobLog
<1>20. CASE Again BY <1>20 DEF Again, Nothing
<1>21. CASE LocalScan
  <2>1. log' = NoLog \/ \E n : log' = NewLog(n) BY <1>21 DEF LocalScan
  <2>2. CASE log' = NoLog BY <2>2, Shaped DEF NoLog
  <2>3. CASE \E n : log' = NewLog(n) BY <2>3, Shaped DEF NewLog
  <2>4. QED BY <2>1, <2>2, <2>3
<1>22. CASE AskStorage BY <1>22 DEF AskStorage
<1>23. CASE InputEnds BY <1>23 DEF InputEnds
<1>24. CASE Interrupt BY <1>24 DEF Interrupt, NoLog, Nothing
<1>25. CASE LinkLost BY <1>25 DEF LinkLost
<1>26. CASE Replug BY <1>26 DEF Replug
<1>27. QED
  BY <1>1, <1>2, <1>3, <1>4, <1>5, <1>6, <1>7, <1>8, <1>9, <1>10, <1>11, <1>12,
     <1>13, <1>14, <1>15, <1>16, <1>17, <1>18, <1>19, <1>20, <1>21, <1>22,
     <1>23, <1>24, <1>25, <1>26
  DEF Next, Program

\* The settings.
LEMMA FreshStep == SessionInv /\ MixInv /\ Next => FreshInv'
<1> SUFFICES ASSUME SessionInv, MixInv, Next PROVE FreshInv'
  OBVIOUS
<1> USE SessionAssumption DEF SessionInv, MixInv, FreshInv, OneOpInv,
        PlaceInv, ModeInv, BatchInv, OnTheWay, OnThisMachine, RestOK, Runs,
        OpOK, PickOK, Batch, Task, Tasks, Menu, GoTo, End, Fail, Refuse,
        Answers, YesNo
<1>1. CASE StartMenu BY <1>1 DEF StartMenu
<1>2. CASE Flags BY <1>2 DEF Flags
<1>3. CASE Connect BY <1>3 DEF Connect, NewLog
<1>4. CASE ConfirmUnsafe BY <1>4 DEF ConfirmUnsafe
<1>5. CASE ScanRemote BY <1>5 DEF ScanRemote
<1>6. CASE ScanLocal BY <1>6 DEF ScanLocal
<1>7. CASE NextOp BY <1>7 DEF NextOp, StartOp, Note, Nothing
<1>8. CASE Source BY <1>8 DEF Source
<1>9. CASE Target BY <1>9 DEF Target
<1>10. CASE ConfirmSmall
  <2>1. UNCHANGED <<run, op, ans>> /\ pc' \in {"settings", "confirm", "op", "end"}
    BY <1>10 DEF ConfirmSmall
  <2>2. Menu => pc' # "confirm" BY <1>10 DEF ConfirmSmall
  <2>3. CASE ~Menu BY <1>10, <2>1, <2>3 DEF ConfirmSmall
  <2>4. CASE Menu
    <3>1. FreshInv' BY <2>1, <2>2, <2>4
    <3>2. QED BY <3>1
  <2>5. QED BY <2>3, <2>4
<1>11. CASE RestoreFile BY <1>11 DEF RestoreFile
<1>12. CASE RestoreDevice BY <1>12 DEF RestoreDevice
<1>13. CASE RestoreChecks BY <1>13 DEF RestoreChecks
<1>14. CASE AskSettings BY <1>14 DEF AskSettings, Note, Logged
<1>15. CASE Destination BY <1>15 DEF Destination, Note
<1>16. CASE Confirm BY <1>16 DEF Confirm
<1>17. CASE Start BY <1>17 DEF Start, OpenLog
<1>18. CASE StartNext BY <1>18 DEF StartNext
<1>19. CASE JobEnds BY <1>19 DEF JobEnds, JobLog, Logged
<1>20. CASE Again BY <1>20 DEF Again, Nothing
<1>21. CASE LocalScan BY <1>21 DEF LocalScan, NewLog, NoLog, Nothing
<1>22. CASE AskStorage BY <1>22 DEF AskStorage
<1>23. CASE InputEnds BY <1>23 DEF InputEnds
<1>24. CASE Interrupt BY <1>24 DEF Interrupt, Prompts, Menu, NoLog, Nothing
<1>25. CASE LinkLost BY <1>25 DEF LinkLost
<1>26. CASE Replug BY <1>26 DEF Replug
<1>27. QED
  BY <1>1, <1>2, <1>3, <1>4, <1>5, <1>6, <1>7, <1>8, <1>9, <1>10, <1>11, <1>12,
     <1>13, <1>14, <1>15, <1>16, <1>17, <1>18, <1>19, <1>20, <1>21, <1>22,
     <1>23, <1>24, <1>25, <1>26
  DEF Next, Program

\* All disks of a batch.
LEMMA AllStep == SessionInv /\ MixInv /\ Next => AllInv'
<1> SUFFICES ASSUME SessionInv, MixInv, Next PROVE AllInv'
  OBVIOUS
<1> USE SessionAssumption DEF SessionInv, MixInv, AllInv, PlaceInv, ModeInv,
        BatchInv, OnTheWay, OnThisMachine, RestOK, Runs, OpOK, PickOK, Batch,
        Task, Tasks, Menu, GoTo, End, Fail, Refuse, Answers, YesNo
<1>1. CASE StartMenu BY <1>1 DEF StartMenu
<1>2. CASE Flags BY <1>2 DEF Flags
<1>3. CASE Connect BY <1>3 DEF Connect, NewLog
<1>4. CASE ConfirmUnsafe BY <1>4 DEF ConfirmUnsafe
<1>5. CASE ScanRemote
  BY <1>5, ScanRemoteShape
<1>6. CASE ScanLocal BY <1>6 DEF ScanLocal
<1>7. CASE NextOp BY <1>7 DEF NextOp, StartOp, Note, Nothing
<1>8. CASE Source
  <2>1. Menu /\ UNCHANGED <<run, op>> /\ pc' # "menu" /\ pc' # "flags"
    BY <1>8, SourceShape
  <2>2. QED BY <1>8, <2>1, SourcePick DEF SessionInv
<1>9. CASE Target BY <1>9 DEF Target
<1>10. CASE ConfirmSmall BY <1>10 DEF ConfirmSmall
<1>11. CASE RestoreFile BY <1>11 DEF RestoreFile
<1>12. CASE RestoreDevice BY <1>12 DEF RestoreDevice
<1>13. CASE RestoreChecks BY <1>13 DEF RestoreChecks
<1>14. CASE AskSettings BY <1>14 DEF AskSettings, Note, Logged
<1>15. CASE Destination BY <1>15 DEF Destination, Note
<1>16. CASE Confirm BY <1>16 DEF Confirm
<1>17. CASE Start BY <1>17 DEF Start, OpenLog
<1>18. CASE StartNext
  <2>1. UNCHANGED <<run, op>> /\ pc' \in {"again", "job"} BY <1>18 DEF StartNext
  <2>2. pick'.queue = pick.queue /\ pick'.done = pick.done BY <1>18, StartNextPick
  <2>3. QED BY <2>1, <2>2
<1>19. CASE JobEnds BY <1>19 DEF JobEnds, JobLog, Logged
<1>20. CASE Again BY <1>20 DEF Again, Nothing
<1>21. CASE LocalScan BY <1>21 DEF LocalScan, NewLog, NoLog, Nothing
<1>22. CASE AskStorage BY <1>22 DEF AskStorage
<1>23. CASE InputEnds BY <1>23 DEF InputEnds
<1>24. CASE Interrupt BY <1>24 DEF Interrupt, NoLog, Nothing
<1>25. CASE LinkLost BY <1>25 DEF LinkLost
<1>26. CASE Replug BY <1>26 DEF Replug
<1>27. QED
  BY <1>1, <1>2, <1>3, <1>4, <1>5, <1>6, <1>7, <1>8, <1>9, <1>10, <1>11, <1>12,
     <1>13, <1>14, <1>15, <1>16, <1>17, <1>18, <1>19, <1>20, <1>21, <1>22,
     <1>23, <1>24, <1>25, <1>26
  DEF Next, Program

\* The last question.
LEMMA SaidStep == SessionInv /\ MixInv /\ Next => SaidInv'
<1> SUFFICES ASSUME SessionInv, MixInv, Next PROVE SaidInv'
  OBVIOUS
<1> USE SessionAssumption DEF SessionInv, MixInv, SaidInv, PlaceInv, ModeInv,
        BatchInv, OnTheWay, OnThisMachine, RestOK, Runs, OpOK, PickOK, Batch,
        Task, Tasks, Menu, GoTo, End, Fail, Refuse, Answers, YesNo
<1>1. CASE StartMenu BY <1>1 DEF StartMenu
<1>2. CASE Flags BY <1>2 DEF Flags
<1>3. CASE Connect BY <1>3 DEF Connect, NewLog
<1>4. CASE ConfirmUnsafe BY <1>4 DEF ConfirmUnsafe
<1>5. CASE ScanRemote BY <1>5 DEF ScanRemote
<1>6. CASE ScanLocal BY <1>6 DEF ScanLocal
<1>7. CASE NextOp BY <1>7 DEF NextOp, StartOp, Note, Nothing
<1>8. CASE Source BY <1>8 DEF Source
<1>9. CASE Target BY <1>9 DEF Target
<1>10. CASE ConfirmSmall
  <2>1. pc = "small" BY <1>10 DEF ConfirmSmall
  <2>2. said' = said \/ said' = said \cup {"small"} BY <1>10 DEF ConfirmSmall
  <2>3. "start" \notin said BY <2>1
  <2>4. "start" \notin said' BY <2>2, <2>3
  <2>5. QED BY <2>4
<1>11. CASE RestoreFile BY <1>11 DEF RestoreFile
<1>12. CASE RestoreDevice BY <1>12 DEF RestoreDevice
<1>13. CASE RestoreChecks BY <1>13 DEF RestoreChecks
<1>14. CASE AskSettings BY <1>14 DEF AskSettings, Note, Logged
<1>15. CASE Destination BY <1>15 DEF Destination, Note
<1>16. CASE Confirm BY <1>16 DEF Confirm
<1>17. CASE Start BY <1>17 DEF Start, OpenLog
<1>18. CASE StartNext BY <1>18 DEF StartNext
<1>19. CASE JobEnds BY <1>19 DEF JobEnds, JobLog, Logged
<1>20. CASE Again BY <1>20 DEF Again, Nothing
<1>21. CASE LocalScan BY <1>21 DEF LocalScan, NewLog, NoLog, Nothing
<1>22. CASE AskStorage BY <1>22 DEF AskStorage
<1>23. CASE InputEnds BY <1>23 DEF InputEnds
<1>24. CASE Interrupt BY <1>24 DEF Interrupt, NoLog, Nothing
<1>25. CASE LinkLost BY <1>25 DEF LinkLost
<1>26. CASE Replug BY <1>26 DEF Replug
<1>27. QED
  BY <1>1, <1>2, <1>3, <1>4, <1>5, <1>6, <1>7, <1>8, <1>9, <1>10, <1>11, <1>12,
     <1>13, <1>14, <1>15, <1>16, <1>17, <1>18, <1>19, <1>20, <1>21, <1>22,
     <1>23, <1>24, <1>25, <1>26
  DEF Next, Program

\* The end of a batch.
LEMMA TriedStep == SessionInv /\ MixInv /\ Next => TriedInv'
<1> SUFFICES ASSUME SessionInv, MixInv, Next PROVE TriedInv'
  OBVIOUS
<1> USE SessionAssumption DEF SessionInv, MixInv, TriedInv, SaidInv, PlaceInv,
        ModeInv, BatchInv, OnTheWay, OnThisMachine, RestOK, Runs, OpOK,
        PickOK, Batch, Task, Tasks, Menu, GoTo, End, Fail, Refuse, Answers,
        YesNo
<1>1. CASE StartMenu BY <1>1 DEF StartMenu
<1>2. CASE Flags BY <1>2 DEF Flags
<1>3. CASE Connect BY <1>3 DEF Connect, NewLog
<1>4. CASE ConfirmUnsafe BY <1>4 DEF ConfirmUnsafe
<1>5. CASE ScanRemote BY <1>5 DEF ScanRemote
<1>6. CASE ScanLocal BY <1>6 DEF ScanLocal
<1>7. CASE NextOp BY <1>7 DEF NextOp, StartOp, Note, Nothing
<1>8. CASE Source BY <1>8 DEF Source
<1>9. CASE Target BY <1>9 DEF Target
<1>10. CASE ConfirmSmall BY <1>10 DEF ConfirmSmall
<1>11. CASE RestoreFile BY <1>11 DEF RestoreFile
<1>12. CASE RestoreDevice BY <1>12 DEF RestoreDevice
<1>13. CASE RestoreChecks BY <1>13 DEF RestoreChecks
<1>14. CASE AskSettings BY <1>14 DEF AskSettings, Note, Logged
<1>15. CASE Destination BY <1>15 DEF Destination, Note
<1>16. CASE Confirm BY <1>16 DEF Confirm
<1>17. CASE Start BY <1>17 DEF Start, OpenLog
<1>18. CASE StartNext BY <1>18 DEF StartNext
<1>19. CASE JobEnds BY <1>19 DEF JobEnds, JobLog, Logged
<1>20. CASE Again BY <1>20 DEF Again, Nothing
<1>21. CASE LocalScan BY <1>21 DEF LocalScan, NewLog, NoLog, Nothing
<1>22. CASE AskStorage BY <1>22 DEF AskStorage
<1>23. CASE InputEnds BY <1>23 DEF InputEnds
<1>24. CASE Interrupt BY <1>24 DEF Interrupt, NoLog, Nothing
<1>25. CASE LinkLost BY <1>25 DEF LinkLost
<1>26. CASE Replug BY <1>26 DEF Replug
<1>27. QED
  BY <1>1, <1>2, <1>3, <1>4, <1>5, <1>6, <1>7, <1>8, <1>9, <1>10, <1>11, <1>12,
     <1>13, <1>14, <1>15, <1>16, <1>17, <1>18, <1>19, <1>20, <1>21, <1>22,
     <1>23, <1>24, <1>25, <1>26
  DEF Next, Program

\* The exit code.
LEMMA ReportStep == SessionInv /\ MixInv /\ Next => ReportInv'
<1> SUFFICES ASSUME SessionInv, MixInv, Next PROVE ReportInv'
  OBVIOUS
<1> USE SessionAssumption DEF SessionInv, MixInv, ReportInv, PlaceInv,
        ModeInv, BatchInv, OnTheWay, OnThisMachine, RestOK, Runs, OpOK,
        PickOK, Batch, Task, Tasks, Menu, GoTo, End, Fail, Refuse, Answers,
        YesNo
<1>1. CASE StartMenu BY <1>1 DEF StartMenu
<1>2. CASE Flags BY <1>2 DEF Flags
<1>3. CASE Connect BY <1>3 DEF Connect, NewLog
<1>4. CASE ConfirmUnsafe BY <1>4 DEF ConfirmUnsafe
<1>5. CASE ScanRemote BY <1>5 DEF ScanRemote
<1>6. CASE ScanLocal BY <1>6 DEF ScanLocal
<1>7. CASE NextOp BY <1>7 DEF NextOp, StartOp, Note, Nothing
<1>8. CASE Source BY <1>8 DEF Source
<1>9. CASE Target BY <1>9 DEF Target
<1>10. CASE ConfirmSmall BY <1>10 DEF ConfirmSmall
<1>11. CASE RestoreFile BY <1>11 DEF RestoreFile
<1>12. CASE RestoreDevice BY <1>12 DEF RestoreDevice
<1>13. CASE RestoreChecks BY <1>13 DEF RestoreChecks
<1>14. CASE AskSettings BY <1>14 DEF AskSettings, Note, Logged
<1>15. CASE Destination BY <1>15 DEF Destination, Note
<1>16. CASE Confirm BY <1>16 DEF Confirm
<1>17. CASE Start BY <1>17 DEF Start, OpenLog
<1>18. CASE StartNext BY <1>18 DEF StartNext
<1>19. CASE JobEnds BY <1>19 DEF JobEnds, JobLog, Logged
<1>20. CASE Again BY <1>20 DEF Again, Nothing
<1>21. CASE LocalScan BY <1>21 DEF LocalScan, NewLog, NoLog, Nothing
<1>22. CASE AskStorage BY <1>22 DEF AskStorage
<1>23. CASE InputEnds BY <1>23 DEF InputEnds
<1>24. CASE Interrupt BY <1>24 DEF Interrupt, Prompts, Menu, NoLog, Nothing
<1>25. CASE LinkLost BY <1>25 DEF LinkLost
<1>26. CASE Replug BY <1>26 DEF Replug
<1>27. QED
  BY <1>1, <1>2, <1>3, <1>4, <1>5, <1>6, <1>7, <1>8, <1>9, <1>10, <1>11, <1>12,
     <1>13, <1>14, <1>15, <1>16, <1>17, <1>18, <1>19, <1>20, <1>21, <1>22,
     <1>23, <1>24, <1>25, <1>26
  DEF Next, Program

\* A disk to save.
LEMMA SourceStep == SessionInv /\ MixInv /\ Next => SourceInv'
<1> SUFFICES ASSUME SessionInv, MixInv, Next PROVE SourceInv'
  OBVIOUS
<1> USE SessionAssumption DEF SessionInv, MixInv, SourceInv, SlotOK, PlaceInv,
        ModeInv, BatchInv, OnTheWay, OnThisMachine, RestOK, Runs, OpOK,
        PickOK, Batch, Task, Tasks, Menu, GoTo, End, Fail, Refuse, Answers,
        YesNo
<1>1. CASE StartMenu BY <1>1 DEF StartMenu
<1>2. CASE Flags BY <1>2 DEF Flags
<1>3. CASE Connect BY <1>3 DEF Connect, NewLog
<1>4. CASE ConfirmUnsafe BY <1>4 DEF ConfirmUnsafe
<1>5. CASE ScanRemote
  <2>1. CASE pc' \in {"local", "connect", "end", "checks"}
    BY <1>5, <2>1, ScanRemoteShape
  <2>2. CASE pc' = "dest"
    <3>1. \E d \in Remote : pick' = [pick EXCEPT !.src = d,
                                     !.tgt = IF Task = "restore" THEN d ELSE NoDisk]
      BY <1>5, <2>2 DEF ScanRemote
    <3>2. pick'.src \in Remote BY <3>1
    <3>3. QED BY <3>2
  <2>3. QED BY <1>5, <2>1, <2>2, ScanRemoteShape
<1>6. CASE ScanLocal BY <1>6 DEF ScanLocal
<1>7. CASE NextOp BY <1>7 DEF NextOp, StartOp, Note, Nothing
<1>8. CASE Source
  <2>1. CASE pc' # "dest" BY <1>8, <2>1, SourceShape
  <2>2. CASE pc' = "dest"
    <3>1. pick'.queue = Remote \/ pick'.src \in Remote BY <1>8, <2>2, SourcePick
    <3>2. QED BY <3>1
  <2>3. QED BY <2>1, <2>2
<1>9. CASE Target BY <1>9 DEF Target
<1>10. CASE ConfirmSmall BY <1>10 DEF ConfirmSmall
<1>11. CASE RestoreFile BY <1>11 DEF RestoreFile
<1>12. CASE RestoreDevice BY <1>12 DEF RestoreDevice
<1>13. CASE RestoreChecks BY <1>13 DEF RestoreChecks
<1>14. CASE AskSettings BY <1>14 DEF AskSettings, Note, Logged
<1>15. CASE Destination BY <1>15 DEF Destination, Note
<1>16. CASE Confirm BY <1>16 DEF Confirm
<1>17. CASE Start BY <1>17 DEF Start, OpenLog
<1>18. CASE StartNext
  <2>1. CASE pc' = "again" BY <2>1
  <2>2. CASE pc' = "job" BY <1>18, <2>2, StartNextShape
  <2>3. QED BY <1>18, <2>1, <2>2, StartNextShape
<1>19. CASE JobEnds BY <1>19 DEF JobEnds, JobLog, Logged
<1>20. CASE Again BY <1>20 DEF Again, Nothing
<1>21. CASE LocalScan BY <1>21 DEF LocalScan, NewLog, NoLog, Nothing
<1>22. CASE AskStorage BY <1>22 DEF AskStorage
<1>23. CASE InputEnds BY <1>23 DEF InputEnds
<1>24. CASE Interrupt BY <1>24 DEF Interrupt, NoLog, Nothing
<1>25. CASE LinkLost BY <1>25 DEF LinkLost
<1>26. CASE Replug BY <1>26 DEF Replug
<1>27. QED
  BY <1>1, <1>2, <1>3, <1>4, <1>5, <1>6, <1>7, <1>8, <1>9, <1>10, <1>11, <1>12,
     <1>13, <1>14, <1>15, <1>16, <1>17, <1>18, <1>19, <1>20, <1>21, <1>22,
     <1>23, <1>24, <1>25, <1>26
  DEF Next, Program

-----------------------------------------------------------------------------
(* Whose log it is                                                         *)

\* What the preamble names is the connection, or the operation, there is.
PreambleInv ==
  pc \notin {"menu", "connect", "localScan", "flags"} /\ (pc = "end" => ~Menu)
  => \A l \in log.buffer \cup log.lines : l[1] = "preamble" => l[2] = Here[2]

\* What was chosen is in the buffer before the log is opened.
ChoiceInv ==
  /\ Logged
  /\ \/ pc \in {"confirm", "start"}
     \/ pc = "job" /\ Batch
     \/ pc = "dest" /\ Menu /\ OnThisMachine
  => <<"choice", op.n, NoDisk>> \in log.buffer

\* The buffer has no job of this operation until the operation is over.
OldInv ==
  \A l \in log.buffer : l[1] = "job" =>
    /\ l[2] \in 0..op.n
    /\ l[2] = op.n => pc \in {"again", "op", "end", "connect", "localScan", "menu"}

JobLines == {l \in log.lines : l[1] = "job" /\ l[2] = op.n}

\* An open file has the choice and no job yet, a closed one exactly one job.
LinesInv ==
  /\ log.lines # {} => pc \in {"job", "start", "again", "end"}
  /\ pc = "job" /\ ~log.open => log.lines = {}
  /\ pc = "start" /\ ~Batch => log.lines = {}
  /\ log.open => pc = "job" /\ Logged /\ JobLines = {}
  /\ log.open \/ log.lines # {} => <<"choice", op.n, NoDisk>> \in log.lines
  /\ log.lines # {} /\ ~log.open =>
       \E d \in Remote \cup Local : JobLines = {<<"job", op.n, d>>}

LogInv == PreambleInv /\ ChoiceInv /\ OldInv /\ LinesInv


\* A new operation is noted in the buffer of the connection it uses.
LEMMA NextOpLog ==
  ASSUME LogShapeInv, SlotOK, OpOK, PlaceInv, NextOp
  PROVE  /\ UNCHANGED <<run, conn>> /\ Menu /\ pc = "op" /\ ~OnThisMachine
         /\ \/ op' = op /\ log' = log /\ pc' = "connect"
            \/ \E m \in Tasks :
                 /\ op' = [n |-> op.n + 1, mode |-> m, first |-> FALSE, ok |-> op.ok]
                 /\ pc' = "source"
                 /\ log' = [buffer |-> log.buffer \cup {<<"choice", op.n + 1, NoDisk>>},
                            open |-> log.open, lines |-> {}]
<1>1. Menu /\ pc = "op" /\ ~OnThisMachine /\ UNCHANGED <<run, conn>>
  BY DEF NextOp, PlaceInv, OnTheWay
<1>2. op.mode \in Tasks
  BY <1>1 DEF NextOp, OpOK, OnThisMachine, PlaceInv, Menu
<1>3. \/ op' = op /\ log' = log /\ pc' = "connect"
      \/ \E m \in Tasks : StartOp(m)
  BY <1>2 DEF NextOp, GoTo, Answers
<1>4. ASSUME NEW m \in Tasks, StartOp(m)
      PROVE  /\ op' = [n |-> op.n + 1, mode |-> m, first |-> FALSE, ok |-> op.ok]
             /\ pc' = "source"
             /\ log' = [buffer |-> log.buffer \cup {<<"choice", op.n + 1, NoDisk>>},
                        open |-> log.open, lines |-> {}]
  <2>1. Note("choice", op.n + 1, NoDisk) =
          [buffer |-> log.buffer \cup {<<"choice", op.n + 1, NoDisk>>},
           open |-> log.open, lines |-> log.lines]
    BY DEF Note, LogShapeInv
  <2>2. [Note("choice", op.n + 1, NoDisk) EXCEPT !.lines = {}] =
          [buffer |-> log.buffer \cup {<<"choice", op.n + 1, NoDisk>>},
           open |-> log.open, lines |-> {}]
    BY <2>1
  <2>3. op' = [n |-> op.n + 1, mode |-> m, first |-> FALSE, ok |-> op.ok]
    BY <1>4 DEF StartOp, OpOK
  <2>4. QED BY <1>4, <2>2, <2>3 DEF StartOp, GoTo
<1>5. QED BY <1>1, <1>3, <1>4

\* A disk of a batch has a log of its own, that begins with the same buffer.
LEMMA StartNextLog ==
  ASSUME LogShapeInv, PickOK, StartNext
  PROVE  /\ UNCHANGED <<run, op, conn>> /\ pc = "start" /\ Batch
         /\ Batch' = Batch /\ log'.buffer = log.buffer
         /\ \/ pc' = "again" /\ log' = log
            \/ pc' = "job" /\ log'.open \in BOOLEAN
               /\ log'.lines = IF log'.open THEN log.buffer ELSE {}
<1>1. UNCHANGED <<run, op, conn>> /\ pc = "start" /\ Batch BY DEF StartNext
<1>2. Batch' = Batch BY StartNextPick DEF Batch
<1>3. \/ pc' = "again" /\ log' = log
      \/ pc' = "job" /\ \E ok \in BOOLEAN :
           log' = [log EXCEPT !.open = ok,
                              !.lines = IF ok THEN log.buffer ELSE {}]
  BY DEF StartNext, GoTo
<1>4. ASSUME NEW ok \in BOOLEAN,
             log' = [log EXCEPT !.open = ok,
                                !.lines = IF ok THEN log.buffer ELSE {}]
      PROVE  /\ log'.buffer = log.buffer /\ log'.open \in BOOLEAN
             /\ log'.lines = IF log'.open THEN log.buffer ELSE {}
  BY <1>4 DEF LogShapeInv
<1>5. QED BY <1>1, <1>2, <1>3, <1>4

\* Whose preamble it is.
LEMMA PreambleStep == SessionInv /\ MixInv /\ LogInv /\ Next => PreambleInv'
<1> SUFFICES ASSUME SessionInv, MixInv, LogInv, Next PROVE PreambleInv'
  OBVIOUS
<1> USE SessionAssumption DEF SessionInv, MixInv, LogInv, PreambleInv, Here,
        NoLog, ConnOK, OneOpInv, LogShapeInv, PlaceInv, ModeInv, BatchInv,
        OnTheWay, OnThisMachine, RestOK, Runs, OpOK, PickOK, Batch, Task,
        Tasks, Menu, GoTo, End, Fail, Refuse, Answers, YesNo
<1>1. CASE StartMenu BY <1>1 DEF StartMenu
<1>2. CASE Flags BY <1>2 DEF Flags
<1>3. CASE Connect BY <1>3 DEF Connect, NewLog
<1>4. CASE ConfirmUnsafe BY <1>4 DEF ConfirmUnsafe
<1>5. CASE ScanRemote BY <1>5 DEF ScanRemote
<1>6. CASE ScanLocal BY <1>6 DEF ScanLocal
<1>7. CASE NextOp
  <2>1. CASE op' = op BY <1>7, <2>1, NextOpLog
  <2>2. CASE op' # op
    <3>1. PICK m \in Tasks :
            /\ op' = [n |-> op.n + 1, mode |-> m, first |-> FALSE, ok |-> op.ok]
            /\ log' = [buffer |-> log.buffer \cup {<<"choice", op.n + 1, NoDisk>>},
                       open |-> log.open, lines |-> {}]
      BY <1>7, <2>2, NextOpLog
    <3>2. UNCHANGED <<run, conn>> /\ Menu /\ ~OnThisMachine /\ pc = "op"
      BY <1>7, NextOpLog
    <3>3. ~OnThisMachine' BY <3>1, <3>2
    <3>4. Here' = Here BY <3>2, <3>3
    <3>5. QED BY <3>1, <3>2, <3>4
  <2>3. QED BY <2>1, <2>2
<1>8. CASE Source BY <1>8 DEF Source
<1>9. CASE Target BY <1>9 DEF Target
<1>10. CASE ConfirmSmall BY <1>10 DEF ConfirmSmall
<1>11. CASE RestoreFile BY <1>11 DEF RestoreFile
<1>12. CASE RestoreDevice BY <1>12 DEF RestoreDevice
<1>13. CASE RestoreChecks BY <1>13 DEF RestoreChecks
<1>14. CASE AskSettings BY <1>14 DEF AskSettings, Note, Logged
<1>15. CASE Destination BY <1>15 DEF Destination, Note
<1>16. CASE Confirm BY <1>16 DEF Confirm
<1>17. CASE Start BY <1>17 DEF Start, OpenLog
<1>18. CASE StartNext
  <2>1. Here' = Here BY <1>18, StartNextLog
  <2>2. QED BY <1>18, <2>1, StartNextLog
<1>19. CASE JobEnds BY <1>19 DEF JobEnds, JobLog, Logged
<1>20. CASE Again BY <1>20 DEF Again, Nothing
<1>21. CASE LocalScan BY <1>21 DEF LocalScan, NewLog, NoLog, Nothing
<1>22. CASE AskStorage BY <1>22 DEF AskStorage
<1>23. CASE InputEnds BY <1>23 DEF InputEnds
<1>24. CASE Interrupt BY <1>24 DEF Interrupt, NoLog, Nothing
<1>25. CASE LinkLost BY <1>25 DEF LinkLost
<1>26. CASE Replug BY <1>26 DEF Replug
<1>27. QED
  BY <1>1, <1>2, <1>3, <1>4, <1>5, <1>6, <1>7, <1>8, <1>9, <1>10, <1>11, <1>12,
     <1>13, <1>14, <1>15, <1>16, <1>17, <1>18, <1>19, <1>20, <1>21, <1>22,
     <1>23, <1>24, <1>25, <1>26
  DEF Next, Program

\* The choices.
LEMMA ChoiceStep == SessionInv /\ MixInv /\ LogInv /\ Next => ChoiceInv'
<1> SUFFICES ASSUME SessionInv, MixInv, LogInv, Next PROVE ChoiceInv'
  OBVIOUS
<1> USE SessionAssumption DEF SessionInv, MixInv, LogInv, ChoiceInv, Logged,
        OneOpInv, LogShapeInv, PlaceInv, ModeInv, BatchInv, OnTheWay,
        OnThisMachine, RestOK, Runs, OpOK, PickOK, Batch, Task, Tasks, Menu,
        GoTo, End, Fail, Refuse, Answers, YesNo
<1>1. CASE StartMenu BY <1>1 DEF StartMenu
<1>2. CASE Flags BY <1>2 DEF Flags
<1>3. CASE Connect BY <1>3 DEF Connect, NewLog
<1>4. CASE ConfirmUnsafe BY <1>4 DEF ConfirmUnsafe
<1>5. CASE ScanRemote BY <1>5 DEF ScanRemote
<1>6. CASE ScanLocal BY <1>6 DEF ScanLocal
<1>7. CASE NextOp BY <1>7 DEF NextOp, StartOp, Note, Nothing
<1>8. CASE Source BY <1>8 DEF Source
<1>9. CASE Target BY <1>9 DEF Target
<1>10. CASE ConfirmSmall BY <1>10 DEF ConfirmSmall
<1>11. CASE RestoreFile BY <1>11 DEF RestoreFile
<1>12. CASE RestoreDevice BY <1>12 DEF RestoreDevice
<1>13. CASE RestoreChecks BY <1>13 DEF RestoreChecks
<1>14. CASE AskSettings BY <1>14 DEF AskSettings, Note, Logged
<1>15. CASE Destination BY <1>15 DEF Destination, Note
<1>16. CASE Confirm BY <1>16 DEF Confirm
<1>17. CASE Start BY <1>17 DEF Start, OpenLog
<1>18. CASE StartNext
  BY <1>18, StartNextLog
<1>19. CASE JobEnds BY <1>19 DEF JobEnds, JobLog, Logged
<1>20. CASE Again BY <1>20 DEF Again, Nothing
<1>21. CASE LocalScan BY <1>21 DEF LocalScan, NewLog, NoLog, Nothing
<1>22. CASE AskStorage BY <1>22 DEF AskStorage
<1>23. CASE InputEnds BY <1>23 DEF InputEnds
<1>24. CASE Interrupt BY <1>24 DEF Interrupt, NoLog, Nothing
<1>25. CASE LinkLost BY <1>25 DEF LinkLost
<1>26. CASE Replug BY <1>26 DEF Replug
<1>27. QED
  BY <1>1, <1>2, <1>3, <1>4, <1>5, <1>6, <1>7, <1>8, <1>9, <1>10, <1>11, <1>12,
     <1>13, <1>14, <1>15, <1>16, <1>17, <1>18, <1>19, <1>20, <1>21, <1>22,
     <1>23, <1>24, <1>25, <1>26
  DEF Next, Program

\* The jobs of the buffer.
LEMMA OldStep == SessionInv /\ MixInv /\ LogInv /\ Next => OldInv'
<1> SUFFICES ASSUME SessionInv, MixInv, LogInv, Next PROVE OldInv'
  OBVIOUS
<1> USE SessionAssumption DEF SessionInv, MixInv, LogInv, OldInv, NoLog,
        LogShapeInv, OneOpInv, PlaceInv, ModeInv, BatchInv, OnTheWay,
        OnThisMachine, RestOK, Runs, OpOK, PickOK, Batch, Task, Tasks, Menu,
        GoTo, End, Fail, Refuse, Answers, YesNo
<1>1. CASE StartMenu BY <1>1 DEF StartMenu
<1>2. CASE Flags BY <1>2 DEF Flags
<1>3. CASE Connect BY <1>3 DEF Connect, NewLog
<1>4. CASE ConfirmUnsafe BY <1>4 DEF ConfirmUnsafe
<1>5. CASE ScanRemote BY <1>5 DEF ScanRemote
<1>6. CASE ScanLocal BY <1>6 DEF ScanLocal
<1>7. CASE NextOp
  <2>1. CASE op' = op BY <1>7, <2>1, NextOpLog
  <2>2. CASE op' # op
    <3>1. PICK m \in Tasks :
            /\ op' = [n |-> op.n + 1, mode |-> m, first |-> FALSE, ok |-> op.ok]
            /\ log' = [buffer |-> log.buffer \cup {<<"choice", op.n + 1, NoDisk>>},
                       open |-> log.open, lines |-> {}]
      BY <1>7, <2>2, NextOpLog
    <3>2. op'.n = op.n + 1 /\ op.n \in Nat BY <3>1
    <3>3. ASSUME NEW l \in log'.buffer, l[1] = "job"
          PROVE  l[2] \in 0..op'.n /\ l[2] # op'.n
      <4>1. l \in log.buffer BY <3>1, <3>3
      <4>2. l[2] \in 0..op.n BY <3>3, <4>1
      <4>3. QED BY <3>2, <4>2
    <3>4. QED BY <3>3
  <2>3. QED BY <2>1, <2>2
<1>8. CASE Source BY <1>8 DEF Source
<1>9. CASE Target BY <1>9 DEF Target
<1>10. CASE ConfirmSmall BY <1>10 DEF ConfirmSmall
<1>11. CASE RestoreFile BY <1>11 DEF RestoreFile
<1>12. CASE RestoreDevice BY <1>12 DEF RestoreDevice
<1>13. CASE RestoreChecks BY <1>13 DEF RestoreChecks
<1>14. CASE AskSettings BY <1>14 DEF AskSettings, Note, Logged
<1>15. CASE Destination BY <1>15 DEF Destination, Note
<1>16. CASE Confirm BY <1>16 DEF Confirm
<1>17. CASE Start BY <1>17 DEF Start, OpenLog
<1>18. CASE StartNext
  BY <1>18, StartNextLog
<1>19. CASE JobEnds BY <1>19 DEF JobEnds, JobLog, Logged
<1>20. CASE Again BY <1>20 DEF Again, Nothing
<1>21. CASE LocalScan BY <1>21 DEF LocalScan, NewLog, NoLog, Nothing
<1>22. CASE AskStorage BY <1>22 DEF AskStorage
<1>23. CASE InputEnds BY <1>23 DEF InputEnds
<1>24. CASE Interrupt BY <1>24 DEF Interrupt, NoLog, Nothing
<1>25. CASE LinkLost BY <1>25 DEF LinkLost
<1>26. CASE Replug BY <1>26 DEF Replug
<1>27. QED
  BY <1>1, <1>2, <1>3, <1>4, <1>5, <1>6, <1>7, <1>8, <1>9, <1>10, <1>11, <1>12,
     <1>13, <1>14, <1>15, <1>16, <1>17, <1>18, <1>19, <1>20, <1>21, <1>22,
     <1>23, <1>24, <1>25, <1>26
  DEF Next, Program

\* The lines of the file.
LEMMA LinesStep == SessionInv /\ MixInv /\ LogInv /\ Next => LinesInv'
<1> SUFFICES ASSUME SessionInv, MixInv, LogInv, Next PROVE LinesInv'
  OBVIOUS
<1> USE SessionAssumption DEF SessionInv, MixInv, LogInv, LinesInv, JobLines,
        Logged, NoLog, LogShapeInv, PlaceInv, ModeInv, BatchInv, OnTheWay,
        OnThisMachine, RestOK, Runs, OpOK, PickOK, Batch, Task, Tasks, Menu,
        GoTo, End, Fail, Refuse, Answers, YesNo
<1>1. CASE StartMenu BY <1>1 DEF StartMenu
<1>2. CASE Flags BY <1>2 DEF Flags
<1>3. CASE Connect BY <1>3 DEF Connect, NewLog
<1>4. CASE ConfirmUnsafe BY <1>4 DEF ConfirmUnsafe
<1>5. CASE ScanRemote BY <1>5 DEF ScanRemote
<1>6. CASE ScanLocal BY <1>6 DEF ScanLocal
<1>7. CASE NextOp
  <2>1. log.lines = {} /\ ~log.open BY <1>7 DEF NextOp
  <2>2. log'.lines = {} /\ ~log'.open BY <1>7, <2>1, NextOpLog
  <2>3. QED BY <2>2
<1>8. CASE Source BY <1>8 DEF Source
<1>9. CASE Target BY <1>9 DEF Target
<1>10. CASE ConfirmSmall BY <1>10 DEF ConfirmSmall
<1>11. CASE RestoreFile BY <1>11 DEF RestoreFile
<1>12. CASE RestoreDevice BY <1>12 DEF RestoreDevice
<1>13. CASE RestoreChecks BY <1>13 DEF RestoreChecks
<1>14. CASE AskSettings BY <1>14 DEF AskSettings, Note, Logged
<1>15. CASE Destination BY <1>15 DEF Destination, Note
<1>16. CASE Confirm BY <1>16 DEF Confirm
<1>17. CASE Start
  <2>1. pc = "start" /\ pc' = "job" /\ ~Batch /\ ~log.open /\ log.lines = {}
        /\ UNCHANGED <<run, op>>
    BY <1>17 DEF Start
  <2>2. CASE ~Logged BY <1>17, <2>1, <2>2 DEF Start
  <2>3. CASE Logged
    <3>1. CASE OpenLog(TRUE)
      <4>1. log'.open /\ log'.lines = log.buffer BY <3>1 DEF OpenLog
      <4>2. JobLines' = {} BY <2>1, <4>1 DEF OldInv
      <4>3. <<"choice", op.n, NoDisk>> \in log.buffer BY <2>1, <2>3 DEF ChoiceInv
      <4>4. QED BY <2>1, <2>3, <4>1, <4>2, <4>3
    <3>2. CASE OpenLog(FALSE)
      <4>1. ~log'.open /\ log'.lines = {} BY <2>1, <3>2 DEF OpenLog
      <4>2. QED BY <4>1
    <3>3. PICK ok \in BOOLEAN : OpenLog(ok) BY <1>17, <2>3 DEF Start
    <3>4. OpenLog(TRUE) \/ OpenLog(FALSE)
      <4>1. CASE ok = TRUE BY <3>3, <4>1
      <4>2. CASE ok = FALSE BY <3>3, <4>2
      <4>3. QED BY <4>1, <4>2
    <3>5. QED BY <3>1, <3>2, <3>4
  <2>4. QED BY <2>2, <2>3
<1>18. CASE StartNext
  <2>1. CASE pc' = "again" BY <1>18, <2>1, StartNextLog
  <2>2. CASE pc' = "job"
    <3>1. log'.lines = IF log'.open THEN log.buffer ELSE {} BY <1>18, <2>2, StartNextLog
    <3>2. UNCHANGED <<run, op>> /\ pc = "start" /\ Batch BY <1>18, StartNextLog
    <3>3. Logged BY <3>2 DEF AllInv
    <3>4. \A l \in log.buffer : l[1] = "job" => l[2] # op.n BY <3>2 DEF OldInv
    <3>5. <<"choice", op.n, NoDisk>> \in log.buffer BY <3>2, <3>3 DEF ChoiceInv
    <3>6. QED BY <2>2, <3>1, <3>2, <3>3, <3>4, <3>5
  <2>3. QED BY <1>18, <2>1, <2>2, StartNextLog
<1>19. CASE JobEnds
  <2>1. log' = JobLog /\ pc = "job" /\ op'.n = op.n /\ op'.mode = op.mode
        /\ UNCHANGED run
    BY <1>19 DEF JobEnds
  <2>2. CASE ~Logged
    <3>1. log' = log /\ ~log.open /\ log.lines = {} BY <2>1, <2>2 DEF JobLog
    <3>2. QED BY <2>1, <3>1
  <2>3. CASE Logged
    <3>1. ~log'.open BY <2>1, <2>3 DEF JobLog
    <3>2. CASE ~log.open
      <4>1. log'.lines = {} BY <2>1, <2>3, <3>2 DEF JobLog
      <4>2. QED BY <3>1, <4>1
    <3>3. CASE log.open
      <4>1. log'.lines = log.lines \cup {<<"job", op.n, pick.src>>}
        BY <2>1, <2>3, <3>3 DEF JobLog
      <4>2. JobLines = {} BY <3>3
      <4>3. JobLines' = {<<"job", op.n, pick.src>>} BY <2>1, <4>1, <4>2
      <4>4. pick.src \in Remote \cup Local
        BY <2>1, <2>3 DEF SourceInv
      <4>5. pc' \in {"start", "again", "end"} /\ (pc' = "start" => Batch')
        BY <1>19, <2>3 DEF JobEnds
      <4>6. QED BY <2>1, <3>1, <3>3, <4>1, <4>3, <4>4, <4>5
    <3>4. QED BY <3>2, <3>3
  <2>4. QED BY <2>2, <2>3
<1>20. CASE Again BY <1>20 DEF Again, Nothing
<1>21. CASE LocalScan BY <1>21 DEF LocalScan, NewLog, NoLog, Nothing
<1>22. CASE AskStorage BY <1>22 DEF AskStorage
<1>23. CASE InputEnds BY <1>23 DEF InputEnds
<1>24. CASE Interrupt BY <1>24 DEF Interrupt, NoLog, Nothing
<1>25. CASE LinkLost BY <1>25 DEF LinkLost
<1>26. CASE Replug BY <1>26 DEF Replug
<1>27. QED
  BY <1>1, <1>2, <1>3, <1>4, <1>5, <1>6, <1>7, <1>8, <1>9, <1>10, <1>11, <1>12,
     <1>13, <1>14, <1>15, <1>16, <1>17, <1>18, <1>19, <1>20, <1>21, <1>22,
     <1>23, <1>24, <1>25, <1>26
  DEF Next, Program

-----------------------------------------------------------------------------
(* The theorems about several operations                                   *)

\* All of it holds at the start ...
LEMMA MixInit == Init => MixInv /\ LogInv
<1> SUFFICES ASSUME Init PROVE MixInv /\ LogInv
  OBVIOUS
<1> USE DEF Init, NoLog, Nothing
<1>1. LogShapeInv /\ OneOpInv
  BY DEF LogShapeInv, OneOpInv, Menu
<1>2. FreshInv /\ ReportInv /\ SourceInv
  BY DEF FreshInv, ReportInv, SourceInv, Menu
<1>3. AllInv /\ SaidInv /\ TriedInv
  BY DEF AllInv, SaidInv, TriedInv, Batch
<1>4. PreambleInv /\ ChoiceInv /\ OldInv /\ LinesInv
  BY DEF PreambleInv, ChoiceInv, OldInv, LinesInv
<1>5. QED BY <1>1, <1>2, <1>3, <1>4 DEF MixInv, LogInv

\* ... and stays if nothing happens.
LEMMA MixStutter == MixInv /\ LogInv /\ UNCHANGED vars => MixInv' /\ LogInv'
<1> SUFFICES ASSUME MixInv, LogInv, UNCHANGED vars PROVE MixInv' /\ LogInv'
  OBVIOUS
<1> USE DEF vars, MixInv, LogInv, Menu, Task, Batch, OnThisMachine
<1>1. LogShapeInv' /\ OneOpInv' /\ FreshInv'
  BY DEF LogShapeInv, OneOpInv, FreshInv
<1>2. AllInv' /\ SaidInv' /\ TriedInv' /\ ReportInv' /\ SourceInv'
  BY DEF AllInv, SaidInv, TriedInv, ReportInv, SourceInv
<1>3. PreambleInv' /\ ChoiceInv'
  BY DEF PreambleInv, ChoiceInv, Here, Logged
<1>4. OldInv' /\ LinesInv'
  BY DEF OldInv, LinesInv, JobLines, Logged
<1>5. QED BY <1>1, <1>2, <1>3, <1>4

LEMMA MixInvariant == Spec => [](SessionInv /\ MixInv /\ LogInv)
<1>1. SessionInv /\ MixInv /\ Next => MixInv'
  BY LogShapeStep, OneOpStep, FreshStep, AllStep, SaidStep, TriedStep,
     ReportStep, SourceStep
  DEF MixInv
<1>2. SessionInv /\ MixInv /\ LogInv /\ Next => LogInv'
  BY PreambleStep, ChoiceStep, OldStep, LinesStep DEF LogInv
<1>3. SessionInv /\ MixInv /\ LogInv /\ [Next]_vars => MixInv' /\ LogInv'
  BY <1>1, <1>2, MixStutter
<1>4. QED BY SessionInvariant, MixInit, <1>3, PTL DEF Spec

\* batchSaveToFile and runDirect: a batch that was confirmed tries every disk,
\* whatever fails, and a disk that a command line left half written is told of by
\* the exit code.
THEOREM Contained == Spec => []FailureIsContained
<1>1. SessionInv /\ MixInv => FailureIsContained
  <2> SUFFICES ASSUME SessionInv, MixInv PROVE FailureIsContained
    OBVIOUS
  <2>1. BatchTriesAll
    BY DEF SessionInv, MixInv, BatchTriesAll, TriedInv, AllInv
  <2>2. HalfWrittenIsReported BY DEF MixInv, HalfWrittenIsReported, ReportInv
  <2>3. QED BY <2>1, <2>2 DEF FailureIsContained
<1>2. QED BY <1>1, MixInvariant, PTL

\* The settings, sessionLogger and fork: a job has settings of its own operation,
\* and a log that was written has the choices and one job of that operation, and
\* the preamble of the current connection.
THEOREM OwnSettingsAndLog == Spec => []SettingsAndLogAreOwn
<1>1. MixInv /\ LogInv => SettingsAndLogAreOwn
  <2> SUFFICES ASSUME MixInv, LogInv PROVE SettingsAndLogAreOwn
    OBVIOUS
  <2>1. AnswersAreFresh BY DEF MixInv, AnswersAreFresh, FreshInv
  <2>2. LogHasItsOwn
    <3> SUFFICES ASSUME LogDone
                 PROVE  /\ <<"choice", op.n, NoDisk>> \in log.lines
                        /\ \E d \in Remote \cup Local : JobLines = {<<"job", op.n, d>>}
                        /\ \A l \in log.lines : l[1] = "preamble" => l[2] = Here[2]
      BY DEF LogHasItsOwn, JobLines
    <3>1. log.lines # {} /\ ~log.open
          /\ (pc \in {"start", "again"} \/ (pc = "end" /\ ~Menu))
      BY DEF LogDone
    <3>2. <<"choice", op.n, NoDisk>> \in log.lines
          /\ \E d \in Remote \cup Local : JobLines = {<<"job", op.n, d>>}
      BY <3>1 DEF LogInv, LinesInv
    <3>3. \A l \in log.lines : l[1] = "preamble" => l[2] = Here[2]
      BY <3>1 DEF LogInv, PreambleInv
    <3>4. QED BY <3>2, <3>3
  <2>3. QED BY <2>1, <2>2 DEF SettingsAndLogAreOwn
<1>2. QED BY <1>1, MixInvariant, PTL
=============================================================================
