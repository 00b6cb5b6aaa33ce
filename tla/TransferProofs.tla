--------------------------- MODULE TransferProofs ---------------------------
(***************************************************************************)
(* Proofs about module Transfer, for every disk size, record size, window, *)
(* set of shells and number of faults.                                     *)
(*                                                                         *)
(* ExitInv follows the exit status from dd to session.Wait; CountInv       *)
(* relates what the copy loop counts to what the sink holds; EndInv says   *)
(* from when on there is a result and what nil claims, PressInv what the   *)
(* verdict made of Ctrl+C; HealthInv is the course of a transfer in which  *)
(* nothing fails.                                                          *)
(***************************************************************************)
EXTENDS Transfer, TLAPS

ConfOK == conf \in [mode : Modes, size : Sizes, shell : Shells,
                    gnu : BOOLEAN, sigterm : BOOLEAN]

\* dd's success is known only once the stream has ended, and stays known.
HiddenExit == Compressed /\ conf.shell = "plain"

ExitInv ==
  /\ ConfOK
  /\ dd = "eof" => stream # "open"
  /\ Stillborn => dd = "dead" /\ stream = "broken"
  /\ pc \in {"stderr", "verdict"} /\ exitErr = FALSE
       => dd = "eof" \/ HiddenExit
  /\ OkIsCleanExit

\* The settings of a call never change.
LEMMA ConfConstant == [Next]_vars => conf' = conf
BY DEF Next, Main, Watchdog, Environment, vars, DdWrites, DdEnds, DdFails,
   GzipDies, LinkFalls, LinkRecovers, LinkReset, Hangup, LateAnswer,
   HeaderRead, HeaderFails, LoopTop, ReadData, ReadEnd, SinkFails, Write,
   Progress, ProgressVerdict, WatchTick, WatchVerdict, Wait, Statistics,
   Verdict, Return, Press, Cancel, ForceExit

LEMMA ExitStep == ExitInv /\ [Next]_vars => ExitInv'
<1> SUFFICES ASSUME ExitInv, [Next]_vars PROVE ExitInv'
  OBVIOUS
<1>0. conf' = conf BY ConfConstant
<1> USE <1>0, TransferAssumption
    DEF ExitInv, ConfOK, HiddenExit, Compressed, Stillborn, OkIsCleanExit,
        mainVars, hostVars, intVars, LeaveCopy
<1>1. CASE Main
  <2>1. CASE HeaderRead \/ LoopTop \/ ReadData \/ ReadEnd \/ SinkFails
    BY <2>1 DEF HeaderRead, LoopTop, ReadData, ReadEnd, SinkFails
  <2>2. CASE HeaderFails BY <2>2 DEF HeaderFails
  <2>3. CASE Write \/ Progress \/ ProgressVerdict
    <3>1. UNCHANGED <<exitErr, result, dd, stream>>
      BY <2>3 DEF Write, Progress, ProgressVerdict
    <3>2. pc' \notin {"stderr", "verdict"}
      BY <2>3 DEF Write, Progress, ProgressVerdict
    <3>3. QED BY <3>1, <3>2
  <2>4. CASE Wait BY <2>4 DEF Wait, ExitClean, Modes
  <2>5. CASE Statistics BY <2>5 DEF Statistics
  <2>6. CASE Verdict \/ Return BY <2>6 DEF Verdict, Return
  <2>7. QED BY <1>1, <2>1, <2>2, <2>3, <2>4, <2>5, <2>6 DEF Main
<1>2. CASE Environment
  <2>1. UNCHANGED <<pc, exitErr, result>>
    BY <1>2 DEF Environment, DdWrites, DdEnds, DdFails, GzipDies, LinkFalls,
       LinkRecovers, LinkReset, Hangup
  <2>2. /\ dd = "eof" => dd' = "eof"
        /\ dd' = "eof" => stream' # "open"
        /\ Stillborn => dd' = "dead" /\ stream' = "broken"
    BY <1>2 DEF Environment, DdWrites, DdEnds, DdFails, GzipDies, LinkFalls,
       LinkRecovers, LinkReset, Hangup
  <2>3. QED BY <2>1, <2>2
<1>3. CASE Watchdog \/ LateAnswer
  <2>1. UNCHANGED <<conf, mainVars, hostVars>>
    BY <1>3 DEF Watchdog, WatchTick, WatchVerdict, LateAnswer
  <2>2. QED BY <2>1
<1>4. CASE Press \/ ForceExit BY <1>4 DEF Press, ForceExit, Running
<1>5. CASE Cancel BY <1>5 DEF Cancel
<1>6. CASE UNCHANGED vars BY <1>6 DEF vars
<1>7. QED BY <1>1, <1>2, <1>3, <1>4, <1>5, <1>6 DEF Next

\* Nil means dd itself came to the end of the disk, except behind a compressor
\* on a shell that hides dd's exit status.
THEOREM CleanExit == Spec => []OkIsCleanExit
<1>1. Init => ExitInv
  BY DEF Init, ExitInv, ConfOK, Stillborn, Compressed, OkIsCleanExit
<1>2. ExitInv => OkIsCleanExit BY DEF ExitInv
<1>3. QED BY <1>1, <1>2, ExitStep, PTL DEF Spec

-----------------------------------------------------------------------------
(* The stream functions implement StreamContract                           *)

\* What was read was sent, what was counted was read, and the sink is at most
\* the chunk in hand ahead of the count; with the tee it is ahead by it.
CountInv ==
  /\ ConfOK
  /\ sent \in Nat /\ chunk \in Nat /\ written \in Nat /\ sunk \in Nat
  /\ sent <= DiskSize /\ written + chunk <= sent
  /\ written <= sunk /\ sunk <= written + chunk
  /\ pc \in {"header", "loop", "read", "progress", "probing"} => chunk = 0
  /\ pc = "write" /\ conf.mode = "tee" => sunk = written + chunk

\* A call has a result from its verdict on, and nil with a known size is given
\* only for a sink that holds the whole disk.
EndInv ==
  /\ result \in {"none", "ok", "error"}
  /\ pc \notin {"reporting", "returned", "dead"} => result = "none"
  /\ pc \in {"reporting", "returned"} =>
       /\ result # "none"
       /\ result = "ok" /\ conf.size # 0 => sunk = DiskSize

LEMMA CountStep == CountInv /\ [Next]_vars => CountInv'
<1> SUFFICES ASSUME CountInv, [Next]_vars PROVE CountInv'
  OBVIOUS
<1>0. conf' = conf BY ConfConstant
<1> USE <1>0, TransferAssumption
    DEF CountInv, ConfOK, mainVars, hostVars, intVars, LeaveCopy
<1>1. CASE HeaderRead \/ HeaderFails \/ LoopTop
  BY <1>1 DEF HeaderRead, HeaderFails, LoopTop
<1>2. CASE ReadData BY <1>2 DEF ReadData
<1>3. CASE ReadEnd \/ SinkFails BY <1>3 DEF ReadEnd, SinkFails
<1>4. CASE Write
  <2>1. /\ sent' = sent /\ chunk' = 0 /\ written' = written + chunk
        /\ sunk' = written + chunk /\ pc' # "write"
    BY <1>4 DEF Write
  <2>2. QED BY <2>1
<1>5. CASE Progress \/ ProgressVerdict
  <2>1. UNCHANGED <<chunk, written, sunk, sent>> /\ chunk = 0 /\ pc' # "write"
    BY <1>5 DEF Progress, ProgressVerdict
  <2>2. QED BY <2>1
<1>6. CASE Wait \/ Statistics \/ Verdict \/ Return
  <2>1. UNCHANGED <<chunk, written, sunk, sent>>
        /\ pc' \in {"stderr", "verdict", "reporting", "returned"}
    BY <1>6 DEF Wait, Statistics, Verdict, Return
  <2>2. QED BY <2>1
<1>7. CASE Environment
  <2>1. /\ UNCHANGED <<pc, chunk, written, sunk>>
        /\ sent' \in Nat /\ sent' <= DiskSize /\ written + chunk <= sent'
    BY <1>7 DEF Environment, DdWrites, DdEnds, DdFails, GzipDies, LinkFalls,
       LinkRecovers, LinkReset, Hangup
  <2>2. QED BY <2>1
<1>8. CASE Watchdog \/ LateAnswer \/ Press \/ Cancel
  <2>1. UNCHANGED <<pc, chunk, written, sunk, sent>>
    BY <1>8 DEF Watchdog, WatchTick, WatchVerdict, LateAnswer, Press, Cancel
  <2>2. QED BY <2>1
<1>9. CASE ForceExit BY <1>9 DEF ForceExit
<1>10. CASE UNCHANGED vars BY <1>10 DEF vars
<1>11. QED
  BY <1>1, <1>2, <1>3, <1>4, <1>5, <1>6, <1>7, <1>8, <1>9, <1>10
  DEF Next, Main

\* The test on the byte count, which needs no statistics of dd.
LEMMA WholeVerdict ==
  ASSUME CountInv, Verdict, result' = "ok", conf.size # 0
  PROVE  sunk = DiskSize
<1>1. conf.size = DiskSize BY TransferAssumption DEF CountInv, ConfOK
<1>2. ~(written < conf.size) BY DEF Verdict, Truncated
<1>3. QED BY <1>1, <1>2, TransferAssumption DEF CountInv

LEMMA EndStep == CountInv /\ EndInv /\ [Next]_vars => EndInv'
<1> SUFFICES ASSUME CountInv, EndInv, [Next]_vars PROVE EndInv'
  OBVIOUS
<1>0. conf' = conf BY ConfConstant
<1> USE <1>0 DEF EndInv
<1>1. CASE HeaderFails BY <1>1 DEF HeaderFails
<1>2. CASE Verdict
  <2>1. pc' = "reporting" /\ result' \in {"ok", "error"} /\ sunk' = sunk
    BY <1>2 DEF Verdict
  <2>2. result' = "ok" /\ conf.size # 0 => sunk = DiskSize
    BY <1>2, WholeVerdict
  <2>3. QED BY <2>1, <2>2
<1>3. CASE Return BY <1>3 DEF Return
<1>4. CASE Main /\ ~HeaderFails /\ ~Verdict /\ ~Return
  <2>1. /\ result' = result /\ pc \notin {"reporting", "returned", "dead"}
        /\ pc' \notin {"reporting", "returned", "dead"}
    BY <1>4 DEF Main, HeaderRead, LoopTop, ReadData, ReadEnd, SinkFails,
       Write, Progress, ProgressVerdict, Wait, Statistics, LeaveCopy
  <2>2. QED BY <2>1
<1>5. CASE Watchdog \/ LateAnswer \/ Environment \/ Press \/ Cancel
  <2>1. UNCHANGED <<pc, result, sunk>>
    BY <1>5 DEF Watchdog, WatchTick, WatchVerdict, LateAnswer, Press, Cancel,
       Environment, DdWrites, DdEnds, DdFails, GzipDies, LinkFalls,
       LinkRecovers, LinkReset, Hangup, mainVars
  <2>2. QED BY <2>1
<1>6. CASE ForceExit BY <1>6 DEF ForceExit
<1>7. CASE UNCHANGED vars BY <1>7 DEF vars
<1>8. QED BY <1>1, <1>2, <1>3, <1>4, <1>5, <1>6, <1>7 DEF Next

\* Each step of the transfer is a step of its contract or none of its business.
LEMMA ContractStep ==
  CountInv /\ EndInv /\ [Next]_vars => [Contract!Next]_(Contract!vars)
<1> SUFFICES ASSUME CountInv, EndInv, [Next]_vars
             PROVE  [Contract!Next]_(Contract!vars)
  OBVIOUS
<1>0. conf' = conf BY ConfConstant
<1>a. ASSUME UNCHANGED <<pc, sunk, result>>
      PROVE  UNCHANGED Contract!vars
  BY <1>a, <1>0 DEF Contract!vars, Status
<1>b. ASSUME sunk' = sunk, pc \notin {"returned", "dead"},
             pc' \notin {"returned", "dead"}
      PROVE  UNCHANGED Contract!vars
  BY <1>b DEF Contract!vars, Status
<1>1. CASE ReadData \/ Write
  <2>1. /\ sunk' \in sunk..DiskSize
        /\ pc \notin {"dead", "returned"} /\ pc' \notin {"dead", "returned"}
    BY <1>1, TransferAssumption DEF ReadData, Write, CountInv
  <2>2. Status = "running" /\ Status' = "running"
    BY <2>1 DEF Status
  <2>3. QED BY <2>1, <2>2 DEF Contract!Next, Contract!Deliver
<1>2. CASE HeaderFails
  <2>1. sunk' = sunk /\ Status = "running" /\ Status' = "error"
    BY <1>2 DEF HeaderFails, Status
  <2>2. QED BY <2>1 DEF Contract!Next, Contract!GiveUp
<1>3. CASE Return
  <2>1. /\ sunk' = sunk /\ result' = result /\ pc' = "returned"
        /\ Status = "running" /\ pc = "reporting"
    BY <1>3 DEF Return, Status
  <2>2. CASE result = "error"
    <3>1. Status' = "error" BY <2>1, <2>2 DEF Status
    <3>2. QED BY <2>1, <3>1 DEF Contract!Next, Contract!GiveUp
  <2>3. CASE result = "ok" /\ conf.size = 0
    <3>1. Status' = "unchecked" BY <1>0, <2>1, <2>3 DEF Status
    <3>2. QED BY <2>1, <3>1 DEF Contract!Next, Contract!GiveUp
  <2>4. CASE result = "ok" /\ conf.size # 0
    <3>1. Status' = "ok" BY <1>0, <2>1, <2>4 DEF Status
    <3>2. sunk = DiskSize BY <2>1, <2>4 DEF EndInv
    <3>3. QED BY <2>1, <3>1, <3>2 DEF Contract!Next, Contract!Succeed
  <2>5. result \in {"ok", "error"} BY <2>1 DEF EndInv
  <2>6. QED BY <2>2, <2>3, <2>4, <2>5
<1>4. CASE ForceExit
  <2>1. sunk' = sunk /\ Status = "running" /\ Status' = "dead"
    BY <1>4 DEF ForceExit, Running, Status
  <2>2. QED BY <2>1 DEF Contract!Next, Contract!GiveUp
<1>5. CASE Main /\ ~ReadData /\ ~Write /\ ~HeaderFails /\ ~Return
  <2>1. /\ sunk' = sunk /\ pc \notin {"returned", "dead"}
        /\ pc' \notin {"returned", "dead"}
    BY <1>5 DEF Main, HeaderRead, LoopTop, ReadEnd, SinkFails, Progress,
       ProgressVerdict, Wait, Statistics, Verdict, LeaveCopy
  <2>2. QED BY <2>1, <1>b
<1>6. CASE Watchdog \/ LateAnswer \/ Environment \/ Press \/ Cancel
  <2>1. UNCHANGED <<pc, sunk, result>>
    BY <1>6 DEF Watchdog, WatchTick, WatchVerdict, LateAnswer, Press, Cancel,
       Environment, DdWrites, DdEnds, DdFails, GzipDies, LinkFalls,
       LinkRecovers, LinkReset, Hangup, mainVars
  <2>2. QED BY <2>1, <1>a
<1>7. CASE UNCHANGED vars BY <1>7, <1>a DEF vars
<1>8. QED BY <1>1, <1>2, <1>3, <1>4, <1>5, <1>6, <1>7 DEF Next

\* The stream functions implement their contract for every disk, record and
\* window size: the sink only grows, by units of the disk in order, and nil
\* from a call that knew the size means it has them all.
THEOREM StreamsImplementContract == Spec => Implements
<1>1. Init => CountInv /\ EndInv
  BY TransferAssumption DEF Init, CountInv, ConfOK, EndInv
<1>2. Init => Contract!Init
  BY DEF Init, Contract!Init, Status
<1>3. QED
  BY <1>1, <1>2, CountStep, EndStep, ContractStep, PTL
  DEF Spec, Implements, Contract!Spec

\* What the verdict made of the flag is not undone: only a press that is handled
\* after it can set the flag beside another result.
PressInv ==
  pc \in {"reporting", "returned"} /\ cancelled /\ "late" \notin faults
    => result = "error"

\* A press that was handled before the verdict makes the transfer fail, wherever
\* the copy was.
THEOREM PressIsHeeded == Spec => []CancelledIsError
<1>1. Init => PressInv
  BY DEF Init, PressInv
<1>2. PressInv /\ [Next]_vars => PressInv'
  <2> SUFFICES ASSUME PressInv, [Next]_vars PROVE PressInv'
    OBVIOUS
  <2> USE DEF PressInv
  <2>1. CASE HeaderFails BY <2>1 DEF HeaderFails
  <2>2. CASE Verdict
    <3>1. cancelled' = cancelled /\ (cancelled => result' = "error")
      BY <2>2 DEF Verdict, intVars
    <3>2. QED BY <3>1
  <2>3. CASE Return BY <2>3 DEF Return
  <2>4. CASE Main /\ ~HeaderFails /\ ~Verdict /\ ~Return
    <3>1. pc' \notin {"reporting", "returned"}
      BY <2>4 DEF Main, HeaderRead, LoopTop, ReadData, ReadEnd, SinkFails,
         Write, Progress, ProgressVerdict, Wait, Statistics, LeaveCopy
    <3>2. QED BY <3>1
  <2>5. CASE Cancel
    <3>1. UNCHANGED <<pc, result>> /\ pc # "returned"
      BY <2>5 DEF Cancel, Running, mainVars
    <3>2. pc = "reporting" => "late" \in faults' BY <2>5 DEF Cancel
    <3>3. QED BY <3>1, <3>2
  <2>6. CASE ForceExit BY <2>6 DEF ForceExit
  <2>7. CASE Watchdog \/ LateAnswer \/ Environment \/ Press
    <3>1. UNCHANGED <<pc, result, cancelled>> /\ faults \subseteq faults'
      BY <2>7 DEF Watchdog, WatchTick, WatchVerdict, LateAnswer, Press,
         Environment, DdWrites, DdEnds, DdFails, GzipDies, LinkFalls,
         LinkRecovers, LinkReset, Hangup, ProbeBusy, ProbeStart, Fault,
         mainVars, intVars
    <3>2. QED BY <3>1
  <2>8. CASE UNCHANGED vars BY <2>8 DEF vars
  <2>9. QED BY <2>1, <2>2, <2>3, <2>4, <2>5, <2>6, <2>7, <2>8 DEF Next
<1>3. PressInv => CancelledIsError BY DEF PressInv, CancelledIsError
<1>4. QED BY <1>1, <1>2, <1>3, PTL DEF Spec

-----------------------------------------------------------------------------
(* Types, and no false alarm                                               *)

PhasesOK ==
  /\ pc \in {"header", "loop", "read", "write", "progress", "probing", "wait",
             "stderr", "verdict", "reporting", "returned", "dead"}
  /\ err \in {"none", "header", "cancelled", "read", "sink", "lost"}
  /\ stderr \in {"none", "records", "bytes"}
  /\ result \in {"none", "ok", "error"}
  /\ dd \in {"running", "eof", "ioerror", "dead"}
  /\ stream \in {"open", "ended", "broken"}
  /\ link \in {"up", "silent", "down"}
  /\ watch \in {"off", "waiting", "probing", "done"}

LEMMA PhasesStep == PhasesOK /\ [Next]_vars => PhasesOK'
<1> SUFFICES ASSUME PhasesOK, [Next]_vars PROVE PhasesOK'
  OBVIOUS
<1> USE DEF PhasesOK, LeaveCopy, mainVars, hostVars, intVars
<1>1. CASE HeaderRead \/ HeaderFails \/ LoopTop
  BY <1>1 DEF HeaderRead, HeaderFails, LoopTop
<1>2. CASE ReadData \/ ReadEnd \/ SinkFails \/ Write
  BY <1>2 DEF ReadData, ReadEnd, SinkFails, Write
<1>3. CASE Progress \/ ProgressVerdict
  BY <1>3 DEF Progress, ProgressVerdict
<1>4. CASE Wait \/ Statistics \/ Verdict \/ Return
  BY <1>4 DEF Wait, Statistics, Verdict, Return
<1>5. CASE Environment
  BY <1>5 DEF Environment, DdWrites, DdEnds, DdFails, GzipDies, LinkFalls,
     LinkRecovers, LinkReset, Hangup
<1>6. CASE Watchdog \/ LateAnswer
  BY <1>6 DEF Watchdog, WatchTick, WatchVerdict, LateAnswer
<1>7. CASE Press \/ Cancel \/ ForceExit
  BY <1>7 DEF Press, Cancel, ForceExit
<1>8. CASE UNCHANGED vars BY <1>8 DEF vars
<1>9. QED BY <1>1, <1>2, <1>3, <1>4, <1>5, <1>6, <1>7, <1>8 DEF Next, Main

LEMMA FlagsStep == FlagsOK /\ [Next]_vars => FlagsOK'
<1> SUFFICES ASSUME FlagsOK, [Next]_vars PROVE FlagsOK'
  OBVIOUS
<1> USE DEF FlagsOK, LeaveCopy, mainVars, hostVars, intVars
<1>1. CASE HeaderRead \/ HeaderFails \/ LoopTop
  BY <1>1 DEF HeaderRead, HeaderFails, LoopTop
<1>2. CASE ReadData \/ ReadEnd \/ SinkFails \/ Write
  BY <1>2 DEF ReadData, ReadEnd, SinkFails, Write
<1>3. CASE Progress \/ ProgressVerdict
  BY <1>3 DEF Progress, ProgressVerdict, ProbeStart, ProbeVerdict
<1>4. CASE Wait BY <1>4, Zenon DEF Wait
<1>5. CASE Statistics \/ Verdict \/ Return
  BY <1>5 DEF Statistics, Verdict, Return
<1>6. CASE Environment
  BY <1>6 DEF Environment, DdWrites, DdEnds, DdFails, GzipDies, LinkFalls,
     LinkRecovers, LinkReset, Hangup
<1>7. CASE Watchdog \/ LateAnswer
  BY <1>7 DEF Watchdog, WatchTick, WatchVerdict, LateAnswer, ProbeStart,
     ProbeVerdict
<1>8. CASE Press \/ Cancel \/ ForceExit
  BY <1>8 DEF Press, Cancel, ForceExit
<1>9. CASE UNCHANGED vars BY <1>9 DEF vars
<1>10. QED
  BY <1>1, <1>2, <1>3, <1>4, <1>5, <1>6, <1>7, <1>8, <1>9 DEF Next, Main

\* What else there is: faults only grow, and two presses are all there are.
LEMMA RestStep ==
  ASSUME faults \subseteq FaultKinds, presses \in 0..2, [Next]_vars
  PROVE  /\ faults' \subseteq FaultKinds /\ faults \subseteq faults'
         /\ presses' \in 0..2
<1> USE DEF FaultKinds, Fault, mainVars, hostVars, intVars
<1>1. CASE Main \/ Watchdog
  <2>1. presses' = presses
    BY <1>1 DEF Main, Watchdog, HeaderRead, HeaderFails, LoopTop, ReadData,
       ReadEnd, SinkFails, Write, Progress, ProgressVerdict, WatchTick,
       WatchVerdict, Wait, Statistics, Verdict, Return
  <2>2. faults' \in {faults} \cup {faults \cup {k} : k \in FaultKinds}
    BY <1>1 DEF Main, Watchdog, HeaderRead, HeaderFails, LoopTop, ReadData,
       ReadEnd, SinkFails, Write, Progress, ProgressVerdict, WatchTick,
       WatchVerdict, Wait, Statistics, Verdict, Return, ProbeBusy, ProbeStart
  <2>3. QED BY <2>1, <2>2
<1>2. CASE Environment
  BY <1>2 DEF Environment, DdWrites, DdEnds, DdFails, GzipDies, LinkFalls,
     LinkRecovers, LinkReset, Hangup
<1>3. CASE LateAnswer \/ Cancel \/ ForceExit
  BY <1>3 DEF LateAnswer, Cancel, ForceExit
<1>4. CASE Press
  <2>1. presses < 2 /\ presses' = presses + 1 BY <1>4 DEF Press
  <2>2. faults' = faults \cup {"press"} BY <1>4 DEF Press
  <2>3. presses' \in 0..2 BY <2>1
  <2>4. QED BY <2>2, <2>3
<1>5. CASE UNCHANGED vars BY <1>5 DEF vars
<1>6. QED BY <1>1, <1>2, <1>3, <1>4, <1>5 DEF Next

LEMMA Between ==
  ASSUME NEW w \in Nat, NEW c \in Nat, NEW n \in Nat, w <= n, n <= w + c
  PROVE  n \in w..(w + c)
OBVIOUS

LEMMA TypeStep == TypeOK /\ CountInv /\ [Next]_vars => TypeOK'
<1> SUFFICES ASSUME TypeOK, CountInv, [Next]_vars PROVE TypeOK'
  OBVIOUS
<1>1. /\ PhasesOK' /\ FlagsOK'
      /\ faults' \subseteq FaultKinds /\ presses' \in 0..2
  BY PhasesStep, FlagsStep, RestStep DEF TypeOK, PhasesOK, CountsOK
<1>2. CountInv' BY CountStep
<1>3. CountsOK'
  <2>1. /\ sent' \in Nat /\ chunk' \in Nat /\ written' \in Nat /\ sunk' \in Nat
        /\ sent' <= DiskSize /\ written' + chunk' <= sent'
        /\ written' <= sunk' /\ sunk' <= written' + chunk'
    BY <1>2 DEF CountInv
  <2>2. sent' \in 0..DiskSize BY <2>1, TransferAssumption
  <2>3. sunk' \in written'..(written' + chunk') BY <2>1, Between
  <2>4. QED BY <1>1, <2>1, <2>2, <2>3 DEF CountsOK
<1>4. QED BY <1>1, <1>2, <1>3 DEF TypeOK, PhasesOK, CountInv, ConfOK

LEMMA InitTypes == Init => TypeOK /\ CountInv
<1> SUFFICES ASSUME Init PROVE TypeOK /\ CountInv
  OBVIOUS
<1>1. CountInv BY TransferAssumption DEF Init, CountInv, ConfOK
<1>2. PhasesOK BY DEF Init, PhasesOK
<1>3. FlagsOK BY DEF Init, FlagsOK
<1>4. CountsOK BY TransferAssumption DEF Init, CountsOK
<1>5. ConfOK /\ faults \subseteq FaultKinds BY DEF Init, ConfOK
<1>6. QED BY <1>1, <1>2, <1>3, <1>4, <1>5 DEF TypeOK, PhasesOK, ConfOK

\* Every variable keeps its type, and nothing is counted that did not arrive.
THEOREM TypeCorrect == Spec => []TypeOK
<1>1. QED BY InitTypes, CountStep, TypeStep, PTL DEF Spec

\* As long as nothing fails the copy goes on to the end of the disk, with no
\* error on the way.
HealthInv ==
  faults = {} /\ ~Stillborn =>
    /\ link = "up" /\ ~sigCh /\ ~cancelled /\ err = "none" /\ result # "error"
    /\ \/ dd = "running" /\ stream = "open"
       \/ dd = "eof" /\ stream = "ended" /\ sent = DiskSize
    /\ closed => pc = "returned"
    /\ pc \in {"wait", "stderr", "verdict", "reporting", "returned"} =>
         stream = "ended" /\ chunk = 0 /\ written = DiskSize
    /\ pc \in {"stderr", "verdict"} => ~exitErr

LEMMA Multiple ==
  ASSUME NEW s \in Nat, NEW b \in Nat \ {0}
  PROVE  ~((s \div b) * b + b <= s)
OBVIOUS

LEMMA HealthStep == TypeOK /\ CountInv /\ HealthInv /\ [Next]_vars => HealthInv'
<1> SUFFICES ASSUME TypeOK, CountInv, HealthInv, [Next]_vars,
                    faults' = {}, ~Stillborn'
             PROVE  HealthInv'
  BY DEF HealthInv
<1>0. conf' = conf /\ ~Stillborn BY ConfConstant DEF Stillborn, Compressed
<1>1. faults = {} BY RestStep DEF TypeOK, CountsOK
<1> DEFINE H == /\ link = "up" /\ ~sigCh /\ ~cancelled /\ err = "none"
                /\ result # "error"
                /\ \/ dd = "running" /\ stream = "open"
                   \/ dd = "eof" /\ stream = "ended" /\ sent = DiskSize
                /\ closed => pc = "returned"
                /\ pc \in {"wait", "stderr", "verdict", "reporting",
                           "returned"} =>
                     stream = "ended" /\ chunk = 0 /\ written = DiskSize
                /\ pc \in {"stderr", "verdict"} => ~exitErr
<1>2. H BY <1>0, <1>1 DEF HealthInv
<1>3. SUFFICES H' BY DEF HealthInv
<1> USE <1>0, <1>1, <1>2
    DEF Fault, LeaveCopy, mainVars, hostVars, intVars
<1>4. CASE HeaderRead \/ HeaderFails \/ LoopTop
  BY <1>4 DEF HeaderRead, HeaderFails, LoopTop
<1>5. CASE ReadData BY <1>5 DEF ReadData
<1>6. CASE ReadEnd
  <2>1. pc = "read" /\ chunk = 0 /\ stream = "ended" /\ sent = DiskSize
    BY <1>6 DEF ReadEnd, StreamOver, CountInv
  <2>2. written \in Nat /\ sent = written + chunk /\ sent \in Nat
    BY <1>6, <2>1 DEF ReadEnd, Drained, CountInv
  <2>3. written = DiskSize BY <2>1, <2>2
  <2>4. CleanEnd BY <2>1, <2>3 DEF CleanEnd
  <2>5. QED BY <1>6, <2>1, <2>3, <2>4 DEF ReadEnd
<1>6a. CASE SinkFails BY <1>6a DEF SinkFails
<1>7. CASE Write BY <1>7 DEF Write
<1>8. CASE Progress \/ ProgressVerdict
  BY <1>8 DEF Progress, ProgressVerdict, ProbeBusy, ProbeStart, ProbeVerdict
<1>9. CASE Wait BY <1>9 DEF Wait, ExitClean
<1>10. CASE Statistics BY <1>10 DEF Statistics
<1>11. CASE Verdict
  <2>1. /\ pc = "verdict" /\ written = DiskSize /\ sent = DiskSize
        /\ conf.size \in {0, DiskSize} /\ DiskSize \in Nat \ {0}
    BY <1>11, TransferAssumption DEF Verdict, CountInv, ConfOK
  <2>2. ~ddRecordsTruncated
    BY <2>1, Multiple, TransferAssumption DEF ddRecordsTruncated
  <2>3. ~Truncated BY <2>1, <2>2 DEF Truncated
  <2>4. result' = "ok" BY <1>11, <2>1, <2>3 DEF Verdict
  <2>5. QED BY <1>11, <2>4 DEF Verdict
<1>11a. CASE Return BY <1>11a DEF Return
<1>12. CASE Environment
  BY <1>12 DEF Environment, DdWrites, DdEnds, DdFails, GzipDies, LinkFalls,
     LinkRecovers, LinkReset, Hangup
<1>13. CASE Watchdog \/ LateAnswer
  BY <1>13 DEF Watchdog, WatchTick, WatchVerdict, LateAnswer, ProbeBusy,
     ProbeStart, ProbeVerdict
<1>14. CASE Press \/ Cancel \/ ForceExit
  BY <1>14 DEF Press, Cancel, ForceExit
<1>15. CASE UNCHANGED vars BY <1>15 DEF vars
<1>16. QED
  BY <1>4, <1>5, <1>6, <1>6a, <1>7, <1>8, <1>9, <1>10, <1>11, <1>11a, <1>12,
     <1>13, <1>14, <1>15 DEF Next, Main

\* No truncation test fires on a whole disk and no probe fails on a working
\* link: without a fault outside the program a transfer is not reported as failed.
THEOREM NoFalseAlarm == Spec => []HealthySucceeds
<1>1. Init => HealthInv BY DEF Init, HealthInv
<1>2. HealthInv => HealthySucceeds BY DEF HealthInv, HealthySucceeds
<1>3. QED BY <1>1, <1>2, InitTypes, CountStep, TypeStep, HealthStep, PTL DEF Spec
=============================================================================
