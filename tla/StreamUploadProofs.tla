------------------------ MODULE StreamUploadProofs --------------------------
(***************************************************************************)
(* WebDAV, Pixeldrain and SFTP writers implement UploadContract, for every *)
(* length of the image, every window and every number of attempts.         *)
(*                                                                         *)
(* PhaseInv ties the caller's phase to its goal; PutInv follows the body   *)
(* of a streamed PUT from the pipe to the server: what was stored or       *)
(* acknowledged is the whole image, and nobody deletes it; SuccessInv says *)
(* that nothing is under way that could undo a success.                    *)
(***************************************************************************)
EXTENDS StreamUpload, TLAPS

PhaseInv ==
  /\ pc \in {"opening", "settling", "writing"} => goal = "none"
  /\ goal = "close" => handed = Chunks
  /\ pc = "opening" =>
       /\ ~spooled /\ srv = "idle" /\ got = 0 /\ pipe = "open" /\ done = "empty"
       /\ handed = 0
  /\ pc \in {"settling", "waiting"} => Streaming
  /\ pc = "putting" => spooled /\ goal = "close"
  /\ pc = "deleting" => spooled \/ goal = "abort" \/ done = "err"
  /\ pc \in {"waiting", "closing"} => goal # "none"
  /\ pc = "closing" => kind = "sftp" /\ goal = "close"
  /\ pc = "removing" => kind = "sftp"

PutInv ==
  /\ done # "empty" <=> pipe = "closed"
  /\ pipe = "eof" => goal = "close"
  /\ pipe = "broken" => goal = "abort"
  /\ ~Streaming => pipe = "open" /\ srv \in {"idle", "late", "over"}
  /\ Streaming /\ goal = "abort" => pipe \in {"broken", "closed"}
  /\ srv \in {"receiving", "stored"} => done = "empty"
  /\ srv = "receiving" /\ inPlace /\ got > 0 /\ pipe \in {"open", "eof"}
       => file = "part"
  /\ srv = "stored" => pipe = "eof" /\ file = "whole"
  /\ done = "nil" => goal = "close" /\ srv = "over" /\ file = "whole"
  /\ kind = "sftp" => srv = "idle"
  /\ kind = "sftp" /\ handed = Chunks /\ pc \in {"writing", "closing"}
       => file = "whole"

SuccessInv ==
  verdict = "ok" =>
    /\ pc = "returned" /\ goal = "close" /\ file = "whole"
    /\ srv \notin {"receiving", "stored"}

UploadInv == TypeOK /\ PhaseInv /\ PutInv /\ SuccessInv

LEMMA Positive ==
  Chunks \in Nat \ {0} /\ Window \in Nat \ {0} /\ Tries \in Nat \ {0}
BY StreamAssumption

\* No step of Open breaks the invariant.
LEMMA OpenStep == UploadInv /\ Open => UploadInv'
<1> SUFFICES ASSUME UploadInv, Open PROVE UploadInv'
  OBVIOUS
<1> USE Positive
    DEF UploadInv, TypeOK, PhasesOK, FlagsOK, CountsOK, SpoolOK, PhaseInv,
        PutInv, SuccessInv, Streaming, Return, Again,
        dest, spool, putVars, srvVars
<1>1. CASE OpenWebDAV
  <2>1. TypeOK'
    <3>1. PhasesOK' BY <1>1 DEF OpenWebDAV
    <3>2. FlagsOK' BY <1>1 DEF OpenWebDAV
    <3>3. CountsOK' BY <1>1 DEF OpenWebDAV
    <3>4. SpoolOK' BY <1>1 DEF OpenWebDAV
    <3>5. QED BY <3>1, <3>2, <3>3, <3>4 DEF TypeOK
  <2>2. PhaseInv' BY <1>1 DEF OpenWebDAV
  <2>3. PutInv' BY <1>1 DEF OpenWebDAV
  <2>4. SuccessInv' BY <1>1 DEF OpenWebDAV
  <2>5. QED BY <2>1, <2>2, <2>3, <2>4
<1>2. CASE OpenPixelDrain BY <1>2 DEF OpenPixelDrain
<1>3. CASE PreflightFails BY <1>3 DEF PreflightFails
<1>4. CASE OpenSFTP BY <1>4 DEF OpenSFTP
<1>5. CASE OpenSFTPFails BY <1>5 DEF OpenSFTPFails, OpenFails
<1>6. CASE Settle BY <1>6 DEF Settle
<1>7. QED BY <1>1, <1>2, <1>3, <1>4, <1>5, <1>6 DEF Open

\* Nor does a write, or the turn to Close or Abort.
LEMMA WriteStep ==
  ASSUME UploadInv, WriteStream \/ WriteSpool \/ WriteSFTP \/ Close \/ WriteFails
                    \/ JobFails \/ WriteRefused
  PROVE  UploadInv'
<1> USE Positive
    DEF UploadInv, TypeOK, PhasesOK, FlagsOK, CountsOK, SpoolOK, PhaseInv,
        PutInv, SuccessInv, Streaming,
        dest, spool, putVars, srvVars
<1>1. CASE WriteStream BY <1>1 DEF WriteStream
<1>2. CASE WriteSpool BY <1>2 DEF WriteSpool
<1>3. CASE WriteSFTP BY <1>3 DEF WriteSFTP
<1>4. CASE Close
  <2>1. TypeOK' BY <1>4 DEF Close, Finish
  <2>2. PhaseInv' BY <1>4 DEF Close, Finish
  <2>3. PutInv'
    <3>1. CASE Streaming
      <4>1. CASE pipe = "closed" BY <1>4, <3>1, <4>1 DEF Close, Finish
      <4>2. CASE pipe # "closed"
        <5>1. pipe' = "eof" BY <1>4, <3>1, <4>2 DEF Close, Finish
        <5>2. QED BY <1>4, <3>1, <4>2, <5>1 DEF Close, Finish
      <4>3. QED BY <4>1, <4>2
    <3>2. CASE spooled BY <1>4, <3>2 DEF Close, Finish
    <3>3. CASE kind = "sftp" BY <1>4, <3>3 DEF Close, Finish
    <3>4. QED BY <1>4, <3>1, <3>2, <3>3 DEF Close, Finish
  <2>4. SuccessInv' BY <1>4 DEF Close, Finish
  <2>5. QED BY <2>1, <2>2, <2>3, <2>4
<1>5. CASE WriteFails BY <1>5 DEF WriteFails, Finish
<1>6. CASE JobFails BY <1>6 DEF JobFails, Finish
<1>7. CASE WriteRefused BY <1>7 DEF WriteRefused, Finish
<1>8. QED BY <1>1, <1>2, <1>3, <1>4, <1>5, <1>6, <1>7

\* Nor the server, the network or the goroutine.
LEMMA ServerStep == UploadInv /\ (Server \/ PutTorn) => UploadInv'
<1> SUFFICES ASSUME UploadInv, Server \/ PutTorn PROVE UploadInv'
  OBVIOUS
<1> USE Positive
    DEF UploadInv, TypeOK, PhasesOK, FlagsOK, CountsOK, SpoolOK, PhaseInv,
        PutInv, SuccessInv, Streaming, PutOver,
        dest, spool, putVars, srvVars
<1>1. CASE Receive BY <1>1 DEF Receive
<1>2. CASE ServerStores
  <2>1. CASE srv = "late" BY <1>2, <2>1 DEF ServerStores, Completed
  <2>2. CASE srv = "receiving"
    <3>1. file' = "whole"
      BY <1>2, <2>2 DEF ServerStores, Completed
    <3>2. QED BY <1>2, <2>2, <3>1 DEF ServerStores
  <2>3. QED BY <1>2, <2>1, <2>2 DEF ServerStores
<1>3. CASE PutAnswered BY <1>3 DEF PutAnswered
<1>4. CASE PutRefused BY <1>4 DEF PutRefused
<1>5. CASE PutBreaks BY <1>5 DEF PutBreaks
<1>6. CASE PutTorn BY <1>6 DEF PutTorn
<1>7. QED BY <1>1, <1>2, <1>3, <1>4, <1>5, <1>6 DEF Server

\* Nor what Close and Abort do behind the body.
LEMMA FinishStep ==
  ASSUME UploadInv, SelectDone \/ SelectTimeout \/ SpoolPut \/ SpoolFails
                    \/ DeleteRemote \/ CloseSFTP \/ RemovePartial
  PROVE  UploadInv'
<1> USE Positive
    DEF UploadInv, TypeOK, PhasesOK, FlagsOK, CountsOK, SpoolOK, PhaseInv,
        PutInv, SuccessInv, Streaming, Return,
        Unspool, dest, spool, putVars, srvVars
<1>1. CASE SelectDone BY <1>1 DEF SelectDone, Conclude
<1>2. CASE SelectTimeout BY <1>2 DEF SelectTimeout, Conclude
<1>3. CASE SpoolPut BY <1>3 DEF SpoolPut
<1>4. CASE SpoolFails
  <2>1. TypeOK'
    <3>1. PhasesOK' BY <1>4 DEF SpoolFails, SpoolDamage, Again
    <3>2. FlagsOK' BY <1>4 DEF SpoolFails, SpoolDamage, Again
    <3>3. CountsOK' BY <1>4 DEF SpoolFails, SpoolDamage, Again
    <3>4. SpoolOK' BY <1>4 DEF SpoolFails, SpoolDamage, Again
    <3>5. QED BY <3>1, <3>2, <3>3, <3>4 DEF TypeOK
  <2>2. PhaseInv' BY <1>4 DEF SpoolFails, SpoolDamage, Again
  <2>3. PutInv' BY <1>4 DEF SpoolFails, SpoolDamage, Again
  <2>4. SuccessInv' BY <1>4 DEF SpoolFails, SpoolDamage, Again
  <2>5. QED BY <2>1, <2>2, <2>3, <2>4
<1>5. CASE DeleteRemote
  <2>1. TypeOK'
    <3>1. PhasesOK' BY <1>5 DEF DeleteRemote
    <3>2. FlagsOK' BY <1>5 DEF DeleteRemote
    <3>3. CountsOK' BY <1>5 DEF DeleteRemote
    <3>4. SpoolOK' BY <1>5 DEF DeleteRemote
    <3>5. QED BY <3>1, <3>2, <3>3, <3>4 DEF TypeOK
  <2>2. PhaseInv' BY <1>5 DEF DeleteRemote
  <2>3. PutInv' BY <1>5 DEF DeleteRemote
  <2>4. SuccessInv' BY <1>5 DEF DeleteRemote
  <2>5. QED BY <2>1, <2>2, <2>3, <2>4
<1>6. CASE CloseSFTP BY <1>6 DEF CloseSFTP
<1>7. CASE RemovePartial BY <1>7 DEF RemovePartial
<1>8. QED BY <1>1, <1>2, <1>3, <1>4, <1>5, <1>6, <1>7

LEMMA UploadInvariant == Spec => []UploadInv
<1>1. Init => UploadInv
  <2> SUFFICES ASSUME Init PROVE UploadInv
    OBVIOUS
  <2> USE Positive DEF Init
  <2>1. TypeOK
    <3>1. PhasesOK BY DEF PhasesOK
    <3>2. FlagsOK BY DEF FlagsOK
    <3>3. CountsOK BY DEF CountsOK
    <3>4. SpoolOK BY DEF SpoolOK
    <3>5. QED BY <3>1, <3>2, <3>3, <3>4 DEF TypeOK
  <2>2. PhaseInv BY DEF PhaseInv, Streaming
  <2>3. PutInv BY DEF PutInv, Streaming
  <2>4. SuccessInv BY DEF SuccessInv
  <2>5. QED BY <2>1, <2>2, <2>3, <2>4 DEF UploadInv
<1>2. UploadInv /\ [Next]_vars => UploadInv'
  <2>1. UploadInv /\ UNCHANGED vars => UploadInv'
    BY DEF vars, UploadInv, TypeOK, PhasesOK, FlagsOK, CountsOK, SpoolOK, PhaseInv,
           PutInv, SuccessInv, Streaming
  <2>2. QED
    BY <2>1, OpenStep, WriteStep, ServerStep, FinishStep DEF Next, Caller
<1>3. QED BY <1>1, <1>2, PTL DEF Spec

\* Type correctness for every length, window and number of attempts.
THEOREM TypeCorrect == Spec => []TypeOK
<1>1. UploadInv => TypeOK BY DEF UploadInv
<1>2. QED BY <1>1, UploadInvariant, PTL

-----------------------------------------------------------------------------
(* Refinement                                                              *)

Object == IF file = "whole" THEN "whole" ELSE "other"
Status == IF pc # "returned" THEN "running"
          ELSE IF verdict = "ok" THEN "ok" ELSE "error"

\* A call that has returned has given its verdict.
LEMMA VerdictStays ==
  Next => \/ pc = "returned" /\ pc' = "returned" /\ verdict' = verdict
          \/ pc # "returned" /\ (pc' = "returned" \/ verdict' = verdict)
BY DEF Next, Caller, Server, Open, OpenWebDAV, OpenPixelDrain, PreflightFails,
   OpenSFTP, OpenSFTPFails, OpenFails, Settle, WriteStream, WriteSpool, WriteSFTP,
   Close, WriteFails, JobFails, WriteRefused, Finish, Receive, ServerStores,
   PutAnswered, PutRefused, PutBreaks, PutTorn, PutOver, SelectDone, SelectTimeout,
   Conclude, SpoolPut, SpoolFails, SpoolDamage, Again, DeleteRemote, CloseSFTP,
   RemovePartial, Return

\* Every step is a step of the contract, or none of its business.
LEMMA ContractStep ==
  UploadInv /\ UploadInv' /\ [Next]_vars => [Contract!Next]_(Contract!vars)
<1> SUFFICES ASSUME UploadInv, UploadInv', [Next]_vars
             PROVE  [Contract!Next]_(Contract!vars)
  OBVIOUS
<1> USE DEF Contract!Next, Contract!vars, Contract!Store, Contract!Succeed,
            Contract!Fail
<1>1. CASE UNCHANGED vars BY <1>1 DEF vars
<1>2. CASE Next /\ pc # "returned" /\ pc' # "returned" BY <1>2
<1>3. CASE Next /\ pc # "returned" /\ pc' = "returned" /\ verdict' = "ok"
  <2>1. file' = "whole" BY <1>3 DEF UploadInv, SuccessInv
  <2>2. QED BY <1>3, <2>1
<1>4. CASE Next /\ pc # "returned" /\ pc' = "returned" /\ verdict' # "ok"
  BY <1>4
<1>5. CASE Next /\ pc = "returned" /\ verdict = "ok"
  <2>1. pc' = "returned" /\ verdict' = "ok" BY <1>5, VerdictStays
  <2>2. file = "whole" /\ file' = "whole"
    BY <1>5, <2>1 DEF UploadInv, SuccessInv
  <2>3. QED BY <1>5, <2>1, <2>2
<1>6. CASE Next /\ pc = "returned" /\ verdict # "ok"
  <2>1. pc' = "returned" /\ verdict' # "ok" BY <1>6, VerdictStays
  <2>2. QED BY <1>6, <2>1
<1>7. QED BY <1>1, <1>2, <1>3, <1>4, <1>5, <1>6

\* The writers of webdav.go, pixeldrain.go and sftp.go keep UploadContract: nil
\* from Close means the image is there, and nothing they left behind undoes it.
THEOREM StreamsImplementContract == Spec => Implements
<1>1. Init => Contract!Init BY DEF Init, Contract!Init
<1>2. QED
  BY <1>1, UploadInvariant, ContractStep, PTL DEF Spec, Implements, Contract!Spec

-----------------------------------------------------------------------------
(* What is left behind, and what is kept                                   *)

\* Why an aborted upload is clean: Pixeldrain shows a file at the end of a body
\* only, which an abort never gives; everybody else deletes; and without harm no
\* request is still under way once the call has returned.
HealthInv ==
  /\ srv = "late" => harm
  /\ kind = "pixeldrain" => ~inPlace
  /\ kind = "pixeldrain" /\ goal # "close" => harm \/ file = "none"
  /\ AbortedIsClean

\* A spool file exists while it is written or sent.
SpoolInv == temp => pc \in {"writing", "putting"}

\* An outcome is unknown once nobody waits any more, except after an abort; and
\* the file is not whole before the server has its last chunk.
LateInv ==
  /\ unknown => pc = "returned" \/ goal = "abort"
  /\ pc = "opening" => file # "whole"
  /\ srv = "receiving" => file # "whole"

CleanInv == HealthInv /\ SpoolInv /\ LateInv

LEMMA CleanStep == UploadInv /\ CleanInv /\ Next => CleanInv'
<1> SUFFICES ASSUME UploadInv, CleanInv, Next PROVE CleanInv'
  OBVIOUS
<1> USE Positive
    DEF UploadInv, TypeOK, PhasesOK, FlagsOK, CountsOK, SpoolOK, PhaseInv,
        PutInv, Streaming, Return, PutOver,
        dest, spool, putVars, srvVars,
        CleanInv, HealthInv, SpoolInv, LateInv, AbortedIsClean
<1>1. CASE OpenWebDAV BY <1>1 DEF OpenWebDAV
<1>2. CASE OpenPixelDrain BY <1>2 DEF OpenPixelDrain
<1>3. CASE PreflightFails BY <1>3 DEF PreflightFails
<1>4. CASE OpenSFTP BY <1>4 DEF OpenSFTP
<1>5. CASE OpenSFTPFails BY <1>5 DEF OpenSFTPFails, OpenFails
<1>6. CASE Settle BY <1>6 DEF Settle
<1>7. CASE WriteStream BY <1>7 DEF WriteStream
<1>8. CASE WriteSpool BY <1>8 DEF WriteSpool
<1>9. CASE WriteSFTP BY <1>9 DEF WriteSFTP
<1>10. CASE Close BY <1>10 DEF Close, Finish
<1>11. CASE WriteFails BY <1>11 DEF WriteFails, Finish
<1>12. CASE JobFails BY <1>12 DEF JobFails, Finish
<1>13. CASE WriteRefused BY <1>13 DEF WriteRefused, Finish
<1>14. CASE Receive BY <1>14 DEF Receive
<1>15. CASE ServerStores BY <1>15 DEF ServerStores, Completed
<1>16. CASE PutAnswered BY <1>16 DEF PutAnswered
<1>17. CASE PutRefused BY <1>17 DEF PutRefused
<1>18. CASE PutBreaks BY <1>18 DEF PutBreaks
<1>19. CASE PutTorn BY <1>19 DEF PutTorn
<1>20. CASE SelectDone BY <1>20 DEF SelectDone, Conclude
<1>21. CASE SelectTimeout BY <1>21 DEF SelectTimeout, Conclude
<1>22. CASE SpoolPut BY <1>22 DEF SpoolPut, Unspool
<1>23. CASE SpoolFails BY <1>23 DEF SpoolFails, SpoolDamage, Again, Unspool
<1>24. CASE DeleteRemote BY <1>24 DEF DeleteRemote
<1>25. CASE CloseSFTP BY <1>25 DEF CloseSFTP
<1>26. CASE RemovePartial BY <1>26 DEF RemovePartial
<1>27. QED
  BY <1>1, <1>2, <1>3, <1>4, <1>5, <1>6, <1>7, <1>8, <1>9, <1>10, <1>11, <1>12, <1>13,
     <1>14, <1>15, <1>16, <1>17, <1>18, <1>19, <1>20, <1>21, <1>22, <1>23, <1>24, <1>25, <1>26
     DEF Next, Caller, Open, Server

LEMMA CleanInvariant == Spec => [](UploadInv /\ CleanInv)
<1>1. Init => CleanInv
  BY DEF Init, CleanInv, HealthInv, SpoolInv, LateInv, AbortedIsClean
<1>2. UploadInv /\ CleanInv /\ [Next]_vars => CleanInv'
  <2>1. CleanInv /\ UNCHANGED vars => CleanInv'
    BY DEF vars, CleanInv, HealthInv, SpoolInv, LateInv, AbortedIsClean
  <2>2. QED BY <2>1, CleanStep
<1>3. QED BY <1>1, <1>2, UploadInvariant, PTL DEF Spec

\* An abort while everything works leaves nothing of the upload under the name,
\* and no ending of finish leaves the spool file on the local disk.
THEOREM NothingLeft == Spec => []NothingIsLeftBehind
<1>1. UploadInv /\ CleanInv => NothingIsLeftBehind
  BY DEF CleanInv, HealthInv, SpoolInv, NothingIsLeftBehind, SpoolIsRemoved
<1>2. QED BY <1>1, CleanInvariant, PTL

\* A Close that gave up waiting keeps a file that is whole, whatever the server
\* still does with the request.
THEOREM UnknownKept == Spec => UnknownIsKept
<1>1. ASSUME UploadInv, CleanInv, Next, goal = "close", unknown, file = "whole"
      PROVE  file' = "whole"
  <2>1. pc = "returned" /\ handed = Chunks /\ srv # "receiving"
    BY <1>1 DEF UploadInv, PhaseInv, CleanInv, LateInv
  <2>2. Server \/ PutTorn
    BY <1>1, <2>1
    DEF Next, Caller, Open, OpenWebDAV, OpenPixelDrain, PreflightFails, OpenSFTP,
        OpenSFTPFails, Settle, WriteStream, WriteSpool, WriteSFTP, Close, WriteFails,
        JobFails, WriteRefused, SelectDone, SelectTimeout, SpoolPut, SpoolFails,
        DeleteRemote, CloseSFTP, RemovePartial
  <2>3. Completed = "whole" BY <1>1, <2>1 DEF Completed
  <2>4. file' = file \/ file' = Completed
    BY <2>1, <2>2
    DEF Server, Receive, ServerStores, PutAnswered, PutRefused, PutBreaks, PutTorn
  <2>5. QED BY <1>1, <2>3, <2>4
<1>2. UploadInv /\ CleanInv /\ [Next]_vars
        => [goal = "close" /\ unknown /\ file = "whole" => file' = "whole"]_vars
  BY <1>1
<1>3. QED BY <1>2, CleanInvariant, PTL DEF Spec, UnknownIsKept
=============================================================================
