---------------------------- MODULE RestoreProofs ----------------------------
(***************************************************************************)
(* What a restore promises, for images and disks of every size, every wrap *)
(* of the gzip footer and any number of faults.                            *)
(*                                                                         *)
(* QuestionInv says which questions are behind the main thread in each of  *)
(* its phases; FlowInv follows the units from the file to the disk: an end *)
(* of input that dd has seen over a live connection came behind all that   *)
(* was written; SuccessInv carries what Wait and Sync have found out to    *)
(* the verdict and beyond.                                                 *)
(***************************************************************************)
EXTENDS Restore, TLAPS

Before == {"checksum", "capacity", "confirm", "open", "start"}
After  == {"wait", "sync", "verdict", "reporting"}

ImageInv ==
  /\ img.gz \in BOOLEAN /\ img.shaFails \in BOOLEAN
  /\ img.size \in Nat \ {0} /\ img.held \in {img.size, img.size - 1}
  /\ img.comp \in Nat /\ img.foot \in Nat /\ img.sidecar \in Nat
  /\ ~img.gz => img.comp = img.held
  /\ img.gz /\ img.held = img.size
       => img.foot = img.size % Wrap /\ img.size <= Ratio * img.comp

HostInv ==
  host.disk \in Nat \ {0} /\ host.lsblk \in BOOLEAN /\ host.fdatasync \in BOOLEAN

PhaseInv ==
  /\ pc \in Before => dd = "none"
  /\ dd = "none" => taken = 0 /\ flushed = 0 /\ written = 0 /\ stdin = "open"
  /\ pc \in {"copy", "write"} \cup After => dd # "none"
  /\ pc \in Before \cup {"copy", "write"} => copyErr = "none"
  /\ pc \in {"copy", "write"} => stdin # "eof"
  /\ pc = "write" => written < img.held
  /\ link # "up" => "link" \in faults

QuestionInv ==
  /\ pc \notin {"checksum", "returned"} \/ dd # "none"
       => auto \/ (img.shaFails => "checksum" \in asked)
  /\ pc \notin {"checksum", "capacity", "returned"} \/ dd # "none"
       => auto \/ (TooSmall => "capacity" \in asked)
  /\ pc \notin {"checksum", "capacity", "confirm", "returned"} \/ dd # "none"
       => auto \/ "overwrite" \in asked

FlowInv ==
  /\ pc \in After =>
       /\ stdin # "open"
       /\ copyErr = "none" => written = img.held /\ (img.gz => img.held = img.size)
  /\ dd = "ok" /\ link # "down" => stdin # "open" /\ taken = written
  /\ dd = "ok" /\ host.fdatasync => flushed = taken

\* The disk has what the file holds, and dd has left it.
Written ==
  dd = "ok" /\ taken = img.held /\ (img.gz => img.held = img.size)

SuccessInv ==
  /\ pc \in {"sync", "verdict", "reporting"} /\ copyErr = "none" /\ ~exitErr
       => Written
  /\ pc = "verdict" /\ copyErr = "none" /\ ~exitErr /\ ~cancelled
     /\ faults \cap {"sync", "link"} = {} => flushed = taken
  /\ verdict = "ok" => pc \in {"reporting", "returned"} /\ Written
  /\ verdict = "ok" /\ faults \cap {"sync", "link"} = {} => flushed = taken

RestoreInv ==
  /\ TypeOK /\ ImageInv /\ HostInv /\ PhaseInv
  /\ QuestionInv /\ FlowInv /\ SuccessInv

-----------------------------------------------------------------------------
(* The invariant                                                           *)

\* What the definition of Images says of one.
LEMMA ImageFacts == img \in Images => ImageInv
<1> SUFFICES ASSUME img \in Images PROVE ImageInv
  OBVIOUS
<1>1. Sizes \subseteq Nat \ {0} /\ Lengths \subseteq Nat \ {0} /\ Wrap \in Nat \ {0}
  BY RestoreAssumption
<1>2. PICK n \in Sizes :
        /\ img \in [gz : BOOLEAN, size : {n}, held : {n, n - 1},
                   comp : Lengths \cup {n, n - 1}, foot : {0, n % Wrap, Wrap - 1},
                   sidecar : {0, n, n + 1}, shaFails : BOOLEAN]
        /\ IF ~img.gz THEN img.comp = img.held /\ img.foot \in {0, Wrap - 1}
           ELSE /\ img.comp \in Lengths /\ img.held <= Ratio * img.comp
                /\ img.foot \in IF img.held = n THEN {n % Wrap} ELSE {0, Wrap - 1}
  BY DEF Images
<1>3. n \in Nat \ {0} /\ n % Wrap \in Nat BY <1>1
<1>4. img.gz \in BOOLEAN /\ img.shaFails \in BOOLEAN /\ img.size = n
      /\ img.held \in {n, n - 1} /\ img.sidecar \in {0, n, n + 1}
      /\ img.comp \in Lengths \cup {n, n - 1} /\ img.foot \in {0, n % Wrap, Wrap - 1}
  BY <1>2
<1>5. img.comp \in Nat /\ img.foot \in Nat /\ img.sidecar \in Nat
  <2>1. n - 1 \in Nat BY <1>3
  <2>2. img.comp \in Nat BY <1>1, <1>3, <1>4, <2>1
  <2>3. Wrap - 1 \in Nat BY <1>1
  <2>4. img.foot \in Nat BY <1>3, <1>4, <2>3
  <2>5. QED BY <1>3, <1>4, <2>2, <2>4
<1>6. img.gz /\ img.held = n => img.foot = n % Wrap /\ n <= Ratio * img.comp
  BY <1>2
<1>7. ~img.gz => img.comp = img.held BY <1>2
<1>8. QED BY <1>3, <1>4, <1>5, <1>6, <1>7 DEF ImageInv

\* Every step keeps the types.
LEMMA TypeStep == RestoreInv /\ Next => TypeOK'
<1> SUFFICES ASSUME RestoreInv, Next PROVE TypeOK'
  OBVIOUS
<1> USE RestoreAssumption
    DEF RestoreInv, TypeOK, MainOK, FlagsOK, DdOK,
        ImageInv, HostInv, PhaseInv, fixed, ddVars
<1>1. CASE VerifyChecksum
  <2>1. MainOK' BY <1>1 DEF VerifyChecksum, Ask, Pass, Quit
  <2>2. FlagsOK' BY <1>1 DEF VerifyChecksum, Ask, Pass, Quit
  <2>3. DdOK' BY <1>1 DEF VerifyChecksum, Ask, Pass, Quit
  <2>4. QED BY <2>1, <2>2, <2>3
<1>2. CASE CapacityCheck
  <2>1. MainOK' BY <1>2 DEF CapacityCheck, Ask, Pass, Quit
  <2>2. FlagsOK' BY <1>2 DEF CapacityCheck, Ask, Pass, Quit
  <2>3. DdOK' BY <1>2 DEF CapacityCheck, Ask, Pass, Quit
  <2>4. QED BY <2>1, <2>2, <2>3
<1>3. CASE ConfirmOverwrite
  <2>1. MainOK' BY <1>3 DEF ConfirmOverwrite, Ask, Quit
  <2>2. FlagsOK' BY <1>3 DEF ConfirmOverwrite, Ask, Quit
  <2>3. DdOK' BY <1>3 DEF ConfirmOverwrite, Ask, Quit
  <2>4. QED BY <2>1, <2>2, <2>3
<1>4. CASE OpenImage
  BY <1>4 DEF OpenImage, BelievedSize, readGzipISize, ReadSizeFile
<1>5. CASE StartDd
  <2>1. MainOK' BY <1>5 DEF StartDd
  <2>2. FlagsOK' BY <1>5 DEF StartDd
  <2>3. DdOK' BY <1>5 DEF StartDd
  <2>4. QED BY <2>1, <2>2, <2>3
<1>6. CASE Copy BY <1>6 DEF Copy, LeaveCopy
<1>7. CASE Write BY <1>7 DEF Write, Room
<1>8. CASE WriteFails BY <1>8 DEF WriteFails, LeaveCopy
<1>9. CASE Wait
  <2>1. MainOK' BY <1>9 DEF Wait
  <2>2. FlagsOK' BY <1>9 DEF Wait
  <2>3. DdOK' BY <1>9 DEF Wait
  <2>4. QED BY <2>1, <2>2, <2>3
<1>10. CASE Sync BY <1>10 DEF Sync, Trouble
<1>11. CASE Verdict BY <1>11 DEF Verdict, Judge
<1>12. CASE DdTakes BY <1>12 DEF DdTakes
<1>13. CASE DdEnds BY <1>13 DEF DdEnds
<1>14. CASE DdFull BY <1>14 DEF DdFull
<1>15. CASE DdDies BY <1>15 DEF DdDies, Trouble
<1>16. CASE LinkFalls \/ LinkRecovers \/ LinkReset
  <2>1. MainOK' BY <1>16 DEF LinkFalls, LinkRecovers, LinkReset, Trouble
  <2>2. FlagsOK' BY <1>16 DEF LinkFalls, LinkRecovers, LinkReset, Trouble
  <2>3. DdOK' BY <1>16 DEF LinkFalls, LinkRecovers, LinkReset, Trouble
  <2>4. QED BY <2>1, <2>2, <2>3
<1>17. CASE Press
  <2>1. MainOK' BY <1>17 DEF Press, Trouble
  <2>2. FlagsOK' BY <1>17 DEF Press, Trouble
  <2>3. DdOK' BY <1>17 DEF Press, Trouble
  <2>4. QED BY <2>1, <2>2, <2>3
<1>18. CASE ProgressFails
  BY <1>18 DEF ProgressFails, ProbeFails, Trouble, LeaveCopy
<1>19. CASE StallCloses BY <1>19 DEF StallCloses, ProbeFails, Trouble
<1>20. CASE Return BY <1>20 DEF Return
<1>21. QED
  BY <1>1, <1>2, <1>3, <1>4, <1>5, <1>6, <1>7, <1>8, <1>9,
     <1>10, <1>11, <1>12, <1>13, <1>14, <1>15, <1>16, <1>17, <1>18, <1>19, <1>20
  DEF Next, Main, Environment

\* ... and what the phases say of dd and of the link ...
LEMMA PhaseStep == RestoreInv /\ Next => PhaseInv'
<1> SUFFICES ASSUME RestoreInv, Next PROVE PhaseInv'
  OBVIOUS
<1> USE RestoreAssumption
    DEF RestoreInv, TypeOK, MainOK, FlagsOK, DdOK,
        ImageInv, HostInv, PhaseInv, Before, After, fixed, ddVars
<1>1. CASE VerifyChecksum BY <1>1 DEF VerifyChecksum, Ask, Pass, Quit
<1>2. CASE CapacityCheck BY <1>2 DEF CapacityCheck, Ask, Pass, Quit
<1>3. CASE ConfirmOverwrite BY <1>3 DEF ConfirmOverwrite, Ask, Quit
<1>4. CASE OpenImage
  BY <1>4 DEF OpenImage, BelievedSize, readGzipISize, ReadSizeFile
<1>5. CASE StartDd BY <1>5 DEF StartDd
<1>6. CASE Copy BY <1>6 DEF Copy, LeaveCopy
<1>7. CASE Write BY <1>7 DEF Write, Room
<1>8. CASE WriteFails BY <1>8 DEF WriteFails, LeaveCopy
<1>9. CASE Wait BY <1>9 DEF Wait
<1>10. CASE Sync BY <1>10 DEF Sync, Trouble
<1>11. CASE Verdict BY <1>11 DEF Verdict, Judge
<1>12. CASE DdTakes BY <1>12 DEF DdTakes
<1>13. CASE DdEnds BY <1>13 DEF DdEnds
<1>14. CASE DdFull BY <1>14 DEF DdFull
<1>15. CASE DdDies BY <1>15 DEF DdDies, Trouble
<1>16. CASE LinkFalls \/ LinkRecovers \/ LinkReset
  BY <1>16 DEF LinkFalls, LinkRecovers, LinkReset, Trouble
<1>17. CASE Press BY <1>17 DEF Press, Trouble
<1>18. CASE ProgressFails
  BY <1>18 DEF ProgressFails, ProbeFails, Trouble, LeaveCopy
<1>19. CASE StallCloses BY <1>19 DEF StallCloses, ProbeFails, Trouble
<1>20. CASE Return BY <1>20 DEF Return
<1>21. QED
  BY <1>1, <1>2, <1>3, <1>4, <1>5, <1>6, <1>7, <1>8, <1>9,
     <1>10, <1>11, <1>12, <1>13, <1>14, <1>15, <1>16, <1>17, <1>18, <1>19, <1>20
  DEF Next, Main, Environment

\* ... and the answers given so far ...
LEMMA QuestionStep == RestoreInv /\ Next => QuestionInv'
<1> SUFFICES ASSUME RestoreInv, Next PROVE QuestionInv'
  OBVIOUS
<1> USE RestoreAssumption
    DEF RestoreInv, TypeOK, MainOK, FlagsOK, DdOK,
        PhaseInv, QuestionInv, TooSmall,
        imageSize, readGzipISize, ReadSizeFile, Before, After, fixed, ddVars
<1>1. CASE VerifyChecksum BY <1>1 DEF VerifyChecksum, Ask, Pass, Quit
<1>2. CASE CapacityCheck BY <1>2 DEF CapacityCheck, Ask, Pass, Quit
<1>3. CASE ConfirmOverwrite BY <1>3 DEF ConfirmOverwrite, Ask, Quit
<1>4. CASE OpenImage
  BY <1>4 DEF OpenImage, BelievedSize, readGzipISize, ReadSizeFile
<1>5. CASE StartDd BY <1>5 DEF StartDd
<1>6. CASE Copy BY <1>6 DEF Copy, LeaveCopy
<1>7. CASE Write BY <1>7 DEF Write, Room
<1>8. CASE WriteFails BY <1>8 DEF WriteFails, LeaveCopy
<1>9. CASE Wait BY <1>9 DEF Wait
<1>10. CASE Sync BY <1>10 DEF Sync, Trouble
<1>11. CASE Verdict BY <1>11 DEF Verdict, Judge
<1>12. CASE DdTakes BY <1>12 DEF DdTakes
<1>13. CASE DdEnds BY <1>13 DEF DdEnds
<1>14. CASE DdFull BY <1>14 DEF DdFull
<1>15. CASE DdDies BY <1>15 DEF DdDies, Trouble
<1>16. CASE LinkFalls \/ LinkRecovers \/ LinkReset
  BY <1>16 DEF LinkFalls, LinkRecovers, LinkReset, Trouble
<1>17. CASE Press BY <1>17 DEF Press, Trouble
<1>18. CASE ProgressFails
  BY <1>18 DEF ProgressFails, ProbeFails, Trouble, LeaveCopy
<1>19. CASE StallCloses BY <1>19 DEF StallCloses, ProbeFails, Trouble
<1>20. CASE Return BY <1>20 DEF Return
<1>21. QED
  BY <1>1, <1>2, <1>3, <1>4, <1>5, <1>6, <1>7, <1>8, <1>9,
     <1>10, <1>11, <1>12, <1>13, <1>14, <1>15, <1>16, <1>17, <1>18, <1>19, <1>20
  DEF Next, Main, Environment

\* ... and where the units are ...
LEMMA FlowStep == RestoreInv /\ Next => FlowInv'
<1> SUFFICES ASSUME RestoreInv, Next PROVE FlowInv'
  OBVIOUS
<1> USE RestoreAssumption
    DEF RestoreInv, TypeOK, MainOK, FlagsOK, DdOK,
        ImageInv, HostInv, PhaseInv, FlowInv, Before, After,
        fixed, ddVars
<1>1. CASE VerifyChecksum BY <1>1 DEF VerifyChecksum, Ask, Pass, Quit
<1>2. CASE CapacityCheck BY <1>2 DEF CapacityCheck, Ask, Pass, Quit
<1>3. CASE ConfirmOverwrite BY <1>3 DEF ConfirmOverwrite, Ask, Quit
<1>4. CASE OpenImage
  BY <1>4 DEF OpenImage, BelievedSize, readGzipISize, ReadSizeFile
<1>5. CASE StartDd BY <1>5 DEF StartDd
<1>6. CASE Copy BY <1>6 DEF Copy, LeaveCopy
<1>7. CASE Write BY <1>7 DEF Write, Room
<1>8. CASE WriteFails BY <1>8 DEF WriteFails, LeaveCopy
<1>9. CASE Wait BY <1>9 DEF Wait
<1>10. CASE Sync BY <1>10 DEF Sync, Trouble
<1>11. CASE Verdict BY <1>11 DEF Verdict, Judge
<1>12. CASE DdTakes BY <1>12 DEF DdTakes
<1>13. CASE DdEnds BY <1>13 DEF DdEnds
<1>14. CASE DdFull BY <1>14 DEF DdFull
<1>15. CASE DdDies BY <1>15 DEF DdDies, Trouble
<1>16. CASE LinkFalls \/ LinkRecovers \/ LinkReset
  BY <1>16 DEF LinkFalls, LinkRecovers, LinkReset, Trouble
<1>17. CASE Press BY <1>17 DEF Press, Trouble
<1>18. CASE ProgressFails
  BY <1>18 DEF ProgressFails, ProbeFails, Trouble, LeaveCopy
<1>19. CASE StallCloses BY <1>19 DEF StallCloses, ProbeFails, Trouble
<1>20. CASE Return BY <1>20 DEF Return
<1>21. QED
  BY <1>1, <1>2, <1>3, <1>4, <1>5, <1>6, <1>7, <1>8, <1>9,
     <1>10, <1>11, <1>12, <1>13, <1>14, <1>15, <1>16, <1>17, <1>18, <1>19, <1>20
  DEF Next, Main, Environment

\* ... and what a success rests on.
LEMMA SuccessStep == RestoreInv /\ Next => SuccessInv'
<1> SUFFICES ASSUME RestoreInv, Next PROVE SuccessInv'
  OBVIOUS
<1> USE RestoreAssumption
    DEF RestoreInv, TypeOK, MainOK, FlagsOK, DdOK,
        ImageInv, HostInv, PhaseInv, FlowInv, Written,
        SuccessInv, Before, After, fixed, ddVars
<1>1. CASE VerifyChecksum BY <1>1 DEF VerifyChecksum, Ask, Pass, Quit
<1>2. CASE CapacityCheck BY <1>2 DEF CapacityCheck, Ask, Pass, Quit
<1>3. CASE ConfirmOverwrite BY <1>3 DEF ConfirmOverwrite, Ask, Quit
<1>4. CASE OpenImage
  BY <1>4 DEF OpenImage, BelievedSize, readGzipISize, ReadSizeFile
<1>5. CASE StartDd BY <1>5 DEF StartDd
<1>6. CASE Copy BY <1>6 DEF Copy, LeaveCopy
<1>7. CASE Write BY <1>7 DEF Write, Room
<1>8. CASE WriteFails BY <1>8 DEF WriteFails, LeaveCopy
<1>9. CASE Wait BY <1>9 DEF Wait
<1>10. CASE Sync BY <1>10 DEF Sync, Trouble
<1>11. CASE Verdict BY <1>11 DEF Verdict, Judge
<1>12. CASE DdTakes BY <1>12 DEF DdTakes
<1>13. CASE DdEnds BY <1>13 DEF DdEnds
<1>14. CASE DdFull BY <1>14 DEF DdFull
<1>15. CASE DdDies BY <1>15 DEF DdDies, Trouble
<1>16. CASE LinkFalls \/ LinkRecovers \/ LinkReset
  BY <1>16 DEF LinkFalls, LinkRecovers, LinkReset, Trouble
<1>17. CASE Press BY <1>17 DEF Press, Trouble
<1>18. CASE ProgressFails
  BY <1>18 DEF ProgressFails, ProbeFails, Trouble, LeaveCopy
<1>19. CASE StallCloses BY <1>19 DEF StallCloses, ProbeFails, Trouble
<1>20. CASE Return BY <1>20 DEF Return
<1>21. QED
  BY <1>1, <1>2, <1>3, <1>4, <1>5, <1>6, <1>7, <1>8, <1>9,
     <1>10, <1>11, <1>12, <1>13, <1>14, <1>15, <1>16, <1>17, <1>18, <1>19, <1>20
  DEF Next, Main, Environment

LEMMA RestoreInvariant == Spec => []RestoreInv
<1>1. Init => RestoreInv
  <2> SUFFICES ASSUME Init PROVE RestoreInv
    OBVIOUS
  <2>1. ImageInv BY ImageFacts DEF Init
  <2> USE <2>1 DEF Init, ImageInv
  <2>2. HostInv BY DEF HostInv
  <2>3. MainOK BY DEF MainOK
  <2>4. FlagsOK BY DEF FlagsOK
  <2>5. DdOK BY <2>2 DEF DdOK, HostInv
  <2>6. PhaseInv /\ QuestionInv BY DEF PhaseInv, QuestionInv, Before, After
  <2>7. FlowInv /\ SuccessInv BY DEF FlowInv, SuccessInv, After
  <2>8. QED BY <2>1, <2>2, <2>3, <2>4, <2>5, <2>6, <2>7 DEF RestoreInv, TypeOK
<1>2. RestoreInv /\ [Next]_vars => RestoreInv'
  <2> SUFFICES ASSUME RestoreInv, [Next]_vars PROVE RestoreInv'
    OBVIOUS
  <2>1. CASE UNCHANGED vars
    BY <2>1 DEF vars, RestoreInv, TypeOK, MainOK, FlagsOK, DdOK, ImageInv, HostInv,
                PhaseInv, QuestionInv, TooSmall, imageSize, readGzipISize,
                ReadSizeFile, FlowInv, Written, SuccessInv
  <2>2. CASE Next
    <3>1. ImageInv' /\ HostInv'
      <4>1. UNCHANGED <<img, host>>
        BY <2>2 DEF Next, Main, Environment, fixed, VerifyChecksum, CapacityCheck,
                    ConfirmOverwrite, OpenImage, StartDd, Copy, Write, WriteFails,
                    ProgressFails, StallCloses, Wait, Sync, Verdict, Return, DdTakes,
                    DdEnds, DdFull, DdDies, LinkFalls, LinkRecovers, LinkReset, Press
      <4>2. QED BY <4>1 DEF RestoreInv, ImageInv, HostInv
    <3>2. QED
      BY <2>2, <3>1, TypeStep, PhaseStep, QuestionStep, FlowStep, SuccessStep
      DEF RestoreInv
  <2>3. QED BY <2>1, <2>2
<1>3. QED BY <1>1, <1>2, PTL DEF Spec

\* Type correctness for images, disks and windows of every size.
THEOREM TypeCorrect == Spec => []TypeOK
<1>1. RestoreInv => TypeOK BY DEF RestoreInv
<1>2. QED BY <1>1, RestoreInvariant, PTL

-----------------------------------------------------------------------------
(* The questions                                                           *)

LEMMA Positive == Wrap \in Nat \ {0} /\ Ratio \in Nat \ {0}
BY RestoreAssumption

LEMMA Quotient ==
  ASSUME NEW w \in Nat \ {0}, NEW r \in Nat \ {0}
  PROVE  w \div r \in Nat /\ r * (w \div r) <= w
OBVIOUS

LEMMA Multiply ==
  ASSUME NEW r \in Nat \ {0}, NEW c \in Nat, NEW q \in Nat, c < q
  PROVE  r * c \in Nat /\ r * q \in Nat /\ r * c < r * q
OBVIOUS

\* A file that readGzipISize trusts is too short for an image that wraps.
LEMMA NoWrap ==
  ASSUME NEW n \in Nat, NEW c \in Nat, n <= Ratio * c, c < Wrap \div Ratio
  PROVE  n % Wrap = n
<1> DEFINE q == Wrap \div Ratio
<1>1. q \in Nat /\ Ratio * q <= Wrap BY Positive, Quotient
<1>2. Ratio * c \in Nat /\ Ratio * q \in Nat /\ Ratio * c < Ratio * q
  <2> HIDE DEF q
  <2>1. c < q BY DEF q
  <2>2. QED BY <1>1, <2>1, Positive, Multiply
<1>3. n < Wrap
  <2> HIDE DEF q
  <2> DEFINE rc == Ratio * c  rq == Ratio * q
  <2>1. n <= rc /\ rc < rq /\ rq <= Wrap /\ rc \in Nat /\ rq \in Nat
    BY <1>1, <1>2
  <2> HIDE DEF rc, rq
  <2>2. QED BY <2>1, Positive
<1>4. QED BY <1>3, Positive

\* runRestoreToRemote: dd starts behind a yes to every question that is due, and
\* the one about a small target is due whenever the size of the image is known
\* to the code.
THEOREM Asked == Spec => []QuestionsAreAsked
<1>1. RestoreInv => OverwritesAreConfirmed
  BY DEF RestoreInv, TypeOK, FlagsOK, QuestionInv, OverwritesAreConfirmed
<1>2. RestoreInv => SmallTargetIsAsked
  <2> SUFFICES ASSUME RestoreInv, dd # "none", ~auto, host.lsblk,
                      host.disk < img.size, img.held = img.size,
                      img.sidecar \in {0, img.size}, "capacity" \notin asked
               PROVE  img.sidecar = 0 /\ (img.gz <=> img.comp >= Wrap \div Ratio)
    BY DEF SmallTargetIsAsked
  <2>1. imageSize <= host.disk
    BY DEF RestoreInv, QuestionInv, TooSmall, HostInv, ImageInv, imageSize,
           readGzipISize, ReadSizeFile
  <2> USE DEF RestoreInv, ImageInv, HostInv, imageSize, ReadSizeFile
  <2>2. img.sidecar = 0 BY <2>1
  <2>3. CASE img.gz
    <3>1. SUFFICES ASSUME img.comp < Wrap \div Ratio PROVE FALSE
      BY <2>2, <2>3, Positive, Quotient
    <3>2. img.foot = img.size
      BY <2>3, <3>1, NoWrap
    <3>3. img.comp > 0 BY <2>3, Positive
    <3>4. readGzipISize = img.size
      BY <3>1, <3>2, <3>3 DEF readGzipISize
    <3>5. QED BY <2>1, <2>2, <3>4
  <2>4. CASE ~img.gz
    <3>1. SUFFICES ASSUME img.comp >= Wrap \div Ratio PROVE FALSE
      BY <2>2, <2>4, Positive, Quotient
    <3>2. readGzipISize = 0 BY <3>1, Positive, Quotient DEF readGzipISize
    <3>3. QED BY <2>1, <2>2, <2>4, <3>2
  <2>5. QED BY <2>3, <2>4
<1>3. RestoreInv => QuestionsAreAsked BY <1>1, <1>2 DEF QuestionsAreAsked
<1>4. QED BY <1>3, RestoreInvariant, PTL

-----------------------------------------------------------------------------
(* The verdict                                                             *)

\* RestoreFromFile: nil means that the disk holds all of a whole image, and
\* holds it safely unless the sync behind an old dd failed.
THEOREM Whole == Spec => []OkIsWhole
<1>1. RestoreInv => OkIsWhole
  BY DEF RestoreInv, FlowInv, SuccessInv, Written, OkIsWhole
<1>2. QED BY <1>1, RestoreInvariant, PTL

\* A whole image with the right .size, or none, and a disk as large as it.
Good ==
  img.held = img.size /\ img.sidecar \in {0, img.size} /\ host.disk = img.size

\* The course of a restore in which nothing fails.
HealthInv ==
  faults = {} /\ Good =>
    /\ link = "up" /\ ~cancelled /\ copyErr = "none" /\ dd # "failed"
    /\ stdin = "closed" => pc = "returned"
    /\ dd = "ok" => stdin # "open"
    /\ pc \in {"sync", "verdict"} => ~exitErr
    /\ verdict # "error"
    /\ pc \in {"reporting", "returned"} => verdict # "none"
    /\ sourceSize <= img.size

\* What RestoreFromFile believes is never more than a whole image holds.
LEMMA BeliefIsModest == RestoreInv /\ Good => BelievedSize <= img.size
<1> SUFFICES ASSUME RestoreInv, Good PROVE BelievedSize <= img.size
  OBVIOUS
<1> USE DEF RestoreInv, ImageInv, Good, BelievedSize, ReadSizeFile
<1>1. CASE ~img.gz BY <1>1
<1>2. CASE img.gz
  <2>1. CASE img.comp < Wrap \div Ratio
    <3>1. img.foot = img.size BY <1>2, <2>1, NoWrap
    <3>2. QED BY <1>2, <3>1 DEF readGzipISize
  <2>2. CASE ~(img.comp < Wrap \div Ratio)
    BY <1>2, <2>2 DEF readGzipISize
  <2>3. QED BY <2>1, <2>2
<1>3. QED BY <1>1, <1>2 DEF RestoreInv, ImageInv

\* Faults are never forgotten, and the image and the host stay.
LEMMA FaultsStay == Next => faults \subseteq faults' /\ UNCHANGED <<img, host>>
BY DEF Next, Main, Environment, fixed, VerifyChecksum, CapacityCheck,
       ConfirmOverwrite, OpenImage, StartDd, Copy, Write, WriteFails, ProgressFails,
       StallCloses, Wait, Sync, Verdict, Return, DdTakes, DdEnds, DdFull, DdDies,
       LinkFalls, LinkRecovers, LinkReset, Press, ProbeFails, Trouble

LEMMA HealthStep == RestoreInv /\ HealthInv /\ Next => HealthInv'
<1> SUFFICES ASSUME RestoreInv, HealthInv, Next, faults' = {}, Good'
             PROVE  HealthInv'
  BY DEF HealthInv
<1>1. faults = {} /\ Good /\ img' = img /\ host' = host
  BY FaultsStay DEF Good
<1>2. img.size \in Nat \ {0} /\ img.held = img.size /\ host.disk = img.size
  BY <1>1 DEF RestoreInv, ImageInv, Good
<1> DEFINE
  H == /\ link = "up" /\ ~cancelled /\ copyErr = "none" /\ dd # "failed"
       /\ stdin = "closed" => pc = "returned"
       /\ dd = "ok" => stdin # "open"
       /\ pc \in {"sync", "verdict"} => ~exitErr
       /\ verdict # "error"
       /\ pc \in {"reporting", "returned"} => verdict # "none"
       /\ sourceSize <= img.size
<1>3. H BY <1>1 DEF HealthInv
<1>4. SUFFICES H' BY DEF HealthInv
<1> USE <1>1, <1>2, <1>3
    DEF RestoreInv, TypeOK, MainOK, FlagsOK, DdOK, PhaseInv, FlowInv, Before, After,
        Trouble, fixed, ddVars
<1>5. CASE VerifyChecksum BY <1>5 DEF VerifyChecksum, Ask, Pass, Quit
<1>6. CASE CapacityCheck BY <1>6 DEF CapacityCheck, Ask, Pass, Quit
<1>7. CASE ConfirmOverwrite BY <1>7 DEF ConfirmOverwrite, Ask, Quit
<1>8. CASE OpenImage BY <1>8, BeliefIsModest DEF OpenImage
<1>9. CASE StartDd BY <1>9 DEF StartDd
<1>10. CASE Copy BY <1>10 DEF Copy, LeaveCopy
<1>11. CASE Write BY <1>11 DEF Write, Room
<1>12. CASE WriteFails BY <1>12 DEF WriteFails, LeaveCopy
<1>13. CASE Wait BY <1>13 DEF Wait
<1>14. CASE Sync BY <1>14 DEF Sync
<1>15. CASE Verdict BY <1>15 DEF Verdict, Judge
<1>16. CASE DdTakes BY <1>16 DEF DdTakes
<1>17. CASE DdEnds BY <1>17 DEF DdEnds
<1>18. CASE DdFull BY <1>18 DEF DdFull
<1>19. CASE DdDies BY <1>19 DEF DdDies
<1>20. CASE LinkFalls \/ LinkRecovers \/ LinkReset
  BY <1>20 DEF LinkFalls, LinkRecovers, LinkReset, Trouble
<1>21. CASE Press BY <1>21 DEF Press
<1>22. CASE ProgressFails
  BY <1>22 DEF ProgressFails, ProbeFails, Trouble, LeaveCopy
<1>23. CASE StallCloses BY <1>23 DEF StallCloses, ProbeFails, Trouble
<1>24. CASE Return BY <1>24 DEF Return
<1>25. QED
  BY <1>5, <1>6, <1>7, <1>8, <1>9, <1>10, <1>11, <1>12, <1>13,
     <1>14, <1>15, <1>16, <1>17, <1>18, <1>19, <1>20, <1>21, <1>22, <1>23, <1>24
  DEF Next, Main, Environment

\* A whole image goes onto a disk of its size without a complaint: neither the
\* size that .size or the gzip footer gives, nor the end of a compressed stream,
\* nor dd's own end is taken for a failure when nothing failed.
THEOREM GoodRestores == Spec => []GoodImageRestores
<1>1. Init => HealthInv
  <2> SUFFICES ASSUME Init PROVE HealthInv
    OBVIOUS
  <2>1. ImageInv BY ImageFacts DEF Init
  <2>2. QED BY <2>1 DEF Init, HealthInv, ImageInv
<1>2. RestoreInv /\ HealthInv /\ [Next]_vars => HealthInv'
  <2>1. HealthInv /\ UNCHANGED vars => HealthInv' BY DEF vars, HealthInv, Good
  <2>2. QED BY <2>1, HealthStep
<1>3. RestoreInv /\ HealthInv => GoodImageRestores
  BY DEF RestoreInv, TypeOK, MainOK, HealthInv, Good, GoodImageRestores
<1>4. QED BY <1>1, <1>2, <1>3, RestoreInvariant, PTL DEF Spec
=============================================================================
