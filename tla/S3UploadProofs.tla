--------------------------- MODULE S3UploadProofs ----------------------------
(***************************************************************************)
(* The S3 writer implements UploadContract, for images and parts of every  *)
(* size and any number of attempts and of transient failures.              *)
(*                                                                         *)
(* What makes retries and late requests harmless is that a request may     *)
(* come twice, but never with two contents: LateInv says that every PUT    *)
(* still on its way carries what was acknowledged under its number, or, in *)
(* the phases that cannot end in another PUT of that number, the part that *)
(* was being sent; ServerInv says the same of the parts the open upload    *)
(* holds.  SuccessInv carries a completion, whoever learns of it, to the   *)
(* verdict; a 200 that was cut short carries none.                         *)
(***************************************************************************)
EXTENDS S3Upload, FiniteSetTheorems, TLAPS

PartPairs == Nat \X Nat

\* Where the caller stands, and what its goal and its buffer are there.
CallerInv ==
  /\ etags \in Seq(PartPairs)
  /\ pc = "creating" => handed = 0 /\ buf = 0 /\ etags = <<>>
  /\ pc \in {"creating", "writing"} => goal = "none"
  /\ pc = "writing" => buf < partSize
  /\ pc = "putting" => goal # "abort"
  /\ pc = "completing" => goal = "close" /\ buf = 0
  /\ goal = "close" => handed = image
  /\ verdict = "ok" => pc = "returned"
  /\ Tiles(etags, handed - buf)

\* Every failed attempt is a transient failure of its own.
HiccupInv ==
  /\ try <= hiccups + 1
  /\ pc = "aborting" /\ goal = "close" /\ ~harm => hiccups >= Tries
  /\ HiccupsDoNotKill

\* An attempt opens at most one upload, so that ids stay below Tries.
IdsInv ==
  /\ pc = "creating" => upload = 0 /\ \E m \in 0..(try - 1) : uploads = 1..m
  /\ uploads \subseteq 1..Tries /\ upload \in 0..Tries

\* The upload is open until it is completed or aborted; beside the acknowledged
\* parts it may hold the one that is being sent.
ServerInv ==
  /\ parts \in Seq(PartPairs) /\ object \in Seq(PartPairs)
  /\ pc = "creating" => parts = <<>>
  /\ pc \in {"writing", "putting"} => upload \in uploads
  /\ upload \in uploads =>
       /\ Len(parts) \in {partNum, partNum + 1}
       /\ \A i \in 1..partNum : parts[i] = etags[i]
       /\ Len(parts) = partNum + 1 =>
            parts[partNum + 1] = Part /\ pc \in {"putting", "aborting", "returned"}

LatePut(r) ==
  /\ r.op = "put" /\ r.n \in 1..(partNum + 1)
  /\ r.n <= partNum => r.part = etags[r.n]
  /\ r.n = partNum + 1 => r.part = Part /\ pc \in {"putting", "aborting", "returned"}

LateComplete(r) ==
  r.op = "complete" /\ r.part = etags /\ pc \in {"completing", "aborting", "returned"}

LateInv ==
  /\ pc = "creating" => late = {}
  /\ \A r \in late : LatePut(r) \/ LateComplete(r)

\* An upload that is gone before its answer came was completed with this list.
SuccessInv ==
  /\ pc = "completing" /\ upload \notin uploads => object = etags
  /\ verdict = "ok" =>
       /\ upload \notin uploads /\ object = etags
       /\ goal = "close" /\ buf = 0

S3Inv ==
  /\ TypeOK /\ CallerInv /\ HiccupInv /\ IdsInv /\ ServerInv /\ LateInv
  /\ SuccessInv

LEMMA Positive ==
  /\ Chunks \in Nat \ {0} /\ FirstSize \in Nat \ {0} /\ GrowEvery \in Nat \ {0}
  /\ MaxSize \in Nat \ {0} /\ PartLimit \in Nat \ {0} /\ Tries \in Nat \ {0}
  /\ FirstSize <= MaxSize /\ MaxHiccups \in Nat
BY S3Assumption

-----------------------------------------------------------------------------
(* The operators                                                           *)

\* The next part begins where the last one ends.
LEMMA TilesAppend ==
  ASSUME NEW list \in Seq(PartPairs), NEW end \in Nat, NEW last \in Nat,
         Tiles(list, end)
  PROVE  Tiles(Append(list, <<end + 1, last>>), last)
<1> DEFINE new == Append(list, <<end + 1, last>>)
<1>1. /\ Len(new) = Len(list) + 1 /\ Len(list) \in Nat /\ new # <<>>
      /\ new[Len(list) + 1] = <<end + 1, last>>
      /\ \A i \in 1..Len(list) : new[i] = list[i]
  BY DEF PartPairs
<1>2. last = new[Len(new)][2] BY <1>1
<1>3. ASSUME NEW i \in 1..Len(new)
      PROVE  new[i][1] = IF i = 1 THEN 1 ELSE new[i - 1][2] + 1
  <2>1. CASE i <= Len(list)
    <3>1. i \in 1..Len(list) /\ (i # 1 => i - 1 \in 1..Len(list)) BY <1>1, <2>1
    <3>2. QED BY <1>1, <3>1 DEF Tiles
  <2>2. CASE i = Len(list) + 1
    <3>1. CASE list = <<>> BY <1>1, <2>2, <3>1 DEF Tiles
    <3>2. CASE list # <<>>
      <4>1. Len(list) \in 1..Len(list) /\ i # 1 /\ i - 1 = Len(list)
        BY <1>1, <2>2, <3>2
      <4>2. end = list[Len(list)][2] BY <3>2 DEF Tiles
      <4>3. QED BY <1>1, <2>2, <4>1, <4>2
    <3>3. QED BY <3>1, <3>2
  <2>3. QED BY <1>1, <2>1, <2>2
<1>4. QED BY <1>1, <1>2, <1>3 DEF Tiles

\* A part is put behind the others, or in the place of the one of its number.
LEMMA StoreFacts ==
  ASSUME parts \in Seq(PartPairs), NEW n \in Nat \ {0}, NEW part \in PartPairs,
         upload \in uploads => n <= Len(parts) + 1,
         Store(n, part)
  PROVE  /\ parts' \in Seq(PartPairs)
         /\ upload \notin uploads => parts' = parts
         /\ upload \in uploads =>
              /\ Len(parts') = IF n <= Len(parts) THEN Len(parts) ELSE Len(parts) + 1
              /\ \A i \in 1..Len(parts') : parts'[i] = IF i = n THEN part ELSE parts[i]
<1>1. CASE upload \notin uploads BY <1>1 DEF Store
<1>2. CASE upload \in uploads /\ n <= Len(parts)
  <2>1. parts' = [parts EXCEPT ![n] = part] BY <1>2 DEF Store
  <2>2. n \in 1..Len(parts) BY <1>2
  <2>3. QED BY <1>2, <2>1, <2>2
<1>3. CASE upload \in uploads /\ ~(n <= Len(parts))
  <2>1. parts' = Append(parts, part) BY <1>3 DEF Store
  <2>2. n = Len(parts) + 1 BY <1>3
  <2>3. QED BY <1>3, <2>1, <2>2
<1>4. QED BY <1>1, <1>2, <1>3

\* The size of a part is FirstSize, doubled while it is below MaxSize.
LEMMA GrownFacts == TypeOK => Grown \in FirstSize..(2 * MaxSize)
<1> SUFFICES ASSUME TypeOK PROVE Grown \in FirstSize..(2 * MaxSize)
  OBVIOUS
<1>1. partSize \in FirstSize..(2 * MaxSize) BY DEF TypeOK
<1>2. CASE Grown = partSize BY <1>1, <1>2
<1>3. CASE Grown = 2 * partSize /\ partSize < MaxSize BY <1>1, <1>3, Positive
<1>4. QED BY <1>2, <1>3 DEF Grown

LEMMA PartFacts == TypeOK => Part \in PartPairs /\ handed - buf \in Nat
BY Positive DEF TypeOK, Part, PartPairs

-----------------------------------------------------------------------------
(* The invariant                                                           *)

\* The ids: one more upload for each attempt at most.
LEMMA IdsStep == S3Inv /\ Next => IdsInv'
<1> SUFFICES ASSUME S3Inv, Next PROVE IdsInv'
  OBVIOUS
<1> USE Positive DEF S3Inv, TypeOK, IdsInv, serverVars, callerVars
<1>0. ASSUME pc = "creating"
      PROVE  NewId \in 1..try /\ \A m \in 0..(try - 1) :
                uploads = 1..m => NewId = m + 1 /\ uploads \cup {NewId} = 1..(m + 1)
  <2>1. PICK m \in 0..(try - 1) : uploads = 1..m BY <1>0
  <2>2. m \in Nat /\ Cardinality(1..m) = m
    <3>1. m \in Nat /\ 1 \in Int /\ m \in Int OBVIOUS
    <3>2. QED BY <3>1, FS_Interval
  <2>3. NewId = m + 1 BY <2>1, <2>2 DEF NewId
  <2>4. \A k \in 0..(try - 1) : uploads = 1..k => k = m
    <3>1. ASSUME NEW k \in 0..(try - 1), uploads = 1..k PROVE k = m
      <4>1. k \in Nat /\ 1 \in Int /\ k \in Int OBVIOUS
      <4>2. Cardinality(1..k) = k BY <4>1, FS_Interval
      <4>3. QED BY <2>1, <2>2, <3>1, <4>2
    <3>2. QED BY <3>1
  <2>5. uploads \cup {NewId} = 1..(m + 1) BY <2>1, <2>3
  <2>6. QED BY <2>2, <2>3, <2>4, <2>5
<1>1. CASE Create BY <1>0, <1>1 DEF Create
<1>2. CASE CreateHiccup
  <2>1. pc = "creating" BY <1>2 DEF CreateHiccup
  <2>2. PICK m \in 0..(try - 1) : uploads = 1..m BY <2>1
  <2>3. uploads' \in {1..m, 1..(m + 1)} /\ upload' = 0
    BY <1>0, <1>2, <2>1, <2>2 DEF CreateHiccup
  <2>4. (try < Tries /\ try' = try + 1 /\ pc' = pc) \/ pc' = "returned"
    BY <1>2 DEF CreateHiccup, TryAgain
  <2>5. m \in Nat /\ m < try /\ try <= Tries BY <2>2
  <2>6. uploads' \subseteq 1..Tries BY <2>3, <2>5
  <2>7. QED BY <2>3, <2>4, <2>5, <2>6
<1>3. CASE CreateRefused BY <1>3 DEF CreateRefused
<1>4. CASE Write BY <1>4 DEF Write
<1>5. CASE Close BY <1>5 DEF Close
<1>6. CASE JobFails BY <1>6 DEF JobFails
<1>7. CASE PutAnswered BY <1>7 DEF PutAnswered, Store
<1>8. CASE PutHiccup BY <1>8 DEF PutHiccup, Hiccup, TryAgain
<1>9. CASE PutRefused BY <1>9 DEF PutRefused
<1>10. CASE CompleteAnswered BY <1>10 DEF CompleteAnswered, Complete
<1>11. CASE CompleteHiccup BY <1>11 DEF CompleteHiccup, Hiccup, TryAgain, Complete
<1>12. CASE CompleteRefused BY <1>12 DEF CompleteRefused
<1>13. CASE NoSuchUpload BY <1>13 DEF NoSuchUpload
<1>14. CASE Abort BY <1>14 DEF Abort, Delete
<1>15. CASE Arrives BY <1>15 DEF Arrives, Complete, LateInv, LatePut, LateComplete
<1>15a. CASE CompleteCut BY <1>15a DEF CompleteCut, Hiccup, Complete
<1>16. QED
  BY <1>1, <1>2, <1>3, <1>4, <1>5, <1>6, <1>7, <1>8, <1>9,
     <1>10, <1>11, <1>12, <1>13, <1>14, <1>15, <1>15a
  DEF Next

\* Every step keeps the types.
LEMMA TypeStep == S3Inv /\ Next => TypeOK'
<1> SUFFICES ASSUME S3Inv, Next PROVE TypeOK'
  OBVIOUS
<1>0. \A id \in uploads' \cup {upload'} : id \in 0..(Tries + 1)
  BY IdsStep, Positive DEF IdsInv
<1> USE <1>0, Positive DEF S3Inv, TypeOK, CallerInv, serverVars, callerVars
<1>1. CASE Create BY <1>1 DEF Create
<1>2. CASE CreateHiccup BY <1>2 DEF CreateHiccup, TryAgain
<1>3. CASE CreateRefused BY <1>3 DEF CreateRefused
<1>4. CASE Write BY <1>4 DEF Write
<1>5. CASE Close BY <1>5 DEF Close
<1>6. CASE JobFails BY <1>6 DEF JobFails
<1>7. CASE PutAnswered BY <1>7, GrownFacts DEF PutAnswered
<1>8. CASE PutHiccup BY <1>8 DEF PutHiccup, Hiccup, TryAgain
<1>9. CASE PutRefused BY <1>9 DEF PutRefused
<1>10. CASE CompleteAnswered BY <1>10 DEF CompleteAnswered
<1>11. CASE CompleteHiccup BY <1>11 DEF CompleteHiccup, Hiccup, TryAgain
<1>12. CASE CompleteRefused BY <1>12 DEF CompleteRefused
<1>13. CASE NoSuchUpload
  <2>1. harm' \in BOOLEAN BY <1>13 DEF NoSuchUpload
  <2>2. QED BY <1>13, <2>1 DEF NoSuchUpload
<1>14. CASE Abort BY <1>14 DEF Abort
<1>15. CASE Arrives BY <1>15 DEF Arrives
<1>15a. CASE CompleteCut BY <1>15a DEF CompleteCut, Hiccup
<1>16. QED
  BY <1>1, <1>2, <1>3, <1>4, <1>5, <1>6, <1>7, <1>8, <1>9,
     <1>10, <1>11, <1>12, <1>13, <1>14, <1>15, <1>15a
  DEF Next

\* ... the place of the caller, and the parts as far as they are acknowledged ...
LEMMA CallerStep == S3Inv /\ Next => CallerInv'
<1> SUFFICES ASSUME S3Inv, Next PROVE CallerInv'
  OBVIOUS
<1> USE Positive DEF S3Inv, TypeOK, CallerInv, serverVars, callerVars
<1>1. CASE Create
  <2>1. Tiles(etags, handed - buf)' BY <1>1 DEF Create, Tiles
  <2>2. QED BY <1>1, <2>1 DEF Create
<1>2. CASE CreateHiccup
  <2>1. Tiles(etags, handed - buf)' BY <1>2 DEF CreateHiccup, Tiles
  <2>2. QED BY <1>2, <2>1 DEF CreateHiccup, TryAgain
<1>3. CASE CreateRefused
  <2>1. Tiles(etags, handed - buf)' BY <1>3 DEF CreateRefused, Tiles
  <2>2. QED BY <1>3, <2>1 DEF CreateRefused
<1>4. CASE Write
  <2>1. handed' - buf' = handed - buf /\ etags' = etags BY <1>4 DEF Write
  <2>2. Tiles(etags, handed - buf)' BY <2>1 DEF Tiles
  <2>3. QED BY <1>4, <2>2 DEF Write
<1>5. CASE Close
  <2>1. Tiles(etags, handed - buf)' BY <1>5 DEF Close, Tiles
  <2>2. QED BY <1>5, <2>1 DEF Close
<1>6. CASE JobFails
  <2>1. Tiles(etags, handed - buf)' BY <1>6 DEF JobFails, Tiles
  <2>2. QED BY <1>6, <2>1 DEF JobFails
<1>7. CASE PutAnswered
  <2>1. etags' = Append(etags, Part) /\ handed' - buf' = handed
    BY <1>7 DEF PutAnswered
  <2>2. Tiles(Append(etags, Part), handed) BY PartFacts, TilesAppend DEF Part
  <2>3. Tiles(etags, handed - buf)' BY <2>1, <2>2 DEF Tiles
  <2>4. etags' \in Seq(PartPairs) BY <2>1, PartFacts
  <2>5. partSize' \in Nat \ {0} BY <1>7, GrownFacts DEF PutAnswered
  <2>6. pc' = "writing" => goal' = "none"
    BY <1>7 DEF PutAnswered
  <2>7. QED BY <1>7, <2>3, <2>4, <2>5, <2>6 DEF PutAnswered
<1>8. CASE PutHiccup
  <2>1. Tiles(etags, handed - buf)' BY <1>8 DEF PutHiccup, Tiles
  <2>2. QED BY <1>8, <2>1 DEF PutHiccup, Hiccup, TryAgain
<1>9. CASE PutRefused
  <2>1. Tiles(etags, handed - buf)' BY <1>9 DEF PutRefused, Tiles
  <2>2. QED BY <1>9, <2>1 DEF PutRefused
<1>10. CASE CompleteAnswered
  <2>1. Tiles(etags, handed - buf)' BY <1>10 DEF CompleteAnswered, Tiles
  <2>2. QED BY <1>10, <2>1 DEF CompleteAnswered
<1>11. CASE CompleteHiccup
  <2>1. Tiles(etags, handed - buf)' BY <1>11 DEF CompleteHiccup, Tiles
  <2>2. QED BY <1>11, <2>1 DEF CompleteHiccup, Hiccup, TryAgain
<1>12. CASE CompleteRefused
  <2>1. Tiles(etags, handed - buf)' BY <1>12 DEF CompleteRefused, Tiles
  <2>2. QED BY <1>12, <2>1 DEF CompleteRefused
<1>13. CASE NoSuchUpload
  <2>1. Tiles(etags, handed - buf)' BY <1>13 DEF NoSuchUpload, Tiles
  <2>2. QED BY <1>13, <2>1 DEF NoSuchUpload
<1>14. CASE Abort
  <2>1. Tiles(etags, handed - buf)' BY <1>14 DEF Abort, Tiles
  <2>2. QED BY <1>14, <2>1 DEF Abort
<1>15. CASE Arrives
  <2>1. Tiles(etags, handed - buf)' BY <1>15 DEF Arrives, Tiles
  <2>2. QED BY <1>15, <2>1 DEF Arrives
<1>15a. CASE CompleteCut
  <2>1. Tiles(etags, handed - buf)' BY <1>15a DEF CompleteCut, Tiles
  <2>2. QED BY <1>15a, <2>1 DEF CompleteCut
<1>16. QED
  BY <1>1, <1>2, <1>3, <1>4, <1>5, <1>6, <1>7, <1>8, <1>9,
     <1>10, <1>11, <1>12, <1>13, <1>14, <1>15, <1>15a
  DEF Next

\* ... the count of the attempts that failed ...
LEMMA HiccupStep == S3Inv /\ Next => HiccupInv'
<1> SUFFICES ASSUME S3Inv, Next PROVE HiccupInv'
  OBVIOUS
<1> USE Positive
    DEF S3Inv, TypeOK, CallerInv, HiccupInv, HiccupsDoNotKill, serverVars, callerVars
<1>1. CASE Create BY <1>1 DEF Create
<1>2. CASE CreateHiccup BY <1>2 DEF CreateHiccup, TryAgain
<1>3. CASE CreateRefused BY <1>3 DEF CreateRefused
<1>4. CASE Write BY <1>4 DEF Write
<1>5. CASE Close BY <1>5 DEF Close
<1>6. CASE JobFails BY <1>6 DEF JobFails
<1>7. CASE PutAnswered BY <1>7 DEF PutAnswered
<1>8. CASE PutHiccup BY <1>8 DEF PutHiccup, Hiccup, TryAgain
<1>9. CASE PutRefused BY <1>9 DEF PutRefused
<1>10. CASE CompleteAnswered BY <1>10 DEF CompleteAnswered
<1>11. CASE CompleteHiccup BY <1>11 DEF CompleteHiccup, Hiccup, TryAgain
<1>12. CASE CompleteRefused BY <1>12 DEF CompleteRefused
<1>13. CASE NoSuchUpload BY <1>13 DEF NoSuchUpload
<1>14. CASE Abort BY <1>14 DEF Abort
<1>15. CASE Arrives BY <1>15 DEF Arrives
<1>15a. CASE CompleteCut BY <1>15a DEF CompleteCut, Hiccup
<1>16. QED
  BY <1>1, <1>2, <1>3, <1>4, <1>5, <1>6, <1>7, <1>8, <1>9,
     <1>10, <1>11, <1>12, <1>13, <1>14, <1>15, <1>15a
  DEF Next

\* ... what is still on its way ...
LEMMA LateStep == S3Inv /\ Next => LateInv'
<1> SUFFICES ASSUME S3Inv, Next PROVE LateInv'
  OBVIOUS
<1> USE Positive
    DEF S3Inv, CallerInv, LateInv, LatePut, LateComplete, Part, partNum,
        serverVars, callerVars
<1>1. CASE Create BY <1>1 DEF Create
<1>2. CASE CreateHiccup BY <1>2 DEF CreateHiccup, TryAgain
<1>3. CASE CreateRefused BY <1>3 DEF CreateRefused
<1>4. CASE Write BY <1>4 DEF Write
<1>5. CASE Close BY <1>5 DEF Close
<1>6. CASE JobFails BY <1>6 DEF JobFails
<1>7. CASE PutAnswered
  <2>1. /\ etags' = Append(etags, Part) /\ late' = late
        /\ pc = "putting" /\ pc' # "creating"
    BY <1>7 DEF PutAnswered
  <2>2. /\ Len(etags') = Len(etags) + 1 /\ Len(etags) \in Nat
        /\ etags'[Len(etags) + 1] = Part
        /\ \A i \in 1..Len(etags) : etags'[i] = etags[i]
    BY <2>1, PartFacts
  <2>3. ASSUME NEW r \in late PROVE LatePut(r)'
    <3>1. LatePut(r) BY <2>1
    <3>2. r.n \in 1..Len(etags') /\ r.part = etags'[r.n]
      <4>1. CASE r.n <= Len(etags) BY <2>2, <3>1, <4>1
      <4>2. CASE r.n = Len(etags) + 1 BY <2>2, <3>1, <4>2
      <4>3. QED BY <2>2, <3>1, <4>1, <4>2
    <3>3. QED BY <2>2, <3>1, <3>2
  <2>4. QED BY <2>1, <2>3
<1>8. CASE PutHiccup
  <2> DEFINE new == [op |-> "put", n |-> partNum + 1, part |-> Part]
  <2>1. /\ pc = "putting" /\ pc' \in {"putting", "aborting"}
        /\ etags' = etags /\ Part' = Part /\ late' \subseteq late \cup {new}
    BY <1>8 DEF PutHiccup, Hiccup, TryAgain
  <2>2. partNum \in Nat OBVIOUS
  <2>3. LatePut(new)' BY <2>1, <2>2
  <2>4. \A r \in late : LatePut(r)' BY <2>1
  <2>5. QED BY <2>1, <2>3, <2>4
<1>9. CASE PutRefused BY <1>9 DEF PutRefused
<1>10. CASE CompleteAnswered BY <1>10 DEF CompleteAnswered
<1>11. CASE CompleteHiccup
  <2> DEFINE new == [op |-> "complete", n |-> 0, part |-> etags]
  <2>1. /\ pc = "completing" /\ pc' \in {"completing", "aborting"}
        /\ etags' = etags /\ Part' = Part /\ late' \subseteq late \cup {new}
    BY <1>11 DEF CompleteHiccup, Hiccup, TryAgain
  <2>2. LateComplete(new)' BY <2>1
  <2>3. \A r \in late : LatePut(r)' \/ LateComplete(r)' BY <2>1
  <2>4. QED BY <2>1, <2>2, <2>3
<1>12. CASE CompleteRefused BY <1>12 DEF CompleteRefused
<1>13. CASE NoSuchUpload BY <1>13 DEF NoSuchUpload
<1>14. CASE Abort BY <1>14 DEF Abort
<1>15. CASE Arrives BY <1>15 DEF Arrives
<1>15a. CASE CompleteCut
  <2> DEFINE new == [op |-> "complete", n |-> 0, part |-> etags]
  <2>1. /\ pc = "completing" /\ pc' = "returned"
        /\ etags' = etags /\ Part' = Part /\ late' \subseteq late \cup {new}
    BY <1>15a DEF CompleteCut, Hiccup
  <2>2. LateComplete(new)' BY <2>1
  <2>3. \A r \in late : LatePut(r)' \/ LateComplete(r)' BY <2>1
  <2>4. QED BY <2>1, <2>2, <2>3
<1>16. QED
  BY <1>1, <1>2, <1>3, <1>4, <1>5, <1>6, <1>7, <1>8, <1>9,
     <1>10, <1>11, <1>12, <1>13, <1>14, <1>15, <1>15a
  DEF Next

\* ... what the server holds ...
LEMMA ServerStep == S3Inv /\ Next => ServerInv'
<1> SUFFICES ASSUME S3Inv, Next PROVE ServerInv'
  OBVIOUS
<1>0. 0 \notin uploads' BY IdsStep DEF IdsInv
<1>0a. partNum \in Nat /\ Part \in PartPairs
  BY PartFacts DEF S3Inv, CallerInv, partNum
<1> USE <1>0, <1>0a
    DEF S3Inv, CallerInv, IdsInv, ServerInv, Part, partNum, serverVars, callerVars
<1>1. CASE Create BY <1>1 DEF Create
<1>2. CASE CreateHiccup BY <1>2 DEF CreateHiccup, TryAgain
<1>3. CASE CreateRefused BY <1>3 DEF CreateRefused
<1>4. CASE Write BY <1>4 DEF Write
<1>5. CASE Close BY <1>5 DEF Close
<1>6. CASE JobFails BY <1>6 DEF JobFails
<1>7. CASE PutAnswered
  <2>1. /\ pc = "putting" /\ etags' = Append(etags, Part) /\ pc' # "creating"
        /\ Store(partNum + 1, Part) /\ UNCHANGED <<uploads, upload, object>>
    BY <1>7 DEF PutAnswered
  <2>2. /\ Len(etags') = Len(etags) + 1 /\ etags'[Len(etags) + 1] = Part
        /\ \A i \in 1..Len(etags) : etags'[i] = etags[i]
    BY <2>1
  <2>3. /\ parts' \in Seq(PartPairs) /\ Len(parts') = Len(etags')
        /\ \A i \in 1..Len(etags') : parts'[i] = etags'[i]
    <3>1. partNum + 1 \in Nat \ {0} /\ partNum + 1 <= Len(parts) + 1 BY <2>1
    <3> HIDE DEF Part
    <3>2. /\ parts' \in Seq(PartPairs) /\ Len(parts') = Len(etags')
          /\ \A i \in 1..Len(parts') :
               parts'[i] = IF i = partNum + 1 THEN Part ELSE parts[i]
      BY <2>1, <2>2, <3>1, StoreFacts
    <3>3. QED BY <2>1, <2>2, <3>2
  <2>4. QED BY <2>1, <2>2, <2>3
<1>8. CASE PutHiccup
  <2>1. /\ pc = "putting" /\ pc' \in {"putting", "aborting"}
        /\ UNCHANGED <<etags, handed, buf, uploads, upload, object>>
        /\ Store(partNum + 1, Part) \/ parts' = parts
    BY <1>8 DEF PutHiccup, Hiccup, TryAgain
  <2>2. CASE parts' = parts BY <2>1, <2>2
  <2>3. CASE Store(partNum + 1, Part)
    <3>1. partNum + 1 \in Nat \ {0} /\ partNum + 1 <= Len(parts) + 1
      BY <2>1
    <3>2. /\ parts' \in Seq(PartPairs) /\ Len(parts') = partNum + 1
          /\ \A i \in 1..Len(parts') :
               parts'[i] = IF i = partNum + 1 THEN Part ELSE parts[i]
      <4> HIDE DEF Part
      <4>1. QED BY <2>1, <2>3, <3>1, StoreFacts
    <3>3. \A i \in 1..partNum : parts'[i] = etags[i] BY <2>1, <3>2
    <3>4. QED BY <2>1, <3>2, <3>3
  <2>4. QED BY <2>1, <2>2, <2>3
<1>9. CASE PutRefused BY <1>9 DEF PutRefused
<1>10. CASE CompleteAnswered BY <1>10 DEF CompleteAnswered, Complete
<1>11. CASE CompleteHiccup BY <1>11 DEF CompleteHiccup, Hiccup, TryAgain, Complete
<1>12. CASE CompleteRefused BY <1>12 DEF CompleteRefused
<1>13. CASE NoSuchUpload BY <1>13 DEF NoSuchUpload
<1>14. CASE Abort BY <1>14 DEF Abort, Delete
<1>15. CASE Arrives
  <2>0. UNCHANGED <<pc, goal, handed, buf, etags, upload>> BY <1>15 DEF Arrives
  <2>1. PICK r \in late :
          \/ r.op = "put" /\ Store(r.n, r.part) /\ UNCHANGED <<object, uploads>>
          \/ r.op = "complete" /\ Complete(r.part) /\ UNCHANGED parts
    BY <1>15 DEF Arrives
  <2>2. (LatePut(r) \/ LateComplete(r)) /\ pc # "creating" BY DEF LateInv
  <2>3. CASE r.op = "complete"
    <3>1. LateComplete(r) BY <2>2, <2>3 DEF LatePut
    <3>2. Complete(r.part) /\ UNCHANGED parts BY <2>1, <2>3
    <3>3. QED BY <2>0, <3>1, <3>2 DEF LateComplete, Complete
  <2>4. CASE r.op = "put"
    <3>1. LatePut(r) BY <2>2, <2>4 DEF LateComplete
    <3>2. Store(r.n, r.part) /\ UNCHANGED <<object, uploads>> BY <2>1, <2>4
    <3>3. r.n \in Nat \ {0} /\ r.part \in PartPairs
      <4>1. r.n \in 1..(Len(etags) + 1) BY <3>1 DEF LatePut
      <4>2. CASE r.n <= Len(etags)
        <5>1. r.n \in 1..Len(etags) /\ r.part = etags[r.n]
          BY <3>1, <4>1, <4>2 DEF LatePut
        <5>2. QED BY <4>1, <5>1
      <4>3. CASE r.n = Len(etags) + 1
        <5>1. r.part = Part BY <3>1, <4>3 DEF LatePut
        <5>2. QED BY <1>0a, <4>1, <4>3, <5>1
      <4>4. QED BY <4>1, <4>2, <4>3
    <3>4. upload \in uploads => r.n <= Len(parts) + 1 BY <3>1 DEF LatePut
    <3>5. /\ parts' \in Seq(PartPairs)
          /\ upload \in uploads =>
               /\ Len(parts') = IF r.n <= Len(parts) THEN Len(parts)
                                ELSE Len(parts) + 1
               /\ \A i \in 1..Len(parts') :
                    parts'[i] = IF i = r.n THEN r.part ELSE parts[i]
      BY <3>2, <3>3, <3>4, StoreFacts
    <3>6. pc # "creating" BY DEF LateInv
    <3>7. ASSUME upload \in uploads
          PROVE  /\ Len(parts') \in {partNum, partNum + 1}
                 /\ \A i \in 1..partNum : parts'[i] = etags[i]
                 /\ Len(parts') = partNum + 1 =>
                      /\ parts'[partNum + 1] = Part
                      /\ pc \in {"putting", "aborting", "returned"}
      <4> USE DEF LatePut
      <4> HIDE DEF Part
      <4>1. CASE r.n <= partNum
        <5>1. Len(parts') = Len(parts) /\ r.part = etags[r.n]
          BY <3>1, <3>5, <3>7, <4>1
        <5>2. \A i \in 1..partNum : parts'[i] = etags[i]
          BY <3>5, <3>7, <5>1
        <5>3. Len(parts') = partNum + 1 => parts'[partNum + 1] = parts[partNum + 1]
          BY <3>5, <3>7, <4>1, <5>1
        <5>4. QED BY <3>7, <5>1, <5>2, <5>3 DEF Part
      <4>2. CASE r.n = partNum + 1 BY <3>1, <3>5, <3>7, <4>2 DEF Part
      <4>3. QED BY <3>1, <3>3, <4>1, <4>2
    <3>8. QED BY <2>0, <3>2, <3>5, <3>6, <3>7
  <2>5. QED BY <2>1, <2>3, <2>4
<1>15a. CASE CompleteCut BY <1>15a DEF CompleteCut, Hiccup, Complete
<1>16. QED
  BY <1>1, <1>2, <1>3, <1>4, <1>5, <1>6, <1>7, <1>8, <1>9,
     <1>10, <1>11, <1>12, <1>13, <1>14, <1>15, <1>15a
  DEF Next

\* ... and what a success rests on.
LEMMA SuccessStep == S3Inv /\ Next => SuccessInv'
<1> SUFFICES ASSUME S3Inv, Next PROVE SuccessInv'
  OBVIOUS
<1> USE DEF S3Inv, CallerInv, ServerInv, SuccessInv, serverVars, callerVars
<1>1. CASE Create BY <1>1 DEF Create
<1>2. CASE CreateHiccup BY <1>2 DEF CreateHiccup, TryAgain
<1>3. CASE CreateRefused BY <1>3 DEF CreateRefused
<1>4. CASE Write BY <1>4 DEF Write
<1>5. CASE Close BY <1>5 DEF Close
<1>6. CASE JobFails BY <1>6 DEF JobFails
<1>7. CASE PutAnswered
  BY <1>7 DEF PutAnswered
<1>8. CASE PutHiccup BY <1>8 DEF PutHiccup, Hiccup, TryAgain
<1>9. CASE PutRefused BY <1>9 DEF PutRefused
<1>10. CASE CompleteAnswered BY <1>10 DEF CompleteAnswered, Complete
<1>11. CASE CompleteHiccup BY <1>11 DEF CompleteHiccup, Hiccup, TryAgain, Complete
<1>12. CASE CompleteRefused BY <1>12 DEF CompleteRefused
<1>13. CASE NoSuchUpload BY <1>13 DEF NoSuchUpload
<1>14. CASE Abort BY <1>14 DEF Abort, Delete
<1>15. CASE Arrives BY <1>15 DEF Arrives, Complete, LateInv, LatePut, LateComplete
<1>15a. CASE CompleteCut BY <1>15a DEF CompleteCut, Hiccup, Complete
<1>16. QED
  BY <1>1, <1>2, <1>3, <1>4, <1>5, <1>6, <1>7, <1>8, <1>9,
     <1>10, <1>11, <1>12, <1>13, <1>14, <1>15, <1>15a
  DEF Next

LEMMA S3Invariant == Spec => []S3Inv
<1>1. Init => S3Inv
  <2> SUFFICES ASSUME Init PROVE S3Inv
    OBVIOUS
  <2> USE Positive DEF Init
  <2>1. TypeOK
    <3>1. FirstSize \in FirstSize..(2 * MaxSize) OBVIOUS
    <3>2. harm \in BOOLEAN OBVIOUS
    <3>3. \A id \in uploads \cup {upload} : id \in 0..(Tries + 1) OBVIOUS
    <3>4. QED BY <3>1, <3>2, <3>3 DEF TypeOK
  <2>2. CallerInv BY DEF CallerInv, Tiles
  <2>3. HiccupInv BY DEF HiccupInv, HiccupsDoNotKill
  <2>4. IdsInv
    <3>1. {} = 1..0 OBVIOUS
    <3>2. QED BY <3>1 DEF IdsInv
  <2>5. ServerInv
    <3>1. <<>> \in Seq(PartPairs) /\ OldObject \in Seq(PartPairs)
      BY DEF OldObject, PartPairs
    <3>2. QED BY <3>1 DEF ServerInv, NoObject
  <2>6. LateInv /\ SuccessInv BY DEF LateInv, SuccessInv
  <2>7. QED BY <2>1, <2>2, <2>3, <2>4, <2>5, <2>6 DEF S3Inv
<1>2. S3Inv /\ [Next]_vars => S3Inv'
  <2>1. S3Inv /\ UNCHANGED vars => S3Inv'
    <3> SUFFICES ASSUME S3Inv, UNCHANGED vars PROVE S3Inv'
      OBVIOUS
    <3> USE DEF S3Inv, vars
    <3>1. TypeOK' BY DEF TypeOK
    <3>2. CallerInv' BY DEF CallerInv, Tiles
    <3>3. HiccupInv' BY DEF HiccupInv, HiccupsDoNotKill
    <3>4. IdsInv' /\ SuccessInv' BY DEF IdsInv, SuccessInv
    <3>5. ServerInv' BY DEF ServerInv, Part, partNum
    <3>6. LateInv' BY DEF LateInv, LatePut, LateComplete, Part, partNum
    <3>7. QED BY <3>1, <3>2, <3>3, <3>4, <3>5, <3>6
  <2>2. QED
    BY <2>1, TypeStep, CallerStep, HiccupStep, IdsStep, ServerStep, LateStep,
       SuccessStep
    DEF S3Inv
<1>3. QED BY <1>1, <1>2, PTL DEF Spec

\* Type correctness for images, parts and bounds of every size; the buffer never
\* outgrows a part.
THEOREM TypeCorrect == Spec => []TypeOK
<1>1. S3Inv => TypeOK BY DEF S3Inv
<1>2. QED BY <1>1, S3Invariant, PTL

\* uploadPart: whatever was sent twice or came late, the acknowledged parts are
\* the image up to the buffer, and the open upload holds them.
THEOREM Acknowledged == Spec => []AcknowledgedIsStored
<1>1. S3Inv => AcknowledgedIsStored
  BY DEF S3Inv, CallerInv, ServerInv, AcknowledgedIsStored, partNum
<1>2. QED BY <1>1, S3Invariant, PTL

\* retry and complete: without a refusal, Close fails only after as many
\* transient failures as a request has attempts.
THEOREM HiccupsSurvived == Spec => []HiccupsDoNotKill
<1>1. S3Inv => HiccupsDoNotKill BY DEF S3Inv, HiccupInv
<1>2. QED BY <1>1, S3Invariant, PTL

-----------------------------------------------------------------------------
(* Refinement                                                              *)

Object == IF Tiles(object, image) THEN "whole" ELSE "other"
Status == IF pc # "returned" THEN "running"
          ELSE IF verdict = "ok" THEN "ok" ELSE "error"

\* A success is over: the object is this image and no request can change it.
LEMMA SuccessIsWhole ==
  S3Inv /\ verdict = "ok" => Tiles(object, image) /\ pc = "returned"
<1> SUFFICES ASSUME S3Inv, verdict = "ok"
             PROVE  Tiles(object, image) /\ pc = "returned"
  OBVIOUS
<1>1. object = etags /\ handed - buf = image /\ pc = "returned"
  BY DEF S3Inv, TypeOK, CallerInv, SuccessInv
<1>2. Tiles(etags, handed - buf) BY DEF S3Inv, CallerInv
<1>3. QED BY <1>1, <1>2

\* A call that has returned keeps its verdict, and the image keeps its length.
LEMMA VerdictStays ==
  Next => /\ image' = image
          /\ pc = "returned" => pc' = "returned" /\ verdict' = verdict
BY DEF Next, callerVars, Create, CreateHiccup, CreateRefused, Write, Close,
       JobFails, PutAnswered, PutHiccup, PutRefused, CompleteAnswered,
       CompleteHiccup, CompleteCut, CompleteRefused, NoSuchUpload, Abort, Arrives

\* Every step is a step of the contract, or none of its business.
LEMMA ContractStep ==
  S3Inv /\ S3Inv' /\ [Next]_vars => [Contract!Next]_(Contract!vars)
<1> SUFFICES ASSUME S3Inv, S3Inv', [Next]_vars
             PROVE  [Contract!Next]_(Contract!vars)
  OBVIOUS
<1> DEFINE O == Object  St == Status
<1>0. /\ O \in {"whole", "other"} /\ O' \in {"whole", "other"}
      /\ verdict = "ok" => O = "whole" /\ St = "ok"
      /\ verdict' = "ok" => O' = "whole" /\ St' = "ok"
  <2>1. verdict' = "ok" => Tiles(object, image)' /\ pc' = "returned"
    BY DEF S3Inv, TypeOK, CallerInv, SuccessInv
  <2>2. QED BY <2>1, SuccessIsWhole DEF Object, Status
<1>1. \/ UNCHANGED <<O, St>>
      \/ St # "ok" /\ St' = St
      \/ St = "running" /\ St' = "ok" /\ O' = "whole"
      \/ St = "running" /\ St' = "error"
  <2>1. CASE UNCHANGED vars
    BY <2>1 DEF vars, Object, Status, Tiles
  <2>2. CASE Next /\ pc # "returned" BY <1>0, <2>2 DEF Status
  <2>3. CASE Next /\ pc = "returned"
    <3>1. pc' = "returned" /\ verdict' = verdict BY <2>3, VerdictStays
    <3>2. St' = St BY <2>3, <3>1 DEF Status
    <3>3. QED BY <1>0, <2>3, <3>1, <3>2 DEF Status
  <2>4. QED BY <2>1, <2>2, <2>3
<1>2. QED
  BY <1>0, <1>1 DEF Object, Status, Contract!Next, Contract!vars, Contract!Store,
                    Contract!Succeed, Contract!Fail

\* s3.go keeps UploadContract: nil from Close, also one that rests on a HEAD,
\* means the image is there, and no late request undoes it -- with the exception
\* that the property names, a 200 cut short behind which nothing was completed.
THEOREM S3ImplementsContract == Spec => Implements
<1>1. Init => Contract!Init
  BY Positive DEF Init, Contract!Init, Tiles, NoObject, OldObject
<1>2. QED
  BY <1>1, S3Invariant, ContractStep, PTL DEF Spec, Implements, Contract!Spec

-----------------------------------------------------------------------------
(* The limit on part numbers                                               *)

\* size[j] is the size of a part after j doublings, of which there are J.
Doubles(size, J) ==
  /\ size[0] = FirstSize /\ \A j \in Nat : size[j + 1] = 2 * size[j]
  /\ size[J] >= MaxSize /\ \A j \in Nat : j < J => size[j] < MaxSize

\* What the parts hold when the r-th part of the j-th size has been sent.
Held(size, j, r) == GrowEvery * (size[j] - FirstSize) + r * size[j]

\* Every part but the last one is full.
FilledInv(size, J) ==
  /\ pc \in {"creating", "writing", "putting"} =>
       \E j \in 0..J, r \in Nat :
         /\ partSize = size[j] /\ partNum = GrowEvery * j + r
         /\ j < J => r < GrowEvery
         /\ handed - buf = Held(size, j, r)
  /\ pc = "putting" => /\ buf > 0 \/ partNum = 0
                       /\ goal = "none" => buf = partSize

LEMMA LastOfItsSize ==
  ASSUME NEW g \in Nat \ {0}, NEW j \in Nat, NEW r \in Nat, r < g
  PROVE  (g * j + r + 1) % g = 0 <=> r + 1 = g
<1>1. g * j \in Nat OBVIOUS
<1>2. CASE r + 1 = g
  <2>1. g * j + r + 1 = g * (j + 1) BY <1>2
  <2>2. (g * (j + 1)) % g = 0 OBVIOUS
  <2>3. QED BY <1>2, <2>1, <2>2
<1>3. CASE r + 1 < g
  <2>1. (g * j + r + 1) % g = r + 1 BY <1>3
  <2>2. QED BY <1>3, <2>1
<1>4. QED BY <1>2, <1>3

LEMMA HeldGrows ==
  ASSUME NEW g \in Nat, NEW a \in Nat, NEW f \in Nat, NEW r \in Nat, f <= a
  PROVE  /\ g * (a - f) + r * a + a = g * (a - f) + (r + 1) * a
         /\ r + 1 = g => g * (a - f) + r * a + a = g * (2 * a - f) + 0 * (2 * a)
<1>1. (r + 1) * a = r * a + a OBVIOUS
<1>2. ASSUME r + 1 = g PROVE g * (2 * a - f) = g * (a - f) + g * a
  <2>1. 2 * a - f = (a - f) + a OBVIOUS
  <2>2. g * ((a - f) + a) = g * (a - f) + g * a OBVIOUS
  <2>3. QED BY <2>1, <2>2
<1>3. QED BY <1>1, <1>2

LEMMA FilledStep ==
  ASSUME NEW size \in [Nat -> Nat \ {0}], NEW J \in Nat, Doubles(size, J)
  PROVE  S3Inv /\ FilledInv(size, J) /\ Next => FilledInv(size, J)'
<1> SUFFICES ASSUME S3Inv, FilledInv(size, J), Next PROVE FilledInv(size, J)'
  OBVIOUS
<1> USE DEF FilledInv
<1>1. CASE Create BY <1>1 DEF Create, callerVars, partNum
<1>2. CASE CreateHiccup BY <1>2 DEF CreateHiccup, callerVars, partNum, TryAgain
<1>3. CASE CreateRefused BY <1>3 DEF CreateRefused, callerVars, partNum
<1>4. CASE Write
  <2>1. handed' - buf' = handed - buf /\ UNCHANGED <<etags, partSize, goal>>
    BY <1>4 DEF Write, S3Inv, TypeOK
  <2>2. pc = "writing" /\ buf' > 0 /\ (pc' = "putting" => buf' = partSize)
    BY <1>4 DEF Write, S3Inv, TypeOK
  <2>3. QED BY <2>1, <2>2 DEF partNum
<1>5. CASE Close
  <2>1. buf \in Nat /\ buf' = buf /\ handed' = handed
    BY <1>5 DEF Close, callerVars, S3Inv, TypeOK
  <2>2. QED BY <1>5, <2>1 DEF Close, callerVars, partNum
<1>6. CASE JobFails BY <1>6 DEF JobFails, callerVars, partNum
<1>7. CASE PutAnswered
  <2>1. CASE goal = "close" BY <1>7, <2>1 DEF PutAnswered
  <2>2. CASE goal # "close"
    <3>1. pc = "putting" /\ pc' = "writing" /\ buf = partSize /\ buf' = 0
          /\ partSize' = Grown /\ handed' = handed /\ goal' = goal
      BY <1>7, <2>2 DEF PutAnswered, S3Inv, CallerInv, TypeOK
    <3>2. partNum' = partNum + 1
      BY <1>7 DEF PutAnswered, partNum, S3Inv, CallerInv
    <3>3. PICK j \in 0..J, r \in Nat :
            /\ partSize = size[j] /\ partNum = GrowEvery * j + r
            /\ j < J => r < GrowEvery
            /\ handed - buf = Held(size, j, r)
      BY <3>1
    <3>4. size[j] \in Nat /\ FirstSize <= size[j]
      BY <3>3 DEF S3Inv, TypeOK
    <3>5. handed' - buf' = Held(size, j, r) + size[j]
      BY <3>1, <3>3, <3>4 DEF S3Inv, TypeOK, Held
    <3>6. CASE j < J /\ r + 1 = GrowEvery
      <4>1. partSize' = size[j + 1]
        <5>1. (GrowEvery * j + r + 1) % GrowEvery = 0
          BY <3>3, <3>6, Positive, LastOfItsSize
        <5>2. (partNum + 1) % GrowEvery = 0 BY <3>3, <5>1
        <5>3. partSize < MaxSize BY <3>3, <3>6 DEF Doubles
        <5>4. QED BY <3>1, <3>3, <5>2, <5>3 DEF Grown, Doubles
      <4>2. partNum' = GrowEvery * (j + 1) + 0
        BY <3>2, <3>3, <3>6, Positive
      <4>3. Held(size, j, r) + size[j] = Held(size, j + 1, 0)
        <5>1. size[j + 1] = 2 * size[j] BY <3>3 DEF Doubles
        <5>2. Held(size, j, r) + size[j]
                = GrowEvery * (2 * size[j] - FirstSize) + 0 * (2 * size[j])
          BY <3>3, <3>4, <3>6, Positive, HeldGrows DEF Held
        <5>3. QED BY <5>1, <5>2 DEF Held
      <4>4. QED
        BY <3>1, <3>5, <3>6, <4>1, <4>2, <4>3, Positive
    <3>7. CASE ~(j < J /\ r + 1 = GrowEvery)
      <4>1. partSize' = size[j]
        <5>1. CASE j < J
          <6>1. r < GrowEvery /\ r + 1 # GrowEvery BY <3>3, <3>7, <5>1
          <6>2. ~((GrowEvery * j + r + 1) % GrowEvery = 0)
            <7>1. j \in Nat /\ r \in Nat BY <3>3
            <7>2. (GrowEvery * j + r + 1) % GrowEvery = 0 <=> r + 1 = GrowEvery
              BY <6>1, <7>1, Positive, LastOfItsSize
            <7>3. QED BY <6>1, <7>2
          <6>3. ~((partNum + 1) % GrowEvery = 0) BY <3>3, <6>2
          <6>4. QED BY <3>1, <3>3, <6>3 DEF Grown
        <5>2. CASE j = J
          <6>1. ~(partSize < MaxSize)
            BY <3>3, <3>4, <5>2, Positive DEF Doubles
          <6>2. QED BY <3>1, <3>3, <6>1 DEF Grown
        <5>3. QED BY <5>1, <5>2
      <4>2. Held(size, j, r) + size[j] = Held(size, j, r + 1)
        BY <3>4, Positive, HeldGrows DEF Held
      <4>3. partNum' = GrowEvery * j + (r + 1) BY <3>2, <3>3, Positive
      <4>4. j < J => r + 1 < GrowEvery BY <3>3, <3>7, Positive
      <4>5. QED BY <3>1, <3>5, <4>1, <4>2, <4>3, <4>4
    <3>8. QED BY <3>6, <3>7
  <2>3. QED BY <2>1, <2>2
<1>8. CASE PutHiccup BY <1>8 DEF PutHiccup, callerVars, partNum, TryAgain
<1>9. CASE PutRefused BY <1>9 DEF PutRefused
<1>10. CASE CompleteAnswered BY <1>10 DEF CompleteAnswered
<1>11. CASE CompleteHiccup BY <1>11 DEF CompleteHiccup, TryAgain
<1>12. CASE CompleteRefused BY <1>12 DEF CompleteRefused
<1>13. CASE NoSuchUpload BY <1>13 DEF NoSuchUpload
<1>14. CASE Abort BY <1>14 DEF Abort
<1>15. CASE Arrives BY <1>15 DEF Arrives, callerVars, partNum
<1>15a. CASE CompleteCut BY <1>15a DEF CompleteCut
<1>16. QED
  BY <1>1, <1>2, <1>3, <1>4, <1>5, <1>6, <1>7, <1>8, <1>9, <1>10, <1>11, <1>12,
     <1>13, <1>14, <1>15, <1>15a
  DEF Next

\* uploadPart: an image that all the parts the server takes can hold, in sizes
\* that double up to the cap, never needs a part more.  For 8 MiB, 1000 parts,
\* 256 MiB and 10000 that is 191000 times 8 MiB, or 1.46 TiB.
THEOREM FitsTheLimit ==
  ASSUME NEW size \in [Nat -> Nat \ {0}], NEW J \in Nat, Doubles(size, J),
         GrowEvery * J <= PartLimit,
         Chunks <= Held(size, J, PartLimit - GrowEvery * J)
  PROVE  Spec => []WithinLimit
<1>1. Init => FilledInv(size, J)
  <2> SUFFICES ASSUME Init PROVE FilledInv(size, J)
    OBVIOUS
  <2>1. partSize = size[0] /\ partNum = GrowEvery * 0 + 0
    BY Positive DEF Init, Doubles, partNum
  <2>2. handed - buf = Held(size, 0, 0) BY Positive DEF Init, Held, Doubles
  <2>3. QED BY <2>1, <2>2, Positive DEF Init, FilledInv
<1>2. S3Inv /\ FilledInv(size, J) /\ [Next]_vars => FilledInv(size, J)'
  <2>1. FilledInv(size, J) /\ UNCHANGED vars => FilledInv(size, J)'
    BY DEF vars, FilledInv, partNum
  <2>2. QED BY <2>1, FilledStep
<1>3. S3Inv /\ FilledInv(size, J) => WithinLimit
  <2> SUFFICES ASSUME S3Inv, FilledInv(size, J), pc = "putting",
                      partNum >= PartLimit
               PROVE  FALSE
    BY Positive DEF WithinLimit, S3Inv, CallerInv, partNum
  <2>1. PICK j \in 0..J, r \in Nat :
          /\ partNum = GrowEvery * j + r /\ (j < J => r < GrowEvery)
          /\ handed - buf = Held(size, j, r)
    BY DEF FilledInv
  <2>2. j = J
    <3> SUFFICES ASSUME j < J PROVE FALSE
      OBVIOUS
    <3>1. GrowEvery * j + GrowEvery <= GrowEvery * J
      <4>1. PICK d \in Nat : J = j + 1 + d
        <5>1. J - (j + 1) \in Nat OBVIOUS
        <5>2. QED BY <5>1
      <4>2. GrowEvery * (j + 1 + d) = GrowEvery * j + GrowEvery + GrowEvery * d
        BY Positive
      <4>3. GrowEvery * d \in Nat BY Positive
      <4>4. QED BY <4>1, <4>2, <4>3, Positive
    <3>2. GrowEvery * j \in Nat /\ GrowEvery * J \in Nat BY Positive
    <3>3. QED BY <2>1, <3>1, <3>2, Positive
  <2> DEFINE q == PartLimit - GrowEvery * J
  <2>3. q \in Nat /\ q <= r
    <3>1. GrowEvery * J \in Nat BY Positive
    <3>2. QED BY <2>1, <2>2, <3>1, Positive
  <2>4. q * size[J] <= r * size[J] /\ GrowEvery * (size[J] - FirstSize) \in Int
        /\ q * size[J] \in Nat /\ r * size[J] \in Nat
    <3> HIDE DEF q
    <3>1. PICK d \in Nat : r = q + d
      <4>1. r - q \in Nat BY <2>3
      <4>2. QED BY <2>3, <4>1
    <3>2. (q + d) * size[J] = q * size[J] + d * size[J] BY <2>3
    <3>3. d * size[J] \in Nat /\ q * size[J] \in Nat BY <2>3
    <3>4. GrowEvery * (size[J] - FirstSize) \in Int BY Positive
    <3>5. QED BY <3>1, <3>2, <3>3, <3>4
  <2>5. Held(size, J, q) <= Held(size, J, r) BY <2>4 DEF Held
  <2>6. handed - buf >= Chunks
    <3>1. Held(size, J, q) \in Int /\ Held(size, J, r) \in Int BY <2>4 DEF Held
    <3>2. QED BY <2>1, <2>2, <2>5, <3>1, Positive
  <2>7. handed <= Chunks /\ buf > 0 /\ buf \in Nat /\ handed \in Nat
    BY Positive DEF S3Inv, TypeOK, FilledInv
  <2>8. QED BY <2>6, <2>7, Positive
<1>4. QED BY <1>1, <1>2, <1>3, S3Invariant, PTL DEF Spec
=============================================================================
