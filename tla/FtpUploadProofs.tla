--------------------------- MODULE FtpUploadProofs ---------------------------
(***************************************************************************)
(* What the FTP writer promises, for images and windows of every size.     *)
(*                                                                         *)
(* StorInv follows the image through the goroutine: an end of the copy     *)
(* without an error came behind the last chunk.  LineInv says what can be  *)
(* under way on the control connection: until finish sends a command of its *)
(* own, nothing but the reply to STOR, and from then on the goroutine reads *)
(* no reply any more.                                                       *)
(***************************************************************************)
EXTENDS FtpUpload, TLAPS

\* Before finish sends a command.
Early == {"opening", "writing", "select", "teardown", "verify"}

PhaseInv ==
  /\ pc \in {"opening", "writing"} => goal = "none"
  /\ pc \in {"select", "teardown", "deleting", "verify", "sizing", "quit"}
       => goal # "none"
  /\ pc \in {"verify", "sizing"} => goal = "close" /\ timedOut
  /\ goal = "close" => handed = Chunks
  /\ pc \notin {"quit", "returned"} => verdict = "none"
  /\ pc \in {"teardown", "deleting", "quit", "returned"} /\ ~timedOut
       => stor = "over"
  /\ pc \in {"deleting", "sizing"} => mu = "main"
  /\ pc \notin Early /\ stor # "over" => ctrl = "down" \/ mu = "main"

StorInv ==
  /\ stor = "over" <=> pipe = "closed"
  /\ stor = "over" <=> done # "empty"
  /\ stor = "reading" <=> mu = "stor"
  /\ pipe = "eof" => goal = "close"
  /\ stor = "asking" => srv = "waiting"
  /\ srv = "waiting" => stor \in {"asking", "over"} /\ replies = <<>>
  /\ stor \in {"asking", "copying"} =>
       data # "closed" /\ handed = IF hold THEN sent + 1 ELSE sent
  /\ stor # "copying" => ~hold
  /\ stor \in {"replying", "reading"} =>
       data # "open" /\ (~copyErr => sent = handed /\ pipe = "eof")
  /\ done = "nil" => got = Chunks

\* What is sent on the control connection, and answered.
LineInv ==
  /\ pc \in Early => cmds = <<>>
  /\ pc \in Early => replies \in {<<>>, <<Reply(226)>>, <<Reply(426)>>}
  /\ pc \in Early /\ srv # "idle" => replies = <<>>
  /\ pc \in Early /\ replies = <<Reply(226)>> => got = sent /\ data # "open"
  /\ replies \in Seq([code : Codes, size : 0..got])

SuccessInv ==
  /\ pc \in Early \cup {"sizing"} \/ verdict = "ok"
       => ~gone /\ cmds \in Seq({"SIZE", "QUIT"})
  /\ verdict = "ok" => got = Chunks

AnsweredInv ==
  /\ answered => stor = "over" /\ srv = "idle"
  /\ answered /\ pc \in Early => replies = <<>>
  /\ pc = "deleting" /\ answered /\ ~timedOut =>
       /\ cmds \in Seq({"DELE"})
       /\ gone \/ replies \in Seq([code : {550}, size : 0..got])
  /\ verdict = "removed" /\ answered /\ ~timedOut => gone

FtpInv == TypeOK /\ PhaseInv /\ StorInv /\ LineInv /\ SuccessInv /\ AnsweredInv

-----------------------------------------------------------------------------
(* Sequences                                                               *)

\* A sequence over a set is one over every larger set.
LEMMA Widen ==
  ASSUME NEW S, NEW T, S \subseteq T, NEW s \in Seq(S)
  PROVE  s \in Seq(T)
OBVIOUS

\* More of the image in store allows for more answers to SIZE.
LEMMA WidenReplies ==
  ASSUME NEW C, NEW n \in Nat, NEW m \in Nat, n <= m,
         NEW s \in Seq([code : C, size : 0..n])
  PROVE  s \in Seq([code : C, size : 0..m])
<1>1. [code : C, size : 0..n] \subseteq [code : C, size : 0..m] OBVIOUS
<1>2. QED BY <1>1, Widen

\* What comes in over the control connection is the reply at the head.
LEMMA IncomingType ==
  ASSUME NEW S, replies \in Seq(S)
  PROVE  /\ Incoming \in S \cup {NoReply}
         /\ Rest \in Seq(S)
BY DEF Incoming, Rest, NoReply

\* An answer that reaches the client joins the replies.
LEMMA AnswerType ==
  ASSUME NEW S, replies \in Seq(S), NEW r \in S, Answer(r)
  PROVE  replies' \in Seq(S)
BY DEF Answer

\* Before finish sends a command, the reply to STOR is all there is to read.
LEMMA OnlyReply ==
  ASSUME replies \in {<<>>, <<Reply(226)>>, <<Reply(426)>>}
  PROVE  /\ Rest \in {<<>>, replies}
         /\ Incoming # NoReply => Rest = <<>> /\ replies # <<>>
         /\ Positive(Incoming) => replies = <<Reply(226)>>
<1>1. CASE Incoming = NoReply
  BY <1>1 DEF Rest, NoReply, Reply, Positive
<1>2. CASE Incoming # NoReply
  <2>1. ctrl = "up" /\ replies # <<>> BY <1>2 DEF Incoming
  <2>2. PICK c \in {226, 426} : replies = <<Reply(c)>> BY <2>1
  <2>3. Incoming = Reply(c) /\ Rest = <<>>
    BY <1>2, <2>1, <2>2 DEF Incoming, Rest
  <2>4. Positive(Incoming) => c = 226 BY <2>3 DEF Positive, Reply
  <2>5. QED BY <2>1, <2>2, <2>3, <2>4
<1>3. QED BY <1>1, <1>2

\* The commands of the client are answered by what the server has.
LEMMA CommandShape ==
  ASSUME ServerCommand, got \in Nat
  PROVE  \/ UNCHANGED replies /\ UNCHANGED gone
         \/ Answer([code |-> 213, size |-> got]) /\ UNCHANGED gone
            /\ Head(cmds) = "SIZE"
         \/ Answer(Reply(250)) /\ gone' = TRUE /\ Head(cmds) = "DELE"
         \/ Answer(Reply(550)) /\ UNCHANGED gone
BY DEF ServerCommand

\* Whatever the replies are taken from, ServerCommand's are, too.
LEMMA CommandType ==
  ASSUME NEW S, replies \in Seq(S), got \in Nat,
         [code |-> 213, size |-> got] \in S, Reply(250) \in S, Reply(550) \in S,
         ServerCommand
  PROVE  replies' \in Seq(S)
<1>1. CASE UNCHANGED replies BY <1>1
<1>2. CASE Answer([code |-> 213, size |-> got]) BY <1>2, AnswerType
<1>3. CASE Answer(Reply(250)) BY <1>3, AnswerType
<1>4. CASE Answer(Reply(550)) BY <1>4, AnswerType
<1>5. QED BY <1>1, <1>2, <1>3, <1>4, CommandShape

\* A step of the server that adds an answer keeps the type of the replies.
LEMMA ServerType ==
  ASSUME NEW n \in Nat, got \in 0..n,
         replies \in Seq([code : Codes, size : 0..n]),
         ServerEnds \/ ServerFails \/ ServerCommand
  PROVE  replies' \in Seq([code : Codes, size : 0..n])
<1> DEFINE R == [code : Codes, size : 0..n]
<1>1. /\ Reply(226) \in R /\ Reply(426) \in R /\ Reply(250) \in R
      /\ Reply(550) \in R /\ [code |-> 213, size |-> got] \in R
  BY DEF Reply, Codes
<1>2. replies \in Seq(R) OBVIOUS
<1>3. replies' \in Seq(R)
  <2> HIDE DEF R
  <2>1. CASE ServerEnds BY <1>1, <1>2, <2>1, AnswerType DEF ServerEnds
  <2>2. CASE ServerFails BY <1>1, <1>2, <2>2, AnswerType DEF ServerFails
  <2>3. CASE ServerCommand BY <1>1, <1>2, <2>3, CommandType
  <2>4. QED BY <2>1, <2>2, <2>3
<1>4. QED BY <1>3

-----------------------------------------------------------------------------
(* Every step keeps the invariant                                          *)

\* The phases ...
LEMMA PhasesStep == FtpInv /\ Next => PhasesOK'
<1> SUFFICES ASSUME FtpInv, Next PROVE PhasesOK'
  OBVIOUS
<1> USE FtpAssumption DEF FtpInv, TypeOK, PhasesOK, FlagsOK, CountsOK, LinesOK,
                          callerVars, storVars, serverVars, lineVars
<1>1. CASE StorAccepted BY <1>1 DEF StorAccepted
<1>2. CASE StorRefused BY <1>2 DEF StorRefused, StorOver
<1>3. CASE DataWrite BY <1>3 DEF DataWrite
<1>4. CASE DataFails BY <1>4 DEF DataFails, LeaveCopy
<1>5. CASE CopyEnds BY <1>5 DEF CopyEnds, LeaveCopy
<1>6. CASE StorLocks BY <1>6 DEF StorLocks
<1>7. CASE StorReads
  BY <1>7 DEF StorReads, StorOver, Positive, Incoming, Rest, NoReply, Reply
<1>8. CASE OpenReturns BY <1>8 DEF OpenReturns
<1>9. CASE Write BY <1>9 DEF Write
<1>10. CASE Close BY <1>10 DEF Close, Finish
<1>11. CASE WriteFails BY <1>11 DEF WriteFails, Finish
<1>12. CASE JobFails BY <1>12 DEF JobFails, Finish
<1>13. CASE SelectDone BY <1>13 DEF SelectDone
<1>14. CASE SelectTimeout BY <1>14 DEF SelectTimeout, Stalled
<1>15. CASE Teardown BY <1>15 DEF Teardown, Send, Locked, Drop, NotRemoved
<1>16. CASE Deleting
  BY <1>16
  DEF Deleting, Positive, Incoming, Rest, Drop, NotRemoved, NoReply, Reply
<1>17. CASE Verify BY <1>17 DEF Verify, Send, Locked, Drop
<1>18. CASE Sizing BY <1>18 DEF Sizing, Incoming, Rest, NoReply, Reply
<1>19. CASE Quit BY <1>19 DEF Quit
<1>20. CASE ServerStores BY <1>20 DEF ServerStores
<1>21. CASE ServerEnds BY <1>21 DEF ServerEnds, Answer, Reply
<1>22. CASE ServerFails BY <1>22 DEF ServerFails, Answer, Reply
<1>23. CASE ServerCommand BY <1>23 DEF ServerCommand, Answer, Reply
<1>24. CASE ControlLost BY <1>24 DEF ControlLost
<1>25. QED
  BY <1>1, <1>2, <1>3, <1>4, <1>5, <1>6, <1>7, <1>8, <1>9, <1>10, <1>11, <1>12,
     <1>13, <1>14, <1>15, <1>16, <1>17, <1>18, <1>19, <1>20, <1>21, <1>22,
     <1>23, <1>24
  DEF Next, Caller, Stor, Server

\* ... the flags ...
LEMMA FlagsStep == FtpInv /\ Next => FlagsOK'
<1> SUFFICES ASSUME FtpInv, Next PROVE FlagsOK'
  OBVIOUS
<1> USE FtpAssumption DEF FtpInv, TypeOK, PhasesOK, FlagsOK, CountsOK, LinesOK,
                          callerVars, storVars, serverVars, lineVars
<1>1. CASE StorAccepted BY <1>1 DEF StorAccepted
<1>2. CASE StorRefused BY <1>2 DEF StorRefused, StorOver
<1>3. CASE DataWrite BY <1>3 DEF DataWrite
<1>4. CASE DataFails BY <1>4 DEF DataFails, LeaveCopy
<1>5. CASE CopyEnds BY <1>5 DEF CopyEnds, LeaveCopy
<1>6. CASE StorLocks BY <1>6 DEF StorLocks
<1>7. CASE StorReads
  BY <1>7 DEF StorReads, StorOver, Positive, Incoming, Rest, NoReply, Reply
<1>8. CASE OpenReturns BY <1>8 DEF OpenReturns
<1>9. CASE Write BY <1>9 DEF Write
<1>10. CASE Close BY <1>10 DEF Close, Finish
<1>11. CASE WriteFails BY <1>11 DEF WriteFails, Finish
<1>12. CASE JobFails BY <1>12 DEF JobFails, Finish
<1>13. CASE SelectDone BY <1>13 DEF SelectDone
<1>14. CASE SelectTimeout BY <1>14 DEF SelectTimeout, Stalled
<1>15. CASE Teardown BY <1>15 DEF Teardown, Send, Locked, Drop, NotRemoved
<1>16. CASE Deleting
  BY <1>16
  DEF Deleting, Positive, Incoming, Rest, Drop, NotRemoved, NoReply, Reply
<1>17. CASE Verify BY <1>17 DEF Verify, Send, Locked, Drop
<1>18. CASE Sizing BY <1>18 DEF Sizing, Incoming, Rest, NoReply, Reply
<1>19. CASE Quit BY <1>19 DEF Quit
<1>20. CASE ServerStores BY <1>20 DEF ServerStores
<1>21. CASE ServerEnds BY <1>21 DEF ServerEnds, Answer, Reply
<1>22. CASE ServerFails BY <1>22 DEF ServerFails, Answer, Reply
<1>23. CASE ServerCommand BY <1>23 DEF ServerCommand, Answer, Reply
<1>24. CASE ControlLost BY <1>24 DEF ControlLost
<1>25. QED
  BY <1>1, <1>2, <1>3, <1>4, <1>5, <1>6, <1>7, <1>8, <1>9, <1>10, <1>11, <1>12,
     <1>13, <1>14, <1>15, <1>16, <1>17, <1>18, <1>19, <1>20, <1>21, <1>22,
     <1>23, <1>24
  DEF Next, Caller, Stor, Server

\* ... the counters ...
LEMMA CountsStep == FtpInv /\ Next => CountsOK'
<1> SUFFICES ASSUME FtpInv, Next PROVE CountsOK'
  OBVIOUS
<1> USE FtpAssumption DEF FtpInv, TypeOK, PhasesOK, FlagsOK, CountsOK, LinesOK,
                          StorInv, PhaseInv, callerVars, storVars, serverVars,
                          lineVars
<1>1. CASE StorAccepted BY <1>1 DEF StorAccepted
<1>2. CASE StorRefused BY <1>2 DEF StorRefused, StorOver
<1>3. CASE DataWrite BY <1>3 DEF DataWrite
<1>4. CASE DataFails BY <1>4 DEF DataFails, LeaveCopy
<1>5. CASE CopyEnds BY <1>5 DEF CopyEnds, LeaveCopy
<1>6. CASE StorLocks BY <1>6 DEF StorLocks
<1>7. CASE StorReads
  BY <1>7 DEF StorReads, StorOver, Positive, Incoming, Rest, NoReply, Reply
<1>8. CASE OpenReturns BY <1>8 DEF OpenReturns
<1>9. CASE Write BY <1>9 DEF Write
<1>10. CASE Close BY <1>10 DEF Close, Finish
<1>11. CASE WriteFails BY <1>11 DEF WriteFails, Finish
<1>12. CASE JobFails BY <1>12 DEF JobFails, Finish
<1>13. CASE SelectDone BY <1>13 DEF SelectDone
<1>14. CASE SelectTimeout BY <1>14 DEF SelectTimeout, Stalled
<1>15. CASE Teardown BY <1>15 DEF Teardown, Send, Locked, Drop, NotRemoved
<1>16. CASE Deleting
  BY <1>16
  DEF Deleting, Positive, Incoming, Rest, Drop, NotRemoved, NoReply, Reply
<1>17. CASE Verify BY <1>17 DEF Verify, Send, Locked, Drop
<1>18. CASE Sizing BY <1>18 DEF Sizing, Incoming, Rest, NoReply, Reply
<1>19. CASE Quit BY <1>19 DEF Quit
<1>20. CASE ServerStores BY <1>20 DEF ServerStores
<1>21. CASE ServerEnds BY <1>21 DEF ServerEnds, Answer, Reply
<1>22. CASE ServerFails BY <1>22 DEF ServerFails, Answer, Reply
<1>23. CASE ServerCommand BY <1>23 DEF ServerCommand, Answer, Reply
<1>24. CASE ControlLost BY <1>24 DEF ControlLost
<1>25. QED
  BY <1>1, <1>2, <1>3, <1>4, <1>5, <1>6, <1>7, <1>8, <1>9, <1>10, <1>11, <1>12,
     <1>13, <1>14, <1>15, <1>16, <1>17, <1>18, <1>19, <1>20, <1>21, <1>22,
     <1>23, <1>24
  DEF Next, Caller, Stor, Server

\* ... and the lines on the way.
LEMMA LinesStep == FtpInv /\ Next => LinesOK'
<1> SUFFICES ASSUME FtpInv, Next PROVE LinesOK'
  OBVIOUS
<1> USE FtpAssumption DEF FtpInv, TypeOK, PhasesOK, FlagsOK, CountsOK, LinesOK,
                          LineInv, callerVars, storVars, serverVars, lineVars
<1>1. CASE StorAccepted BY <1>1 DEF StorAccepted
<1>2. CASE StorRefused BY <1>2 DEF StorRefused, StorOver
<1>3. CASE DataWrite BY <1>3 DEF DataWrite
<1>4. CASE DataFails BY <1>4 DEF DataFails, LeaveCopy
<1>5. CASE CopyEnds BY <1>5 DEF CopyEnds, LeaveCopy
<1>6. CASE StorLocks BY <1>6 DEF StorLocks
<1>7. CASE StorReads
  BY <1>7 DEF StorReads, StorOver, Positive, Incoming, Rest, NoReply, Reply
<1>8. CASE OpenReturns BY <1>8 DEF OpenReturns
<1>9. CASE Write BY <1>9 DEF Write
<1>10. CASE Close BY <1>10 DEF Close, Finish
<1>11. CASE WriteFails BY <1>11 DEF WriteFails, Finish
<1>12. CASE JobFails BY <1>12 DEF JobFails, Finish
<1>13. CASE SelectDone BY <1>13 DEF SelectDone
<1>14. CASE SelectTimeout BY <1>14 DEF SelectTimeout, Stalled
<1>15. CASE Teardown
  <2>1. CASE cmds' = Append(cmds, "DELE")
    BY <1>15, <2>1 DEF Teardown, Send, Locked, Drop
  <2>2. CASE cmds' = cmds BY <1>15, <2>2 DEF Teardown, Send, Locked, Drop
  <2>3. QED BY <1>15, <2>1, <2>2 DEF Teardown, Send
<1>16. CASE Deleting
  BY <1>16
  DEF Deleting, Positive, Incoming, Rest, Drop, NotRemoved, NoReply, Reply
<1>17. CASE Verify
  <2>1. CASE cmds' = Append(cmds, "SIZE")
    BY <1>17, <2>1 DEF Verify, Send, Locked, Drop
  <2>2. CASE cmds' = cmds BY <1>17, <2>2 DEF Verify, Send, Locked, Drop
  <2>3. QED BY <1>17, <2>1, <2>2 DEF Verify, Send
<1>18. CASE Sizing BY <1>18 DEF Sizing, Incoming, Rest, NoReply, Reply
<1>19. CASE Quit BY <1>19 DEF Quit
<1>20. CASE ServerStores BY <1>20 DEF ServerStores
<1>21. CASE ServerEnds
  <2>1. replies' \in Seq([code : Codes, size : 0..Chunks])
    BY <1>21, ServerType
  <2>2. QED BY <1>21, <2>1 DEF ServerEnds
<1>22. CASE ServerFails
  <2>1. replies' \in Seq([code : Codes, size : 0..Chunks])
    BY <1>22, ServerType
  <2>2. QED BY <1>22, <2>1 DEF ServerFails
<1>23. CASE ServerCommand
  <2>1. replies' \in Seq([code : Codes, size : 0..Chunks])
    BY <1>23, ServerType
  <2>2. QED BY <1>23, <2>1 DEF ServerCommand
<1>24. CASE ControlLost BY <1>24 DEF ControlLost
<1>25. QED
  BY <1>1, <1>2, <1>3, <1>4, <1>5, <1>6, <1>7, <1>8, <1>9, <1>10, <1>11, <1>12,
     <1>13, <1>14, <1>15, <1>16, <1>17, <1>18, <1>19, <1>20, <1>21, <1>22,
     <1>23, <1>24
  DEF Next, Caller, Stor, Server

\* Where the caller is.
LEMMA PhaseInvStep == FtpInv /\ Next => PhaseInv'
<1> SUFFICES ASSUME FtpInv, Next PROVE PhaseInv'
  OBVIOUS
<1> USE FtpAssumption DEF FtpInv, TypeOK, PhasesOK, FlagsOK, CountsOK, LinesOK,
                          PhaseInv, StorInv, Early, callerVars, storVars,
                          serverVars, lineVars
<1>1. CASE StorAccepted BY <1>1 DEF StorAccepted
<1>2. CASE StorRefused BY <1>2 DEF StorRefused, StorOver
<1>3. CASE DataWrite BY <1>3 DEF DataWrite
<1>4. CASE DataFails BY <1>4 DEF DataFails, LeaveCopy
<1>5. CASE CopyEnds BY <1>5 DEF CopyEnds, LeaveCopy
<1>6. CASE StorLocks BY <1>6 DEF StorLocks
<1>7. CASE StorReads
  BY <1>7 DEF StorReads, StorOver, Positive, Incoming, Rest, NoReply, Reply
<1>8. CASE OpenReturns BY <1>8 DEF OpenReturns
<1>9. CASE Write BY <1>9 DEF Write
<1>10. CASE Close BY <1>10 DEF Close, Finish
<1>11. CASE WriteFails BY <1>11 DEF WriteFails, Finish
<1>12. CASE JobFails BY <1>12 DEF JobFails, Finish
<1>13. CASE SelectDone BY <1>13 DEF SelectDone
<1>14. CASE SelectTimeout BY <1>14 DEF SelectTimeout, Stalled
<1>15. CASE Teardown BY <1>15 DEF Teardown, Send, Locked, Drop, NotRemoved
<1>16. CASE Deleting
  BY <1>16
  DEF Deleting, Positive, Incoming, Rest, Drop, NotRemoved, NoReply, Reply
<1>17. CASE Verify BY <1>17 DEF Verify, Send, Locked, Drop
<1>18. CASE Sizing BY <1>18 DEF Sizing, Incoming, Rest, NoReply, Reply
<1>19. CASE Quit BY <1>19 DEF Quit
<1>20. CASE ServerStores BY <1>20 DEF ServerStores
<1>21. CASE ServerEnds BY <1>21 DEF ServerEnds, Answer, Reply
<1>22. CASE ServerFails BY <1>22 DEF ServerFails, Answer, Reply
<1>23. CASE ServerCommand BY <1>23 DEF ServerCommand, Answer, Reply
<1>24. CASE ControlLost BY <1>24 DEF ControlLost
<1>25. QED
  BY <1>1, <1>2, <1>3, <1>4, <1>5, <1>6, <1>7, <1>8, <1>9, <1>10, <1>11, <1>12,
     <1>13, <1>14, <1>15, <1>16, <1>17, <1>18, <1>19, <1>20, <1>21, <1>22,
     <1>23, <1>24
  DEF Next, Caller, Stor, Server

\* What the goroutine has done.
LEMMA StorInvStep == FtpInv /\ Next => StorInv'
<1> SUFFICES ASSUME FtpInv, Next PROVE StorInv'
  OBVIOUS
<1> USE FtpAssumption DEF FtpInv, TypeOK, PhasesOK, FlagsOK, CountsOK, LinesOK,
                          PhaseInv, StorInv, LineInv, Early, callerVars,
                          storVars, serverVars, lineVars
<1>1. CASE StorAccepted BY <1>1 DEF StorAccepted
<1>2. CASE StorRefused BY <1>2 DEF StorRefused, StorOver
<1>3. CASE DataWrite BY <1>3 DEF DataWrite
<1>4. CASE DataFails BY <1>4 DEF DataFails, LeaveCopy
<1>5. CASE CopyEnds
  <2>1. CASE pipe = "broken"
    <3>1. copyErr' = TRUE BY <1>5, <2>1 DEF CopyEnds, LeaveCopy
    <3>2. QED BY <1>5, <2>1, <3>1 DEF CopyEnds, LeaveCopy
  <2>2. CASE pipe = "eof" BY <1>5, <2>2 DEF CopyEnds, LeaveCopy
  <2>3. QED BY <1>5, <2>1, <2>2 DEF CopyEnds
<1>6. CASE StorLocks BY <1>6 DEF StorLocks
<1>7. CASE StorReads
  BY <1>7 DEF StorReads, StorOver, Positive, Incoming, Rest, NoReply, Reply
<1>8. CASE OpenReturns BY <1>8 DEF OpenReturns
<1>9. CASE Write BY <1>9 DEF Write
<1>10. CASE Close BY <1>10 DEF Close, Finish
<1>11. CASE WriteFails BY <1>11 DEF WriteFails, Finish
<1>12. CASE JobFails BY <1>12 DEF JobFails, Finish
<1>13. CASE SelectDone BY <1>13 DEF SelectDone
<1>14. CASE SelectTimeout BY <1>14 DEF SelectTimeout, Stalled
<1>15. CASE Teardown BY <1>15 DEF Teardown, Send, Locked, Drop, NotRemoved
<1>16. CASE Deleting
  BY <1>16
  DEF Deleting, Positive, Incoming, Rest, Drop, NotRemoved, NoReply, Reply
<1>17. CASE Verify BY <1>17 DEF Verify, Send, Locked, Drop
<1>18. CASE Sizing BY <1>18 DEF Sizing, Incoming, Rest, NoReply, Reply
<1>19. CASE Quit BY <1>19 DEF Quit
<1>20. CASE ServerStores BY <1>20 DEF ServerStores
<1>21. CASE ServerEnds BY <1>21 DEF ServerEnds, Answer, Reply
<1>22. CASE ServerFails BY <1>22 DEF ServerFails, Answer, Reply
<1>23. CASE ServerCommand BY <1>23 DEF ServerCommand, Answer, Reply
<1>24. CASE ControlLost BY <1>24 DEF ControlLost
<1>25. QED
  BY <1>1, <1>2, <1>3, <1>4, <1>5, <1>6, <1>7, <1>8, <1>9, <1>10, <1>11, <1>12,
     <1>13, <1>14, <1>15, <1>16, <1>17, <1>18, <1>19, <1>20, <1>21, <1>22,
     <1>23, <1>24
  DEF Next, Caller, Stor, Server

\* What is under way.
LEMMA LineInvStep == FtpInv /\ Next => LineInv'
<1> SUFFICES ASSUME FtpInv, Next PROVE LineInv'
  OBVIOUS
<1> USE FtpAssumption DEF FtpInv, TypeOK, PhasesOK, FlagsOK, CountsOK, LinesOK,
                          PhaseInv, StorInv, LineInv, Early, callerVars,
                          storVars, serverVars, lineVars
<1>1. CASE StorAccepted BY <1>1 DEF StorAccepted
<1>2. CASE StorRefused BY <1>2 DEF StorRefused, StorOver
<1>3. CASE DataWrite BY <1>3 DEF DataWrite
<1>4. CASE DataFails BY <1>4 DEF DataFails, LeaveCopy
<1>5. CASE CopyEnds BY <1>5 DEF CopyEnds, LeaveCopy
<1>6. CASE StorLocks BY <1>6 DEF StorLocks
<1>7. CASE StorReads
  <2>1. Rest \in Seq([code : Codes, size : 0..got]) BY IncomingType
  <2>2. pc \in Early => Rest \in {<<>>, replies} BY OnlyReply
  <2>3. replies' = Rest /\ UNCHANGED <<pc, cmds, srv, got, sent, data>>
    BY <1>7 DEF StorReads
  <2>4. QED BY <2>1, <2>2, <2>3
<1>8. CASE OpenReturns BY <1>8 DEF OpenReturns
<1>9. CASE Write BY <1>9 DEF Write
<1>10. CASE Close BY <1>10 DEF Close, Finish
<1>11. CASE WriteFails BY <1>11 DEF WriteFails, Finish
<1>12. CASE JobFails BY <1>12 DEF JobFails, Finish
<1>13. CASE SelectDone BY <1>13 DEF SelectDone
<1>14. CASE SelectTimeout BY <1>14 DEF SelectTimeout, Stalled
<1>15. CASE Teardown BY <1>15 DEF Teardown, Send, Locked, Drop, NotRemoved
<1>16. CASE Deleting
  <2>1. Rest \in Seq([code : Codes, size : 0..got]) BY IncomingType
  <2>2. replies' = Rest /\ got' = got /\ pc' \in {"quit", "returned"}
    BY <1>16 DEF Deleting, Drop
  <2>3. QED BY <2>1, <2>2
<1>17. CASE Verify BY <1>17 DEF Verify, Send, Locked, Drop
<1>18. CASE Sizing BY <1>18 DEF Sizing, Incoming, Rest, NoReply, Reply
<1>19. CASE Quit BY <1>19 DEF Quit
<1>20. CASE ServerStores
  <2>1. replies \in Seq([code : Codes, size : 0..(got + 1)])
    <3>1. got \in Nat /\ got + 1 \in Nat /\ got <= got + 1 OBVIOUS
    <3>2. replies \in Seq([code : Codes, size : 0..got]) OBVIOUS
    <3> HIDE DEF FtpInv, LineInv, LinesOK, TypeOK
    <3>3. QED BY <3>1, <3>2, WidenReplies
  <2>2. got' = got + 1 /\ UNCHANGED <<pc, cmds, replies, srv, sent, data>>
    BY <1>20 DEF ServerStores
  <2>3. QED BY <1>20, <2>1, <2>2 DEF ServerStores
<1>21. CASE ServerEnds
  <2>1. replies' \in Seq([code : Codes, size : 0..got]) BY <1>21, ServerType
  <2>2. got = sent /\ data # "open" /\ srv' = "idle"
        /\ UNCHANGED <<pc, cmds, got, sent, data>>
    BY <1>21 DEF ServerEnds
  <2>3. pc \in Early => replies' \in {<<>>, <<Reply(226)>>}
    <3>1. replies' \in {replies, Append(replies, Reply(226))} /\ srv = "storing"
      BY <1>21 DEF ServerEnds, Answer
    <3>2. Append(<<>>, Reply(226)) = <<Reply(226)>> OBVIOUS
    <3>3. QED BY <3>1, <3>2
  <2>4. QED BY <2>1, <2>2, <2>3
<1>22. CASE ServerFails
  <2>1. replies' \in Seq([code : Codes, size : 0..got]) BY <1>22, ServerType
  <2>2. srv' = "idle" /\ UNCHANGED <<pc, cmds, got, sent>>
    BY <1>22 DEF ServerFails
  <2>3. pc \in Early => replies' \in {<<>>, <<Reply(426)>>}
    <3>1. replies' \in {replies, Append(replies, Reply(426))} /\ srv = "storing"
      BY <1>22 DEF ServerFails, Answer
    <3>2. Append(<<>>, Reply(426)) = <<Reply(426)>> OBVIOUS
    <3>3. QED BY <3>1, <3>2
  <2>4. Reply(426) # Reply(226) BY DEF Reply
  <2>5. QED BY <2>1, <2>2, <2>3, <2>4
<1>23. CASE ServerCommand
  <2>1. replies' \in Seq([code : Codes, size : 0..got]) BY <1>23, ServerType
  <2>2. pc \notin Early BY <1>23 DEF ServerCommand
  <2>3. QED BY <1>23, <2>1, <2>2 DEF ServerCommand
<1>24. CASE ControlLost BY <1>24 DEF ControlLost
<1>25. QED
  BY <1>1, <1>2, <1>3, <1>4, <1>5, <1>6, <1>7, <1>8, <1>9, <1>10, <1>11, <1>12,
     <1>13, <1>14, <1>15, <1>16, <1>17, <1>18, <1>19, <1>20, <1>21, <1>22,
     <1>23, <1>24
  DEF Next, Caller, Stor, Server

\* What success rests on.
LEMMA SuccessInvStep == FtpInv /\ Next => SuccessInv'
<1> SUFFICES ASSUME FtpInv, Next PROVE SuccessInv'
  OBVIOUS
<1> USE FtpAssumption DEF FtpInv, TypeOK, PhasesOK, FlagsOK, CountsOK, LinesOK,
                          PhaseInv, StorInv, LineInv, SuccessInv, Early,
                          callerVars, storVars, serverVars, lineVars
<1>1. CASE StorAccepted BY <1>1 DEF StorAccepted
<1>2. CASE StorRefused BY <1>2 DEF StorRefused, StorOver
<1>3. CASE DataWrite BY <1>3 DEF DataWrite
<1>4. CASE DataFails BY <1>4 DEF DataFails, LeaveCopy
<1>5. CASE CopyEnds BY <1>5 DEF CopyEnds, LeaveCopy
<1>6. CASE StorLocks BY <1>6 DEF StorLocks
<1>7. CASE StorReads
  BY <1>7 DEF StorReads, StorOver, Positive, Incoming, Rest, NoReply, Reply
<1>8. CASE OpenReturns BY <1>8 DEF OpenReturns
<1>9. CASE Write BY <1>9 DEF Write
<1>10. CASE Close BY <1>10 DEF Close, Finish
<1>11. CASE WriteFails BY <1>11 DEF WriteFails, Finish
<1>12. CASE JobFails BY <1>12 DEF JobFails, Finish
<1>13. CASE SelectDone BY <1>13 DEF SelectDone
<1>14. CASE SelectTimeout BY <1>14 DEF SelectTimeout, Stalled
<1>15. CASE Teardown BY <1>15 DEF Teardown, Send, Locked, Drop, NotRemoved
<1>16. CASE Deleting
  BY <1>16
  DEF Deleting, Positive, Incoming, Rest, Drop, NotRemoved, NoReply, Reply
<1>17. CASE Verify
  <2>1. CASE Locked
    <3>1. cmds' = <<"SIZE">> /\ UNCHANGED <<gone, verdict>>
      BY <1>17, <2>1 DEF Verify, Send
    <3>2. QED BY <1>17, <3>1 DEF Verify
  <2>2. CASE ~Locked BY <1>17, <2>2 DEF Verify, Send, Drop
  <2>3. QED BY <2>1, <2>2
<1>18. CASE Sizing
  <2>1. verdict' = "ok" => Incoming.code = 213 /\ Incoming.size = Chunks
    BY <1>18 DEF Sizing
  <2>2. Incoming \in [code : Codes, size : 0..got] \cup {NoReply}
    BY IncomingType
  <2>3. verdict' = "ok" => Incoming.size \in 0..got
    BY <2>1, <2>2 DEF NoReply, Reply
  <2>4. verdict' = "ok" => got = Chunks BY <2>1, <2>3
  <2>5. QED BY <1>18, <2>4 DEF Sizing
<1>19. CASE Quit BY <1>19 DEF Quit
<1>20. CASE ServerStores BY <1>20 DEF ServerStores
<1>21. CASE ServerEnds BY <1>21 DEF ServerEnds, Answer, Reply
<1>22. CASE ServerFails BY <1>22 DEF ServerFails, Answer, Reply
<1>23. CASE ServerCommand BY <1>23 DEF ServerCommand, Answer, Reply
<1>24. CASE ControlLost BY <1>24 DEF ControlLost
<1>25. QED
  BY <1>1, <1>2, <1>3, <1>4, <1>5, <1>6, <1>7, <1>8, <1>9, <1>10, <1>11, <1>12,
     <1>13, <1>14, <1>15, <1>16, <1>17, <1>18, <1>19, <1>20, <1>21, <1>22,
     <1>23, <1>24
  DEF Next, Caller, Stor, Server

\* What an answered abort rests on.
LEMMA AnsweredInvStep == FtpInv /\ Next => AnsweredInv'
<1> SUFFICES ASSUME FtpInv, Next PROVE AnsweredInv'
  OBVIOUS
<1> USE FtpAssumption DEF FtpInv, TypeOK, PhasesOK, FlagsOK, CountsOK, LinesOK,
                          PhaseInv, StorInv, LineInv, SuccessInv, AnsweredInv,
                          Early, callerVars, storVars, serverVars, lineVars
<1>1. CASE StorAccepted BY <1>1 DEF StorAccepted
<1>2. CASE StorRefused BY <1>2 DEF StorRefused, StorOver
<1>3. CASE DataWrite BY <1>3 DEF DataWrite
<1>4. CASE DataFails BY <1>4 DEF DataFails, LeaveCopy
<1>5. CASE CopyEnds BY <1>5 DEF CopyEnds, LeaveCopy
<1>6. CASE StorLocks BY <1>6 DEF StorLocks
<1>7. CASE StorReads
  <2>1. UNCHANGED <<pc, srv, verdict, timedOut, gone>> /\ replies' = Rest
        /\ stor' = "over" /\ answered' = (Incoming # NoReply)
    BY <1>7 DEF StorReads, StorOver
  <2>2. CASE pc \in Early
    <3>1. Incoming # NoReply => Rest = <<>> /\ srv = "idle"
      BY <2>2, OnlyReply
    <3>2. verdict = "none" BY <2>2
    <3>3. QED BY <2>1, <2>2, <3>1, <3>2
  <2>3. CASE pc \notin Early
    <3>1. ctrl = "down" BY <1>7, <2>3 DEF StorReads
    <3>2. Incoming = NoReply BY <3>1 DEF Incoming
    <3>3. QED BY <2>1, <3>2
  <2>4. QED BY <2>2, <2>3
<1>8. CASE OpenReturns BY <1>8 DEF OpenReturns
<1>9. CASE Write BY <1>9 DEF Write
<1>10. CASE Close BY <1>10 DEF Close, Finish
<1>11. CASE WriteFails BY <1>11 DEF WriteFails, Finish
<1>12. CASE JobFails BY <1>12 DEF JobFails, Finish
<1>13. CASE SelectDone BY <1>13 DEF SelectDone
<1>14. CASE SelectTimeout BY <1>14 DEF SelectTimeout, Stalled
<1>15. CASE Teardown
  <2>1. CASE Locked
    <3>1. cmds' = <<"DELE">> /\ pc' = "deleting"
          /\ UNCHANGED <<stor, srv, replies, verdict, answered, timedOut, gone,
                         got>>
      BY <1>15, <2>1 DEF Teardown, Send
    <3>2. answered => replies = <<>> BY <1>15 DEF Teardown
    <3>3. cmds' \in Seq({"DELE"}) BY <3>1
    <3>4. answered => replies \in Seq([code : {550}, size : 0..got]) BY <3>2
    <3>5. QED BY <1>15, <3>1, <3>3, <3>4 DEF Teardown
  <2>2. CASE ~Locked BY <1>15, <2>2 DEF Teardown, Send, Drop, NotRemoved
  <2>3. QED BY <2>1, <2>2
<1>16. CASE Deleting
  <2>1. UNCHANGED <<stor, srv, answered, timedOut, gone>>
        /\ pc' \in {"quit", "returned"}
        /\ (verdict' = "removed" => Positive(Incoming))
    BY <1>16 DEF Deleting, Drop, NotRemoved
  <2>2. answered /\ ~timedOut /\ Positive(Incoming) => gone
    <3>1. SUFFICES ASSUME replies \in Seq([code : {550}, size : 0..got])
                   PROVE  ~Positive(Incoming)
      BY <1>16 DEF Deleting
    <3>2. Incoming \in [code : {550}, size : 0..got] \cup {NoReply}
      BY <3>1, IncomingType
    <3>3. Incoming.code \in {550, 0} BY <3>2 DEF NoReply, Reply
    <3>4. QED BY <3>3 DEF Positive
  <2>3. QED BY <2>1, <2>2
<1>17. CASE Verify BY <1>17 DEF Verify, Send, Locked, Drop
<1>18. CASE Sizing BY <1>18 DEF Sizing, Incoming, Rest, NoReply, Reply
<1>19. CASE Quit BY <1>19 DEF Quit
<1>20. CASE ServerStores
  <2>1. /\ got' = got + 1
        /\ UNCHANGED <<pc, stor, srv, verdict, timedOut, answered, gone, cmds,
                       replies>>
    BY <1>20 DEF ServerStores
  <2>2. srv # "idle" BY <1>20 DEF ServerStores
  <2>3. QED BY <2>1, <2>2
<1>21. CASE ServerEnds BY <1>21 DEF ServerEnds, Answer, Reply
<1>22. CASE ServerFails BY <1>22 DEF ServerFails, Answer, Reply
<1>23. CASE ServerCommand
  <2>1. srv = "idle" /\ cmds # <<>> /\ cmds' = Tail(cmds)
        /\ UNCHANGED <<pc, stor, srv, verdict, timedOut, answered, got>>
    BY <1>23 DEF ServerCommand
  <2>2. pc \notin Early BY <2>1
  <2>3. gone => gone' BY <1>23 DEF ServerCommand
  <2>4. ASSUME pc = "deleting", answered, ~timedOut
        PROVE  /\ cmds' \in Seq({"DELE"})
               /\ gone' \/ replies' \in Seq([code : {550}, size : 0..got])
    <3>1. cmds \in Seq({"DELE"}) BY <2>4
    <3>2. Head(cmds) = "DELE" /\ cmds' \in Seq({"DELE"}) BY <2>1, <3>1
    <3>3. CASE gone BY <2>3, <3>2, <3>3
    <3>4. CASE gone' BY <3>2, <3>4
    <3>5. CASE ~gone /\ ~gone'
      <4>1. Answer(Reply(550)) BY <1>23, <3>2, <3>5 DEF ServerCommand
      <4>2. Reply(550) \in [code : {550}, size : 0..got] BY DEF Reply
      <4>3. replies' \in Seq([code : {550}, size : 0..got])
        BY <2>4, <3>5, <4>1, <4>2, AnswerType
      <4>4. QED BY <3>2, <4>3
    <3>6. QED BY <3>3, <3>4, <3>5
  <2>5. QED BY <2>1, <2>2, <2>3, <2>4
<1>24. CASE ControlLost BY <1>24 DEF ControlLost
<1>25. QED
  BY <1>1, <1>2, <1>3, <1>4, <1>5, <1>6, <1>7, <1>8, <1>9, <1>10, <1>11, <1>12,
     <1>13, <1>14, <1>15, <1>16, <1>17, <1>18, <1>19, <1>20, <1>21, <1>22,
     <1>23, <1>24
  DEF Next, Caller, Stor, Server

\* FtpInv holds at the start ...
LEMMA InitInv == Init => FtpInv
<1> SUFFICES ASSUME Init PROVE FtpInv
  OBVIOUS
<1> USE FtpAssumption DEF Init
<1>1. TypeOK
  <2>1. PhasesOK /\ FlagsOK BY DEF PhasesOK, FlagsOK
  <2>2. CountsOK BY DEF CountsOK
  <2>3. LinesOK
    <3>1. <<>> \in Seq({"SIZE", "DELE", "QUIT"})
          /\ <<>> \in Seq([code : Codes, size : 0..Chunks])
      OBVIOUS
    <3>2. cmds = <<>> /\ replies = <<>> OBVIOUS
    <3>3. QED BY <3>1, <3>2 DEF LinesOK
  <2>4. QED BY <2>1, <2>2, <2>3 DEF TypeOK
<1>2. PhaseInv /\ StorInv BY DEF PhaseInv, StorInv, Early
<1>3. LineInv BY DEF LineInv
<1>4. SuccessInv /\ AnsweredInv BY DEF SuccessInv, AnsweredInv, Early
<1>5. QED BY <1>1, <1>2, <1>3, <1>4 DEF FtpInv

\* ... stays if nothing happens ...
LEMMA StutterInv == FtpInv /\ UNCHANGED vars => FtpInv'
<1> SUFFICES ASSUME FtpInv, UNCHANGED vars PROVE FtpInv'
  OBVIOUS
<1> USE DEF FtpInv, vars
<1>1. TypeOK' BY DEF TypeOK, PhasesOK, FlagsOK, CountsOK, LinesOK
<1>2. PhaseInv' /\ StorInv' BY DEF PhaseInv, StorInv
<1>3. LineInv' BY DEF LineInv
<1>4. SuccessInv' /\ AnsweredInv' BY DEF SuccessInv, AnsweredInv
<1>5. QED BY <1>1, <1>2, <1>3, <1>4

\* ... and is an invariant.
LEMMA FtpInvariant == Spec => []FtpInv
<1>1. FtpInv /\ Next => FtpInv'
  BY PhasesStep, FlagsStep, CountsStep, LinesStep, PhaseInvStep, StorInvStep,
     LineInvStep, SuccessInvStep, AnsweredInvStep
  DEF FtpInv, TypeOK
<1>2. FtpInv /\ [Next]_vars => FtpInv' BY <1>1, StutterInv
<1>3. QED BY InitInv, <1>2, PTL DEF Spec

-----------------------------------------------------------------------------
(* The theorems                                                            *)

\* Every variable keeps its type, whatever the size of the image.
THEOREM TypeCorrect == Spec => []TypeOK
<1>1. FtpInv => TypeOK BY DEF FtpInv
<1>2. QED BY <1>1, FtpInvariant, PTL

\* finish: an Abort that says the file is removed is right, if the goroutine
\* read the reply to STOR before finish stopped waiting for it.
THEOREM AbortIsHonest == Spec => []AnsweredAbortTellsTruth
<1>1. FtpInv => AnsweredAbortTellsTruth
  BY DEF FtpInv, AnsweredInv, AnsweredAbortTellsTruth, Removed
<1>2. QED BY <1>1, FtpInvariant, PTL

\* After a success the file stays as it is.
LEMMA SuccessStays ==
  FtpInv /\ [Next]_vars /\ verdict = "ok" =>
    /\ got = Chunks /\ ~gone
    /\ pc = "returned" => got' = Chunks /\ ~gone' /\ pc' = "returned"
                          /\ verdict' = "ok"
<1> SUFFICES ASSUME FtpInv, FtpInv', [Next]_vars, verdict = "ok"
             PROVE  /\ got = Chunks /\ ~gone
                    /\ pc = "returned" =>
                         /\ got' = Chunks /\ ~gone' /\ pc' = "returned"
                         /\ verdict' = "ok"
  <2>1. FtpInv /\ [Next]_vars => FtpInv'
    BY StutterInv, PhasesStep, FlagsStep, CountsStep, LinesStep, PhaseInvStep,
       StorInvStep, LineInvStep, SuccessInvStep, AnsweredInvStep
    DEF FtpInv, TypeOK
  <2>2. QED BY <2>1
<1>1. got = Chunks /\ ~gone BY DEF FtpInv, SuccessInv
<1>2. ASSUME pc = "returned" PROVE pc' = "returned" /\ verdict' = verdict
  BY <1>2 DEF Next, vars, callerVars, Caller, Stor, Server, OpenReturns, Write,
     Close, WriteFails, JobFails, SelectDone, SelectTimeout, Teardown, Deleting,
     Verify, Sizing, Quit, StorAccepted, StorRefused, DataWrite, DataFails,
     CopyEnds, StorLocks, StorReads, ServerStores, ServerEnds, ServerFails,
     ServerCommand, ControlLost
<1>3. QED BY <1>1, <1>2 DEF FtpInv, SuccessInv

\* The FTP writer is an upload as execSaveToStorage expects it: nil from Close
\* means the whole image is there, and nothing under way removes it.
THEOREM FtpImplementsContract == Spec => Implements
<1>1. Init => Contract!Init
  BY FtpAssumption DEF Init, Contract!Init
<1>2. FtpInv /\ FtpInv' /\ [Next]_vars => [Contract!Next]_(Contract!vars)
  <2> SUFFICES ASSUME FtpInv, FtpInv', [Next]_vars
               PROVE  Contract!Next \/ UNCHANGED Contract!vars
    OBVIOUS
  <2> DEFINE obj == IF got = Chunks /\ ~gone THEN "whole" ELSE "other"
             sts == IF pc # "returned" THEN "running"
                    ELSE IF verdict = "ok" THEN "ok" ELSE "error"
  <2>1. obj \in {"whole", "other"} /\ obj' \in {"whole", "other"} OBVIOUS
  <2>2. {sts, sts'} \subseteq {"running", "ok", "error"}
    OBVIOUS
  <2>3. sts = "ok" => sts' = "ok" /\ obj = "whole" /\ obj' = "whole"
    BY SuccessStays
  <2>4. sts' = "ok" => obj' = "whole" BY DEF FtpInv, SuccessInv
  <2>5. sts = "error" => sts' = "error"
    BY DEF Next, vars, callerVars, Caller, Stor, Server, OpenReturns, Write,
       Close, WriteFails, JobFails, SelectDone, SelectTimeout, Teardown,
       Deleting, Verify, Sizing, Quit, StorAccepted, StorRefused, DataWrite,
       DataFails, CopyEnds, StorLocks, StorReads, ServerStores, ServerEnds,
       ServerFails, ServerCommand, ControlLost
  <2>6. \/ sts' = sts /\ (sts # "ok" \/ obj' = obj)
        \/ sts = "running" /\ sts' = "ok" /\ obj' = "whole"
        \/ sts = "running" /\ sts' = "error"
    BY <2>2, <2>3, <2>4, <2>5
  <2> HIDE DEF obj, sts
  <2>7. CASE sts' = sts /\ sts # "ok"
    <3>1. Contract!Store
      BY <2>1, <2>7 DEF Contract!Store, obj, sts
    <3>2. QED BY <3>1 DEF Contract!Next
  <2>8. CASE sts' = sts /\ obj' = obj BY <2>8 DEF Contract!vars, obj, sts
  <2>9. CASE sts = "running" /\ sts' = "ok" /\ obj' = "whole"
    BY <2>9 DEF Contract!Next, Contract!Succeed, obj, sts
  <2>10. CASE sts = "running" /\ sts' = "error"
    BY <2>1, <2>10 DEF Contract!Next, Contract!Fail, obj, sts
  <2>11. QED BY <2>6, <2>7, <2>8, <2>9, <2>10
<1>3. QED BY <1>1, <1>2, FtpInvariant, PTL DEF Spec, Implements, Contract!Spec
=============================================================================
