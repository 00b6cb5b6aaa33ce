------------------------------- MODULE Session -------------------------------
(***************************************************************************)
(* One run of the program from its first prompt to its exit code: the menus *)
(* of runInteractive and runLocalInteractive, the flags of runDirect and    *)
(* runDirectLocal, the SSH connections they open and close, the questions   *)
(* before a disk is read or overwritten, the settings, which are package    *)
(* globals that outlive an operation, and the session log.  The operations  *)
(* themselves are one step each, that may fail: CloneJob, SaveFile, Restore *)
(* and the upload modules are about them.                                   *)
(*                                                                         *)
(* An answer, a log line and a setting are known by the number of the       *)
(* operation they were given in.  Standard input may end at any moment;     *)
(* every prompt then returns what the code makes of an end of file.         *)
(***************************************************************************)
EXTENDS Naturals, FiniteSets

CONSTANTS
  Remote,      \* disks of the remote host, one at least
  Local,       \* disks that can be in the one local slot
  Small,       \* those of them that are smaller than the remote disks
  NoDisk,
  MaxOps, MaxConns, MaxReplugs

ASSUME SessionAssumption ==
  /\ Small \subseteq Local /\ NoDisk \notin Remote \cup Local
  /\ Remote \cap Local = {} /\ Remote # {} /\ {MaxOps, MaxConns, MaxReplugs} \subseteq Nat

VARIABLES
  run,         \* how the program was started: [how, task, yes]
  pc, closed,  \* closed: standard input has ended
  conn,        \* [n, up]: connections made, whether the last is up
  env, risk,   \* what is to be imaged; for which of them the user accepts that
  slot,        \* [disk, shown, stale, swaps]: the local disk, as scanned
  op,          \* [n, mode, first, ok]: the operation, its result
  pick,        \* [src, tgt, queue, done]: the disks chosen; the batch
  ans,         \* the settings
  said,        \* the questions of this operation answered with yes
  log,         \* [buffer, open, lines] of the session logger
  exit

vars == <<run, pc, closed, conn, env, risk, slot, op, pick, ans, said, log, exit>>

Settings == {"bs", "level", "tool", "zero", "initramfs"}
Runs == [how : {"menu"}, task : {"any"}, yes : {FALSE}]
        \cup [how : {"ssh"}, task : {"clone", "save", "restore", "storage"},
              yes : BOOLEAN]
        \cup [how : {"local"}, task : {"save", "storage"}, yes : BOOLEAN]
Menu == run.how = "menu"

\* The tasks of the start-up menu.
Tasks == {"clone", "save", "restore"}
Task == IF Menu THEN op.mode ELSE run.task
Batch == pick.queue \cup pick.done # {}
OnThisMachine == run.how = "local" \/ (Menu /\ op.mode = "storage")
\* The machine to be imaged, as the question about it names it.
Here == IF OnThisMachine THEN <<"local", op.n>> ELSE <<"ssh", conn.n>>
Logged == Task \in {"save", "storage"}

NewLog(tag) == [buffer |-> {<<"preamble", tag, NoDisk>>}, open |-> FALSE,
                lines |-> {}]
Note(kind, n, d) == [log EXCEPT !.buffer = @ \cup {<<kind, n, d>>}]
NoLog == [buffer |-> {}, open |-> FALSE, lines |-> {}]
Nothing == [src |-> NoDisk, tgt |-> NoDisk, queue |-> {}, done |-> {}]

Init ==
  /\ run \in Runs
  /\ pc = (IF Menu THEN "menu" ELSE "flags")
  /\ closed = FALSE
  /\ conn = [n |-> 0, up |-> FALSE]
  /\ env = "other" /\ risk = <<"none", 0>>
  /\ slot \in [disk : Local, shown : {NoDisk}, stale : {TRUE}, swaps : {0}]
  /\ op = [n |-> 0, mode |-> "none", first |-> TRUE,
           ok |-> TRUE]
  /\ pick = Nothing
  /\ ans = [s \in Settings |-> 0]
  /\ said = {}
  /\ log = NoLog
  /\ exit = 0

Answers(given, eof) == IF closed THEN {eof} ELSE given
YesNo == Answers(BOOLEAN, FALSE)

GoTo(p) == pc' = p /\ UNCHANGED exit

\* The deferred Close, or the end of the process.
End(code) == pc' = "end" /\ exit' = code

\* Back to the caller where there is one, the end of the program otherwise.
Fail(p) == IF Menu THEN GoTo(p) ELSE End(1)
Refuse(p) == IF Menu THEN GoTo(p) ELSE End(0)

-----------------------------------------------------------------------------
(* The way to an operation on a remote host                                *)

StartMenu ==
  /\ pc = "menu"
  /\ \E m \in Answers(Tasks \cup {"storage", "back"}, "back") :
       \/ m = "back" /\ End(0) /\ UNCHANGED op
       \/ m = "storage" /\ GoTo("localScan") /\ op' = [op EXCEPT !.mode = m]
       \/ m \in Tasks /\ GoTo("connect")
          /\ op' = [op EXCEPT !.mode = m]
  /\ UNCHANGED <<run, closed, conn, env, risk, slot, pick, ans, said, log>>

\* main, and the checks of runDirect and runDirectLocal before any contact.
Flags ==
  /\ pc = "flags"
  /\ \/ GoTo(IF run.how = "ssh" THEN "connect" ELSE "ready")
     \/ End(1)
  /\ env' \in {"ram", "other"}
  /\ op' = [op EXCEPT !.n = 1, !.mode = run.task]
  /\ ans' = [s \in Settings |-> 1]
  /\ UNCHANGED <<run, closed, conn, risk, slot, pick, said, log>>

\* Mutant: a risk that was accepted once is accepted for every host.
Connect_KeepsRisk ==
  /\ pc = "connect"
  /\ \E host \in Answers({"given", "none"}, "none"), ok \in BOOLEAN :
       IF Menu /\ host = "none"
       THEN End(0) /\ UNCHANGED <<conn, env, log>>
       ELSE /\ conn.n < MaxConns
            /\ conn' = [n |-> conn.n + 1, up |-> ok]
            /\ env' \in {"ram", "other"}
            /\ log' = NewLog(conn'.n)
            /\ IF risk # <<"none", 0>> /\ ok THEN GoTo("scan")
               ELSE IF ok THEN GoTo("ready") ELSE Fail("connect")
  /\ UNCHANGED <<run, closed, risk, slot, op, pick, ans, said>>

\* The old connection is closed before the address of a new one is asked for.
Connect ==
  /\ pc = "connect"
  /\ \E host \in Answers({"given", "none"}, "none"), ok \in BOOLEAN :
       IF Menu /\ host = "none"
       THEN End(0) /\ UNCHANGED <<conn, env, log>>
       ELSE /\ conn.n < MaxConns
            /\ conn' = [n |-> conn.n + 1, up |-> ok]
            /\ env' \in {"ram", "other"}
            /\ log' = NewLog(conn'.n)
            /\ IF ok THEN GoTo("ready") ELSE Fail("connect")
  /\ UNCHANGED <<run, closed, risk, slot, op, pick, ans, said>>

\* checkRemoteReadiness has set env: an Alpine that runs from RAM, or anything
\* else, a probe that failed included.
IsSafe == env = "ram"

ConfirmUnsafe ==
  /\ pc = "ready"
  /\ LET onward == IF ~OnThisMachine THEN "scan"
                   ELSE IF Menu THEN "storage" ELSE "localScan"
         back == IF OnThisMachine THEN "localScan" ELSE "connect"
     IN IF IsSafe \/ run.yes THEN GoTo(onward) /\ UNCHANGED risk
        ELSE \E yes \in YesNo :
               IF yes THEN GoTo(onward) /\ risk' = Here
               ELSE Refuse(back) /\ UNCHANGED risk
  /\ UNCHANGED <<run, closed, conn, env, slot, op, pick, ans, said, log>>

\* scanRemoteDisks; the disk named by -s may not be there.
ScanRemote ==
  /\ pc = "scan"
  /\ \/ conn.up
        /\ IF Menu
           THEN GoTo("local") /\ UNCHANGED pick
           ELSE \E d \in Remote :
                  /\ pick' = [pick EXCEPT !.src = d,
                                !.tgt = IF Task = "restore" THEN d ELSE NoDisk]
                  /\ GoTo(IF Task = "clone" THEN "local"
                          ELSE IF Task = "restore" THEN "checks" ELSE "dest")
     \/ Fail("connect") /\ UNCHANGED pick
  /\ UNCHANGED <<run, closed, conn, env, risk, slot, op, ans, said, log>>

\* GetLocalDisks: empty if it fails; with -t the disk must be there.
ScanLocal ==
  /\ pc = "local"
  /\ \E ok \in BOOLEAN :
       /\ slot' = [slot EXCEPT !.shown = IF ok THEN slot.disk ELSE NoDisk,
                               !.stale = ~ok]
       /\ IF Menu THEN GoTo("op") /\ UNCHANGED pick
          ELSE /\ pick' = [pick EXCEPT !.tgt = slot'.shown]
               /\ IF slot'.shown = NoDisk THEN End(1)
                  ELSE GoTo(IF slot'.shown \in Small THEN "small" ELSE "confirm")
  /\ UNCHANGED <<run, closed, conn, env, risk, op, ans, said, log>>

-----------------------------------------------------------------------------
(* The operation loop                                                      *)

StartOp(mode) ==
  /\ op' = [op EXCEPT !.n = @ + 1, !.mode = mode, !.first = FALSE]
  /\ log' = [Note("choice", op.n + 1, NoDisk) EXCEPT !.lines = {}]
  /\ GoTo("source")

\* The local list is refreshed, unless that fails; the mode chosen at the start
\* counts once.
NextOp ==
  /\ pc = "op"
  /\ \/ slot' = [slot EXCEPT !.shown = slot.disk, !.stale = FALSE]
     \/ slot' = [slot EXCEPT !.stale = TRUE]
  /\ said' = {} /\ pick' = Nothing
  /\ IF op.first THEN StartOp(op.mode)
     ELSE \E m \in Answers(Tasks \cup {"back"}, "back") :
            IF m = "back" THEN GoTo("connect") /\ UNCHANGED <<op, log>>
            ELSE op.n < MaxOps /\ StartOp(m)
  /\ UNCHANGED <<run, closed, conn, env, risk, ans>>

Source ==
  /\ pc = "source"
  /\ \/ "back" \in Answers({"back"}, "back") /\ GoTo("op") /\ UNCHANGED pick
     \/ ~closed /\ Task = "save" /\ GoTo("dest")
        /\ pick' = [pick EXCEPT !.queue = Remote]
     \/ ~closed /\ \E d \in Remote :
          /\ pick' = [pick EXCEPT !.src = d]
          /\ CASE Task = "clone" -> GoTo(IF slot.shown = NoDisk THEN "op"
                                         ELSE "target")
               [] Task = "save" -> GoTo("dest")
               [] Task = "restore" -> GoTo("file")
  /\ UNCHANGED <<run, closed, conn, env, risk, slot, op, ans, said, log>>

Target ==
  /\ pc = "target"
  /\ \E d \in Answers({slot.shown, NoDisk}, NoDisk) :
       IF d = NoDisk THEN GoTo("source") /\ UNCHANGED pick
       ELSE /\ pick' = [pick EXCEPT !.tgt = d]
            /\ GoTo(IF d \in Small THEN "small" ELSE "settings")
  /\ UNCHANGED <<run, closed, conn, env, risk, slot, op, ans, said, log>>

\* The target is smaller than the source.
ConfirmSmall ==
  /\ pc = "small"
  /\ IF run.yes THEN GoTo("confirm") /\ UNCHANGED said
     ELSE \E yes \in YesNo :
            IF yes THEN /\ said' = said \cup {"small"}
                        /\ GoTo(IF Menu THEN "settings" ELSE "confirm")
                   ELSE Refuse("op") /\ UNCHANGED said
  /\ UNCHANGED <<run, closed, conn, env, risk, slot, op, pick, ans, log>>

\* Mutant: the file list answers an end of input, and the loop asks again.
RestoreFile_NoEofCheck ==
  /\ pc = "file"
  /\ \E a \in Answers({"path", "missing", "browse", "q"}, "browse") :
       \/ a = "q" /\ GoTo("again")
       \/ a \in {"missing", "browse"} /\ GoTo("file")
       \/ a \in {"path", "browse"} /\ ~closed /\ GoTo("device")
  /\ UNCHANGED <<run, closed, conn, env, risk, slot, op, pick, ans, said, log>>

\* A path, or one picked in the file list; an end of input leaves the loop.
RestoreFile ==
  /\ pc = "file"
  /\ \E a \in Answers({"path", "missing", "browse", "q"}, "q") :
       \/ a = "q" /\ GoTo("again")
       \/ a \in {"missing", "browse"} /\ GoTo("file")
       \/ a \in {"path", "browse"} /\ GoTo("device")
  /\ UNCHANGED <<run, closed, conn, env, risk, slot, op, pick, ans, said, log>>

\* The remote device to write, the source by default.
RestoreDevice ==
  /\ pc = "device"
  /\ \E d \in Answers(Remote \cup {NoDisk}, pick.src) :
       IF d = NoDisk THEN GoTo("again") /\ UNCHANGED pick
       ELSE pick' = [pick EXCEPT !.tgt = d] /\ GoTo("checks")
  /\ UNCHANGED <<run, closed, conn, env, risk, slot, op, ans, said, log>>

\* The checksum and the capacity, and the questions they lead to (Restore).
RestoreChecks ==
  /\ pc = "checks"
  /\ \/ GoTo(IF Menu THEN "settings" ELSE "confirm")
     \/ Refuse("again")
     \/ Fail("again")
  /\ UNCHANGED <<run, closed, conn, env, risk, slot, op, pick, ans, said, log>>

-----------------------------------------------------------------------------
(* Settings, the last question and the log                                 *)

\* Block size, compression, zero-fill and initramfs; a restore takes only the
\* first.
AskSettings ==
  /\ pc = "settings"
  /\ ans' = [s \in Settings |->
               IF s = "bs" \/ Task # "restore" THEN op.n ELSE ans[s]]
  /\ log' = IF Logged THEN Note("choice", op.n, NoDisk) ELSE log
  /\ GoTo(IF OnThisMachine THEN "dest" ELSE "confirm")
  /\ UNCHANGED <<run, closed, conn, env, risk, slot, op, pick, said>>

\* The directory, the file name or the remote path; -o and -dst name them.
Destination ==
  /\ pc = "dest"
  /\ \/ GoTo(IF OnThisMachine \/ ~Menu THEN "confirm" ELSE "settings")
     \/ Fail(IF OnThisMachine THEN "localScan" ELSE "again")
  /\ log' = IF Menu THEN log ELSE Note("choice", 1, NoDisk)
  /\ UNCHANGED <<run, closed, conn, env, risk, slot, op, pick, ans, said>>

\* Mutant: who said yes to a small target need not do so again.
Confirm_OncePerOp ==
  /\ pc = "confirm"
  /\ IF run.yes \/ "small" \in said THEN GoTo("start") /\ UNCHANGED said
     ELSE \E yes \in YesNo :
            IF yes THEN GoTo("start") /\ said' = said \cup {"start"}
            ELSE /\ UNCHANGED said
                 /\ Refuse(IF OnThisMachine THEN "localScan"
                           ELSE IF Task = "clone" THEN "op" ELSE "again")
  /\ UNCHANGED <<run, closed, conn, env, risk, slot, op, pick, ans, log>>

Confirm ==
  /\ pc = "confirm"
  /\ IF run.yes THEN GoTo("start") /\ UNCHANGED said
     ELSE \E yes \in YesNo :
            IF yes THEN GoTo("start") /\ said' = said \cup {"start"}
            ELSE /\ UNCHANGED said
                 /\ Refuse(IF OnThisMachine THEN "localScan"
                           ELSE IF Task = "clone" THEN "op" ELSE "again")
  /\ UNCHANGED <<run, closed, conn, env, risk, slot, op, pick, ans, log>>

\* open: the buffer goes to the file, if it can be created.
OpenLog(ok) ==
  log' = IF ok THEN [buffer |-> {}, open |-> TRUE, lines |-> log.buffer]
         ELSE [log EXCEPT !.lines = {}]

Start ==
  /\ pc = "start" /\ ~Batch
  /\ GoTo("job")
  /\ IF Logged THEN \E ok \in BOOLEAN : OpenLog(ok) ELSE UNCHANGED log
  /\ UNCHANGED <<run, closed, conn, env, risk, slot, op, pick, ans, said>>

\* Mutant: the disks of a batch share the session's logger.
StartNext_NoFork ==
  /\ pc = "start" /\ Batch
  /\ IF pick.queue = {} THEN GoTo("again") /\ UNCHANGED <<pick, log>>
     ELSE \E d \in pick.queue, ok \in BOOLEAN :
            /\ pick' = [pick EXCEPT !.src = d]
            /\ GoTo("job")
            /\ OpenLog(ok)
  /\ UNCHANGED <<run, closed, conn, env, risk, slot, op, ans, said>>

\* The next disk of a batch, with a log of its own: fork copies the buffer.
StartNext ==
  /\ pc = "start" /\ Batch
  /\ IF pick.queue = {} THEN GoTo("again") /\ UNCHANGED <<pick, log>>
     ELSE \E d \in pick.queue, ok \in BOOLEAN :
            /\ pick' = [pick EXCEPT !.src = d]
            /\ GoTo("job")
            /\ log' = [log EXCEPT !.open = ok,
                                  !.lines = IF ok THEN log.buffer ELSE {}]
  /\ UNCHANGED <<run, closed, conn, env, risk, slot, op, ans, said>>

-----------------------------------------------------------------------------
(* The operation, and what follows                                         *)

\* What the job logs goes to the open file; without one it stays in the buffer,
\* but for a batch, whose loggers are dropped one by one.
JobLog ==
  LET line == {<<"job", op.n, pick.src>>} IN
  IF ~Logged THEN log
  ELSE [buffer |-> IF log.open \/ Batch THEN log.buffer ELSE log.buffer \cup line,
        lines |-> IF log.open THEN log.lines \cup line ELSE {},
        open |-> FALSE]

\* Mutant: one disk that fails ends the batch.
JobEnds_StopsBatch ==
  /\ pc = "job"
  /\ \E ok \in BOOLEAN :
       /\ ok => conn.up \/ OnThisMachine
       /\ pick' = IF Batch THEN [pick EXCEPT !.queue = @ \ {pick.src},
                                          !.done = @ \cup {pick.src}]
                 ELSE pick
       /\ op' = [op EXCEPT !.ok = ok]
       /\ log' = JobLog
       /\ IF ~Menu THEN End(IF ok \/ Logged THEN 0 ELSE 1)
          ELSE GoTo(IF Batch /\ ok THEN "start"
                    ELSE IF Task = "clone" /\ ~ok THEN "op"
                    ELSE "again")
  /\ UNCHANGED <<run, closed, conn, env, risk, slot, ans, said>>

\* A clone that fails goes back to the menu; a save says so and asks.
JobEnds ==
  /\ pc = "job"
  /\ \E ok \in BOOLEAN :
       /\ ok => conn.up \/ OnThisMachine
       /\ pick' = IF Batch THEN [pick EXCEPT !.queue = @ \ {pick.src},
                                          !.done = @ \cup {pick.src}]
                 ELSE pick
       /\ op' = [op EXCEPT !.ok = ok]
       /\ log' = JobLog
       /\ IF ~Menu THEN End(IF ok \/ Logged THEN 0 ELSE 1)
          ELSE GoTo(IF Batch THEN "start"
                    ELSE IF Task = "clone" /\ ~ok THEN "op"
                    ELSE "again")
  /\ UNCHANGED <<run, closed, conn, env, risk, slot, ans, said>>

Again ==
  /\ pc = "again"
  /\ \E yes \in YesNo :
       IF OnThisMachine THEN GoTo(IF yes THEN "localScan" ELSE "menu")
       ELSE IF yes THEN GoTo("op") ELSE End(0)
  /\ pick' = Nothing /\ said' = {} /\ log' = [log EXCEPT !.lines = {}]
  /\ UNCHANGED <<run, closed, conn, env, risk, slot, op, ans>>

-----------------------------------------------------------------------------
(* This machine as the source                                              *)

\* The scan, the choice of a disk and the readiness of this machine, which has
\* come first where the disk is named by -l.
LocalScan ==
  /\ pc = "localScan"
  /\ \E go \in Answers(BOOLEAN, ~Menu) :
       IF go /\ slot.disk # NoDisk
       THEN /\ Menu => op.n < MaxOps
            /\ op' = IF Menu THEN [op EXCEPT !.n = @ + 1] ELSE op
            /\ pick' = [Nothing EXCEPT !.src = slot.disk]
            /\ said' = {}
            /\ IF Menu THEN env' \in {"ram", "other"} ELSE UNCHANGED env
            /\ log' = NewLog(op'.n)
            /\ GoTo(IF Menu THEN "ready" ELSE "dest")
       ELSE /\ Fail("menu") /\ pick' = Nothing /\ said' = {} /\ log' = NoLog
            /\ UNCHANGED <<op, env>>
  /\ UNCHANGED <<run, closed, conn, risk, slot, ans>>

AskStorage ==
  /\ pc = "storage"
  /\ \E go \in YesNo : GoTo(IF go THEN "settings" ELSE "localScan")
  /\ UNCHANGED <<run, closed, conn, env, risk, slot, op, pick, ans, said, log>>

Program == StartMenu \/ Flags \/ Connect \/ ConfirmUnsafe \/ ScanRemote
           \/ ScanLocal \/ NextOp \/ Source \/ Target \/ ConfirmSmall
           \/ RestoreFile \/ RestoreDevice \/ RestoreChecks \/ AskSettings
           \/ Destination \/ Confirm \/ Start \/ StartNext \/ JobEnds \/ Again
           \/ LocalScan \/ AskStorage

-----------------------------------------------------------------------------
(* Around the program                                                      *)

InputEnds ==
  /\ ~closed /\ pc # "end" /\ closed' = TRUE
  /\ UNCHANGED <<run, pc, conn, env, risk, slot, op, pick, ans, said, log, exit>>

\* Where the program may be asking something; a command line with -y asks nothing.
Prompts ==
  IF Menu
  THEN {"menu", "connect", "ready", "op", "source", "target", "small", "file",
        "device", "checks", "settings", "dest", "confirm", "again", "localScan",
        "storage"}
  ELSE IF run.yes THEN {} ELSE {"ready", "small", "checks", "confirm"}

\* Ctrl+C at a prompt, where the terminal is raw.
Interrupt ==
  /\ ~closed /\ pc \in Prompts
  /\ End(130)
  /\ pick' = Nothing /\ said' = {} /\ log' = NoLog
  /\ UNCHANGED <<run, closed, conn, env, risk, slot, op, ans>>

LinkLost ==
  /\ conn.up /\ pc # "end" /\ conn' = [conn EXCEPT !.up = FALSE]
  /\ UNCHANGED <<run, pc, closed, env, risk, slot, op, pick, ans, said, log, exit>>

\* Another disk in the slot, or none.
Replug ==
  /\ slot.swaps < MaxReplugs /\ pc # "end"
  /\ \E d \in (Local \cup {NoDisk}) \ {slot.disk} :
       slot' = [slot EXCEPT !.disk = d, !.stale = TRUE, !.swaps = @ + 1]
  /\ UNCHANGED <<run, pc, closed, conn, env, risk, op, pick, ans, said, log, exit>>

Next == Program \/ InputEnds \/ Interrupt \/ LinkLost \/ Replug

\* A user may sit at a prompt for ever; a prompt at the end of the input, and
\* what is between two prompts, may not.
Spec == Init /\ [][Next]_vars /\ WF_vars(closed /\ Program)

-----------------------------------------------------------------------------
(* Properties                                                              *)

PlaceOK ==
  pc \in {"menu", "flags", "connect", "ready", "scan", "local", "op", "source",
         "target", "small", "file", "device", "checks", "settings", "dest",
         "confirm", "start", "job", "again", "localScan", "storage", "end"}

ConnOK == conn \in [n : 0..MaxConns, up : BOOLEAN]

SlotOK ==
  slot \in [disk : Local \cup {NoDisk}, shown : Local \cup {NoDisk},
           stale : BOOLEAN, swaps : 0..MaxReplugs]

OpOK ==
  op \in [n : 0..(MaxOps + 1), mode : Tasks \cup {"storage", "none"},
         first : BOOLEAN, ok : BOOLEAN]

PickOK ==
  pick \in [src : Remote \cup Local \cup {NoDisk},
           tgt : Remote \cup Local \cup {NoDisk},
           queue : SUBSET Remote, done : SUBSET Remote]

AnsOK == ans \in [Settings -> 0..op.n]

RestOK ==
  /\ run \in Runs /\ said \subseteq {"small", "start"} /\ exit \in {0, 1, 130}
  /\ env \in {"ram", "other"} /\ risk \in {"none", "ssh", "local"} \X Nat

\* Every variable but the log, whose lines SettingsAndLogAreOwn is about, keeps its
\* type.
TypeOK ==
  /\ PlaceOK /\ ConnOK /\ SlotOK /\ OpOK /\ PickOK /\ AnsOK /\ RestOK
  /\ closed \in BOOLEAN

\* What is written over has been named in a question of this operation, a target
\* that is too small in a second one; and a clone goes to the disk that the list
\* showed, if the list of this operation could be made and nobody changed the
\* disk since.
OverwritesAreConfirmed ==
  pc = "job" /\ Task \in {"clone", "restore"} =>
    /\ ~run.yes =>
         "start" \in said /\ (pick.tgt \in Small => "small" \in said)
    /\ Task = "clone" => pick.tgt = slot.disk \/ slot.stale

\* A machine that does not run from RAM is imaged only if the user accepts that
\* for this connection, or for this disk of the local machine.
UnsafeIsAccepted == pc = "job" /\ ~run.yes => IsSafe \/ risk = Here

\* Every setting of a job was given for its own operation.
AnswersAreFresh ==
  pc = "job" => \A s \in Settings : ans[s] = op.n \/ (Task = "restore" /\ s # "bs")

\* A job with a log is over.
LogDone ==
  /\ log.lines # {} /\ ~log.open
  /\ pc \in {"start", "again"} \/ (pc = "end" /\ ~Menu)

\* A log that was written has the choices and the one job, of one disk, of its
\* own operation, and the preamble of the current connection.  It may have more:
\* what earlier operations on this connection chose, and what they did where
\* their own log could not be created, is still in the buffer.
LogHasItsOwn ==
  LogDone =>
    /\ <<"choice", op.n, NoDisk>> \in log.lines
    /\ \E d \in Remote \cup Local :
         {l \in log.lines : l[1] = "job" /\ l[2] = op.n} = {<<"job", op.n, d>>}
    /\ \A l \in log.lines :
         l[1] = "preamble" => l[2] = Here[2]

\* Operations of one session share globals and a logger: a job has no setting of
\* another operation, and a log lacks nothing of its own and has no other disk of
\* the same batch.  That a log has nothing of earlier operations is not claimed,
\* for it is not so.
SettingsAndLogAreOwn == AnswersAreFresh /\ LogHasItsOwn

\* A batch that was confirmed tries every disk, whatever fails.
BatchTriesAll == pc = "again" /\ Batch /\ "start" \in said => pick.done = Remote

\* A script is told by the exit code of a disk that was left half written.
HalfWrittenIsReported ==
  pc = "end" /\ ~Menu /\ Task \in {"clone", "restore"} /\ ~op.ok => exit = 1

\* One disk that fails takes no other one with it, and is not hidden.
FailureIsContained == BatchTriesAll /\ HalfWrittenIsReported

\* "Menu loops check it so they return (back navigation) instead of spinning
\* forever when no more input can ever arrive": the program ends.
EofEnds == closed ~> pc = "end"
=============================================================================
