----------------------------- MODULE UBootConsole -----------------------------
(***************************************************************************)
(* Commands typed at U-Boot's prompt over a noisy serial line (main.go:    *)
(* sendLine, readUntilPrompt, ubootCommandExec, ubootCommand,              *)
(* ubootPersistentOnce, readbackCRC).  The host runs a script; each of its *)
(* commands is sent by the function that the wizards use for its kind.     *)
(* A line of text may arrive damaged or without its carriage return, and   *)
(* what U-Boot prints may be lost.  NandRestore stands on what is checked  *)
(* here.                                                                   *)
(***************************************************************************)
EXTENDS Integers, Sequences, SequencesExt

CONSTANTS
  Settings,       \* the conversations: their script, the attempts, what the deadlines are like
  ReadbackTries,  \* how often a readback is repeated when the data differs
  MaxFaults       \* bound: line faults while one command of the script is at hand

ASSUME ConsoleAssumption ==
  /\ \A s \in Settings :
       /\ s.script \in Seq({"persistent", "safe", "plain", "readback"}) \ {<<>>}
       /\ s.attempts \in Nat \ {0} /\ s.late \in BOOLEAN
  /\ ReadbackTries \in Nat \ {0}
  /\ MaxFaults \in Nat

VARIABLES
  setting,  \* the conversation at hand; it does not change
  pc,       \* "send" | "prompt" | "sendStatus" | "status" | "done"
  cmd,      \* the command at hand, an index of Script
  attempt,  \* of that command
  try,      \* of that readback
  mark,     \* the marker of the latest status line
  seen,     \* the outputs collected for the command at hand
  results,  \* how each command ended: "ok" | "rc" | "lost" | "error"
  verdict,  \* "running" | "success" | "failed"
  tx, rx,   \* the line in each direction
  typed,    \* what U-Boot has on its command line
  answer,   \* what U-Boot has still to print
  status,   \* U-Boot's $?
  ran,      \* how often U-Boot really ran each command
  refused,  \* the commands that really failed in U-Boot
  faults    \* line faults since the command at hand was begun

hostVars   == <<setting, pc, cmd, attempt, try, mark, seen, results, verdict>>
deviceVars == <<typed, answer, status, ran, refused>>
vars == <<hostVars, deviceVars, tx, rx, faults>>

\* The commands, by kind: "persistent" | "safe" | "plain" | "readback".
Script == setting.script
\* How often a retry-safe command is sent before it is given up.
Attempts == setting.attempts
\* May a deadline pass while the answer is still on its way?
LateAnswers == setting.late

Cmds == 1..Len(Script)
PersistentCmds == {i \in Cmds : Script[i] = "persistent"}

Prompt       == [is |-> "prompt"]
Marker(k, r) == [is |-> "marker", mark |-> k, rc |-> r]
Output(i, s) == [is |-> "output", cmd |-> i, flash |-> s]

\* What flash holds: the persistent commands that have run.
Flash == {i \in PersistentCmds : ran[i] > 0}

Damage == [is |-> "noise"]

Fault == faults < MaxFaults /\ faults' = faults + 1

Init ==
  /\ setting \in Settings
  /\ pc = "send" /\ cmd = 1 /\ attempt = 1 /\ try = 1 /\ mark = 0
  /\ seen = {} /\ results = <<>> /\ verdict = "running"
  /\ tx = <<>> /\ rx = <<>>
  /\ typed = <<>> /\ answer = <<>> /\ status = 0
  /\ ran = [i \in Cmds |-> 0] /\ refused = {}
  /\ faults = 0

(***************************************************************************)
(* The line.                                                               *)
(***************************************************************************)
\* sendLine: the text in pieces, then the carriage return on its own.
SendLine(text) ==
  \/ tx' = Append(tx, [text |-> text, cr |-> TRUE]) /\ UNCHANGED faults
  \/ tx' = Append(tx, [text |-> text, cr |-> FALSE]) /\ Fault
  \/ tx' = Append(tx, [text |-> Damage, cr |-> TRUE]) /\ Fault

\* readUntilPrompt returns on a read that leaves the text ending in a prompt.
PromptAt(n) == n \in DOMAIN rx /\ rx[n] = Prompt

\* The deadline passes; the answer is lost, or (LateAnswers) only late.
DeadlinePasses ==
  /\ \A n \in DOMAIN rx : ~PromptAt(n)
  /\ LateAnswers \/ (tx = <<>> /\ answer = <<>>)

(***************************************************************************)
(* The host.                                                               *)
(***************************************************************************)
\* Mutant: every command is taken for one that may be repeated.
RepeatAnything(kind) == TRUE

\* ubootNoiseRetrySafe.
NoiseRetrySafe(kind) == kind \in {"safe", "readback"}

\* Mutant: the checksum of what was read is not compared.
ReadbackNotCompared(outputs) == TRUE

\* The output contains the checksum of the data that should be in flash.
ReadbackMatches(outputs) ==
  \E o \in outputs : o.cmd = cmd /\ o.flash = {i \in PersistentCmds : i < cmd}

\* waitQuiet, ResetInput, the command.
SendCommand ==
  /\ pc = "send"
  /\ rx' = <<>>
  /\ SendLine([is |-> "cmd", cmd |-> cmd])
  /\ pc' = "prompt"
  /\ UNCHANGED <<cmd, attempt, try, mark, seen, results, verdict, deviceVars>>

Collected(n) == {t \in ToSet(SubSeq(rx, 1, n)) : t.is = "output"}

ReadPrompt ==
  /\ pc = "prompt"
  /\ \E n \in DOMAIN rx :
       /\ PromptAt(n)
       /\ seen' = seen \cup Collected(n)
       /\ rx' = SubSeq(rx, n + 1, Len(rx))
  /\ pc' = "sendStatus"
  /\ UNCHANGED <<cmd, attempt, try, mark, results, verdict, deviceVars, tx, faults>>

\* waitQuiet, ResetInput, echo of a fresh marker and $?.
SendStatus ==
  /\ pc = "sendStatus"
  /\ rx' = <<>>
  /\ mark' = mark + 1
  /\ SendLine([is |-> "echo", mark |-> mark'])
  /\ pc' = "status"
  /\ UNCHANGED <<cmd, attempt, try, seen, results, verdict, deviceVars>>

NextCommand(result) ==
  /\ results' = Append(results, result)
  /\ IF cmd = Len(Script)
     THEN pc' = "done" /\ verdict' = "success" /\ cmd' = cmd
     ELSE pc' = "send" /\ cmd' = cmd + 1 /\ UNCHANGED verdict
  /\ attempt' = 1 /\ try' = 1 /\ seen' = {} /\ faults' = 0

GiveUp(result) ==
  /\ results' = Append(results, result)
  /\ pc' = "done" /\ verdict' = "failed"
  /\ UNCHANGED <<cmd, attempt, try, seen, faults>>

\* The command's own status is zero.
ReportOk(outputs) ==
  IF Script[cmd] = "readback" /\ ~ReadbackMatches(outputs)
  THEN IF try < ReadbackTries
       THEN /\ try' = try + 1 /\ attempt' = 1 /\ seen' = {} /\ pc' = "send"
            /\ UNCHANGED <<cmd, results, verdict, faults>>
       ELSE GiveUp("error")
  ELSE NextCommand("ok")

\* The answer is damaged or lost: retry, tolerate (ubootPersistentOnce) or give up.
ReportLost(outputs) ==
  IF NoiseRetrySafe(Script[cmd]) /\ attempt < Attempts
  THEN /\ attempt' = attempt + 1 /\ pc' = "send" /\ seen' = outputs
       /\ UNCHANGED <<cmd, try, results, verdict, faults>>
  ELSE IF Script[cmd] = "persistent"
       THEN NextCommand("lost")
       ELSE GiveUp("error")

ReadStatus ==
  /\ pc = "status"
  /\ \E n \in DOMAIN rx :
       /\ PromptAt(n)
       /\ LET mine == {t \in ToSet(SubSeq(rx, 1, n)) : t.is = "marker" /\ t.mark = mark}
          IN \/ mine = {} /\ ReportLost(seen \cup Collected(n))
             \/ \E t \in mine : t.rc = 0 /\ ReportOk(seen \cup Collected(n))
             \/ \E t \in mine : t.rc # 0 /\ GiveUp("rc")
       /\ rx' = SubSeq(rx, n + 1, Len(rx))
  /\ UNCHANGED <<mark, deviceVars, tx>>

\* Mutant: the wait for the status line has no deadline.
TimeoutOfCommandOnly ==
  /\ pc = "prompt"
  /\ DeadlinePasses
  /\ ReportLost(seen \cup Collected(Len(rx)))
  /\ rx' = <<>>
  /\ UNCHANGED <<mark, deviceVars, tx>>

Timeout ==
  /\ pc \in {"prompt", "status"}
  /\ DeadlinePasses
  /\ ReportLost(seen \cup Collected(Len(rx)))
  /\ rx' = <<>>
  /\ UNCHANGED <<mark, deviceVars, tx>>

Host ==
  /\ SendCommand \/ ReadPrompt \/ SendStatus \/ ReadStatus \/ Timeout
  /\ UNCHANGED setting

(***************************************************************************)
(* U-Boot: it takes what is typed up to a carriage return for one line.    *)
(***************************************************************************)
Answer(outputs) == answer' = Append(outputs, Prompt)

\* A line that is one command, whole.
RunCommand(i) ==
  \/ /\ ran' = [ran EXCEPT ![i] = @ + 1]
     /\ status' = 0
     /\ Answer(<<Output(i, {j \in PersistentCmds : ran'[j] > 0})>>)
     /\ UNCHANGED refused
  \/ /\ refused' = refused \cup {i}
     /\ status' = 1
     /\ Answer(<<>>)
     /\ UNCHANGED ran

\* echo prints whatever follows it on the line, and succeeds.
RunEcho(k) == Answer(<<Marker(k, status)>>) /\ status' = 0 /\ UNCHANGED <<ran, refused>>

RunUnknown == Answer(<<>>) /\ status' = 1 /\ UNCHANGED <<ran, refused>>

TakeLine ==
  /\ tx # <<>> /\ answer = <<>>
  /\ tx' = Tail(tx)
  /\ LET line == Append(typed, Head(tx).text) IN
       IF ~Head(tx).cr
       THEN typed' = line /\ UNCHANGED <<answer, status, ran, refused>>
       ELSE /\ typed' = <<>>
            /\ CASE line[1].is = "echo"                  -> RunEcho(line[1].mark)
                 [] line[1].is = "cmd" /\ Len(line) = 1  -> RunCommand(line[1].cmd)
                 [] OTHER                                -> RunUnknown
  /\ UNCHANGED <<hostVars, rx, faults>>

\* What U-Boot prints arrives, or is damaged beyond recognition.
PrintAnswer ==
  /\ answer # <<>>
  /\ answer' = Tail(answer)
  /\ \/ rx' = Append(rx, Head(answer)) /\ UNCHANGED faults
     \/ rx' = Append(rx, Damage) /\ Fault
  /\ UNCHANGED <<hostVars, typed, status, ran, refused, tx>>

Device == TakeLine \/ PrintAnswer

Next == Host \/ Device

Spec == Init /\ [][Next]_vars

\* Deadlines pass and U-Boot works through what it was sent.
FairSpec == Spec /\ WF_vars(Host) /\ WF_vars(Device)

-----------------------------------------------------------------------------

\* A command that changes flash is never carried out twice, whatever was lost
\* (ubootPersistentOnce, ubootNoiseRetrySafe).
PersistentAtMostOnce == \A i \in PersistentCmds : ran[i] <= 1

Acknowledged(i) == i \in DOMAIN results /\ results[i] = "ok"

\* A script that ends well has carried out each change of flash that a readback follows,
\* exactly once, though some of them were never acknowledged.
SuccessMeansWritten ==
  verdict = "success" =>
    \A i \in PersistentCmds : (\E j \in Cmds : j > i /\ Script[j] = "readback") => ran[i] = 1

\* Retries end.
ScriptEnds == <>(verdict # "running")

\* A real command failure is not hidden behind the retries (the comment in ubootCommand): if the
\* status line loses its carriage return, the retried command is printed by echo, and
\* the status that is then asked for is echo's.
FailureNotHidden ==
  \A i \in Cmds : Script[i] # "persistent" /\ Acknowledged(i) /\ (i = 1 \/ Acknowledged(i - 1)) =>
    ran[i] > 0
==============================================================================
