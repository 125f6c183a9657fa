------------------------------- MODULE FrontEnd -------------------------------
(***************************************************************************)
(* The full-screen front end: its event loop, the dialog on the screen,    *)
(* the goroutines that connect a port for it, and the operations it        *)
(* starts, which open their port, ask the operator and report.  A          *)
(* goroutine's message waits until the loop takes it; a full-screen item   *)
(* (the terminal) runs inside the loop and owns the console meanwhile.     *)
(***************************************************************************)
EXTENDS PortOwner, FiniteSets

CONSTANTS
  MaxCmds,     \* bound: connects and disconnects from the port dialog
  MaxAsks      \* bound: questions an operation asks

ASSUME FrontEndAssumption == MaxCmds \in Nat /\ MaxAsks \in Nat /\ Ids = Users

Ops == Users
Cmds == 1..MaxCmds
Kinds == {"plain", "screen"}
Idle == Free       \* no operation

VARIABLES
  busy,        \* the model thinks an operation runs
  dlg,         \* the dialog on the screen
  result,      \* a finished item's result is shown
  exec,        \* the full-screen operation the loop is inside of
  warned,      \* Ctrl+C was pressed during an operation less than 3 s ago
  gone,        \* the program was left
  pc, kind, implicit, wanted, saved, asks,   \* of each operation
  q,           \* its question: "none" | "sent" | "shown" on the screen | on the "console"
  cur,         \* a.op, the operation the App works for
  remembered,  \* the port used before
  cmd          \* the port dialog's goroutines

screenVars == <<busy, dlg, result, exec, warned, gone>>
opVars == <<pc, kind, implicit, wanted, saved, asks, q>>
appVars == <<cur, remembered>>
vars == <<screenVars, opVars, appVars, cmd, portVars>>

NoDialog == [is |-> "none", of |-> "none"]
PortDialog(then) == [is |-> "port", of |-> then]
AskDialog(o) == [is |-> "ask", of |-> o]
NoCmd == [state |-> "unused", name |-> "none", then |-> "none"]

Init ==
  /\ PortInit
  /\ busy = FALSE /\ dlg = NoDialog /\ result = FALSE /\ exec = Idle
  /\ warned = FALSE /\ gone = FALSE
  /\ pc = [o \in Ops |-> "unused"] /\ kind = [o \in Ops |-> "plain"]
  /\ implicit = [o \in Ops |-> FALSE] /\ wanted = [o \in Ops |-> "none"]
  /\ saved = [o \in Ops |-> Idle] /\ asks = [o \in Ops |-> 0] /\ q = [o \in Ops |-> "none"]
  /\ cur = Idle /\ remembered = "none" /\ cmd = [c \in Cmds |-> NoCmd]

Stages == {"unused", "queued", "enter", "open", "askPort", "connect", "acquire", "work",
           "askOperator", "close", "disconnect", "leave", "report", "done"}
Running(o) == pc[o] \notin {"unused", "done"}
LoopFree == exec = Idle /\ ~gone

-----------------------------------------------------------------------------
(***************************************************************************)
(* Keys, taken by the event loop.                                          *)
(***************************************************************************)
Launch(k) ==
  /\ busy' = TRUE /\ result' = FALSE
  /\ \E o \in Ops :
       /\ pc[o] = "unused" /\ \A p \in Ops : p < o => pc[p] # "unused"
       /\ pc' = [pc EXCEPT ![o] = IF k = "screen" THEN "queued" ELSE "enter"]
       /\ kind' = [kind EXCEPT ![o] = k]
  /\ UNCHANGED dlg

\* A full-screen item picks its port before the screen is handed over.
Start(k) ==
  IF k = "screen" /\ ~Connected /\ remembered = "none"
  THEN dlg' = PortDialog(k) /\ UNCHANGED <<busy, result, pc, kind>>
  ELSE Launch(k)

AtMenu == LoopFree /\ dlg = NoDialog /\ ~busy /\ ~result

\* An item that waits for its port keeps nobody from starting another.
KeyStart ==
  /\ AtMenu
  /\ \E k \in Kinds : Start(k)
  /\ UNCHANGED <<exec, warned, gone, implicit, wanted, saved, asks, q, appVars, cmd, portVars>>

KeyDismiss ==
  /\ LoopFree /\ dlg = NoDialog /\ ~busy /\ result
  /\ result' = FALSE
  /\ UNCHANGED <<busy, dlg, exec, warned, gone, opVars, appVars, cmd, portVars>>

KeyPort ==
  /\ AtMenu /\ dlg' = PortDialog("none")
  /\ UNCHANGED <<busy, result, exec, warned, gone, opVars, appVars, cmd, portVars>>

Command(name) ==
  \E c \in Cmds : /\ cmd[c].state = "unused" /\ \A e \in Cmds : e < c => cmd[e].state # "unused"
                  /\ cmd' = [cmd EXCEPT ![c] = [state |-> "running", name |-> name,
                                                then |-> IF name = "none" THEN "none" ELSE dlg.of]]

KeyInPortDialog ==
  /\ LoopFree /\ dlg.is = "port" /\ dlg' = NoDialog
  /\ \/ UNCHANGED <<cmd, remembered>>
     \/ \E n \in Names : Command(n) /\ UNCHANGED remembered
     \/ Command("none") /\ remembered' = "none"
  /\ UNCHANGED <<busy, result, exec, warned, gone, opVars, cur, portVars>>

KeyQuit ==
  /\ AtMenu /\ gone' = TRUE
  /\ UNCHANGED <<busy, dlg, result, exec, warned, opVars, appVars, cmd, portVars>>

\* The first Ctrl+C asks the operation to stop, a second one within 3 s leaves.
CtrlC ==
  /\ LoopFree
  /\ IF ~busy \/ warned THEN gone' = TRUE /\ UNCHANGED warned
     ELSE warned' = TRUE /\ UNCHANGED gone
  /\ UNCHANGED <<busy, dlg, result, exec, opVars, appVars, cmd, portVars>>

ThreeSeconds ==
  /\ warned /\ ~gone /\ warned' = FALSE
  /\ UNCHANGED <<busy, dlg, result, exec, gone, opVars, appVars, cmd, portVars>>

-----------------------------------------------------------------------------
(***************************************************************************)
(* Messages, taken by the event loop.                                      *)
(***************************************************************************)
TakeExec(o) ==
  /\ LoopFree /\ pc[o] = "queued"
  /\ exec' = o /\ pc' = [pc EXCEPT ![o] = "enter"]
  /\ UNCHANGED <<busy, dlg, result, warned, gone, kind, implicit, wanted, saved, asks, q,
                 appVars, cmd, portVars>>

TakeQuestion(o) ==
  /\ LoopFree /\ q[o] = "sent"
  /\ q' = [q EXCEPT ![o] = "shown"] /\ dlg' = AskDialog(o)
  /\ UNCHANGED <<busy, result, exec, warned, gone, pc, kind, implicit, wanted, saved, asks,
                 appVars, cmd, portVars>>

TakeDone(o) ==
  /\ LoopFree /\ pc[o] = "report"
  /\ pc' = [pc EXCEPT ![o] = "done"] /\ busy' = FALSE /\ result' = TRUE
  /\ UNCHANGED <<dlg, exec, warned, gone, kind, implicit, wanted, saved, asks, q, appVars, cmd,
                 portVars>>

\* Mutant: the dialog goes when the port is connected, whichever it is by then.
TakePortClosing(c) ==
  /\ LoopFree /\ cmd[c].state \in {"connected", "told"}
  /\ cmd' = [cmd EXCEPT ![c] = [NoCmd EXCEPT !.state = "done"]]
  /\ IF cmd[c].state = "connected" /\ cmd[c].then # "none"
     THEN Start(cmd[c].then)
     ELSE dlg' = NoDialog /\ UNCHANGED <<busy, result, pc, kind>>
  /\ UNCHANGED <<exec, warned, gone, implicit, wanted, saved, asks, q, appVars, portVars>>

TakePort(c) ==
  /\ LoopFree /\ cmd[c].state \in {"connected", "told"}
  /\ cmd' = [cmd EXCEPT ![c] = [NoCmd EXCEPT !.state = "done"]]
  /\ IF cmd[c].state = "connected" /\ cmd[c].then # "none"
     THEN Start(cmd[c].then)
     ELSE UNCHANGED <<busy, dlg, result, pc, kind>>
  /\ UNCHANGED <<exec, warned, gone, implicit, wanted, saved, asks, q, appVars, portVars>>

-----------------------------------------------------------------------------
(***************************************************************************)
(* The goroutines of the port dialog.                                      *)
(***************************************************************************)
Told(c) == cmd' = [cmd EXCEPT ![c] = [NoCmd EXCEPT !.state = "told"]]

RunCmd(c) ==
  /\ cmd[c].state = "running" /\ ~gone
  /\ LET n == cmd[c].name IN
     \/ /\ n # "none" /\ Connects(n)
        /\ remembered' = n
        /\ cmd' = [cmd EXCEPT ![c] = [state |-> "connected", name |-> "none", then |-> cmd[c].then]]
     \/ /\ n # "none" /\ (ConnectBusy(n) \/ ConnectFails(n))
        /\ Told(c) /\ UNCHANGED remembered
     \/ /\ n = "none" /\ (Disconnects \/ DisconnectBusy)
        /\ Told(c) /\ UNCHANGED remembered
  /\ UNCHANGED <<screenVars, opVars, cur>>

-----------------------------------------------------------------------------
(***************************************************************************)
(* An operation's goroutine.                                               *)
(***************************************************************************)
At(o, l) == ~gone /\ pc[o] = l
Goto(o, l) == pc' = [pc EXCEPT ![o] = l]

\* inSession: the App works for this operation; what it worked for before is put back at its end.
Enter(o) ==
  /\ At(o, "enter") /\ Goto(o, "open")
  /\ saved' = [saved EXCEPT ![o] = cur] /\ cur' = o
  /\ UNCHANGED <<screenVars, kind, implicit, wanted, asks, q, remembered, cmd, portVars>>

\* openPort: with no port connected it connects one for this operation only.
Open(o) ==
  /\ At(o, "open")
  /\ IF Connected THEN Goto(o, "acquire") /\ UNCHANGED <<implicit, wanted>>
     ELSE /\ implicit' = [implicit EXCEPT ![o] = TRUE]
          /\ wanted' = [wanted EXCEPT ![o] = remembered]
          /\ Goto(o, IF remembered = "none" THEN "askPort" ELSE "connect")
  /\ UNCHANGED <<screenVars, kind, saved, asks, q, appVars, cmd, portVars>>

\* Mutant: the question goes to the screen although the screen was handed over.
SendQuestionBlindly(o) ==
  /\ pc[o] \in {"askPort", "askOperator"} /\ ~gone /\ q[o] = "none"
  /\ q' = [q EXCEPT ![o] = "sent"]
  /\ UNCHANGED <<screenVars, pc, kind, implicit, wanted, saved, asks, appVars, cmd, portVars>>

\* Ask and Confirm: to the screen, or to the console while a full-screen operation owns it.
SendQuestion(o) ==
  /\ pc[o] \in {"askPort", "askOperator"} /\ ~gone /\ q[o] = "none"
  /\ q' = [q EXCEPT ![o] = IF exec = Idle THEN "sent" ELSE "console"]
  /\ UNCHANGED <<screenVars, pc, kind, implicit, wanted, saved, asks, appVars, cmd, portVars>>

Answered(o) ==
  \/ /\ pc[o] = "askPort"
     /\ \E n \in Names : wanted' = [wanted EXCEPT ![o] = n] /\ Goto(o, "connect")
  \/ /\ pc[o] = "askPort" /\ Goto(o, "leave") /\ UNCHANGED wanted
  \/ /\ pc[o] = "askOperator" /\ UNCHANGED wanted
     /\ \E l \in {"work", "close"} : Goto(o, l)

AnswerDialog(o) ==
  /\ LoopFree /\ dlg = AskDialog(o) /\ q[o] = "shown" /\ dlg' = NoDialog
  /\ Answered(o) /\ q' = [q EXCEPT ![o] = "none"]
  /\ UNCHANGED <<busy, result, exec, warned, gone, kind, implicit, saved, asks, appVars, cmd,
                 portVars>>

\* A question on the console stays there, whoever has the screen by then.
AnswerConsole(o) ==
  /\ q[o] = "console" /\ ~gone
  /\ Answered(o) /\ q' = [q EXCEPT ![o] = "none"]
  /\ UNCHANGED <<screenVars, kind, implicit, saved, asks, appVars, cmd, portVars>>

\* A port held by another program is asked about again; a remembered one that is gone is
\* forgotten and another is asked for; any other failure ends the operation.
ConnectChosen(o) ==
  /\ At(o, "connect")
  /\ LET n == wanted[o] IN
     \/ Connects(n) /\ Goto(o, "acquire") /\ remembered' = n
     \/ ConnectFails(n) /\ Goto(o, "askPort") /\ UNCHANGED remembered
     \/ /\ ConnectBusy(n) \/ ConnectFails(n)
        /\ IF n = remembered THEN Goto(o, "askPort") /\ remembered' = "none"
           ELSE Goto(o, "leave") /\ UNCHANGED remembered
  /\ UNCHANGED <<screenVars, kind, implicit, wanted, saved, asks, q, cur, cmd>>

\* The lease is taken under a.op, whoever wrote it last.
AcquirePort(o) ==
  /\ At(o, "acquire")
  /\ \/ Acquires(o, cur) /\ Goto(o, "work")
     \/ AcquireFails(o) /\ Goto(o, IF implicit[o] THEN "disconnect" ELSE "leave")
  /\ UNCHANGED <<screenVars, kind, implicit, wanted, saved, asks, q, appVars, cmd>>

AskOperator(o) ==
  /\ At(o, "work") /\ asks[o] < MaxAsks
  /\ asks' = [asks EXCEPT ![o] = @ + 1] /\ Goto(o, "askOperator")
  /\ UNCHANGED <<screenVars, kind, implicit, wanted, saved, q, appVars, cmd, portVars>>

\* The work is done, failed or stopped; in the terminal it is the operator who ends it.
FinishWork(o) ==
  /\ At(o, "work") /\ Goto(o, "close")
  /\ UNCHANGED <<screenVars, kind, implicit, wanted, saved, asks, q, appVars, cmd, portVars>>

ClosePort(o) ==
  /\ At(o, "close") /\ Returns(o)
  /\ Goto(o, IF implicit[o] THEN "disconnect" ELSE "leave")
  /\ UNCHANGED <<screenVars, kind, implicit, wanted, saved, asks, q, appVars, cmd>>

\* oneShotPort.Close, after the lease is returned; an error is nobody's.
DisconnectPort(o) ==
  /\ At(o, "disconnect") /\ Goto(o, "leave")
  /\ Disconnects \/ DisconnectBusy
  /\ UNCHANGED <<screenVars, kind, implicit, wanted, saved, asks, q, appVars, cmd>>

\* The end of inSession; a full-screen operation gives the loop back.
Leave(o) ==
  /\ At(o, "leave") /\ Goto(o, "report")
  /\ cur' = saved[o] /\ exec' = IF exec = o THEN Idle ELSE exec
  /\ implicit' = [implicit EXCEPT ![o] = FALSE] /\ wanted' = [wanted EXCEPT ![o] = "none"]
  /\ saved' = [saved EXCEPT ![o] = Idle] /\ asks' = [asks EXCEPT ![o] = 0]
  /\ UNCHANGED <<busy, dlg, result, warned, gone, kind, q, remembered, cmd, portVars>>

-----------------------------------------------------------------------------
Loop(o) == TakeExec(o) \/ TakeQuestion(o) \/ TakeDone(o)
Work(o) ==
  \/ Enter(o) \/ Open(o) \/ SendQuestion(o) \/ ConnectChosen(o) \/ AcquirePort(o)
  \/ ClosePort(o) \/ DisconnectPort(o) \/ Leave(o)
Operator ==
  \/ KeyStart \/ KeyDismiss \/ KeyPort \/ KeyInPortDialog \/ KeyQuit \/ CtrlC
  \/ \E o \in Ops : AnswerDialog(o) \/ AnswerConsole(o)

Next ==
  \/ Operator \/ ThreeSeconds
  \/ \E o \in Ops : Loop(o) \/ Work(o) \/ AskOperator(o) \/ FinishWork(o)
  \/ \E c \in Cmds : TakePort(c) \/ RunCmd(c)

Spec == Init /\ [][Next]_vars

\* The loop takes what is sent to it, goroutines run, and an operation's work comes to an end
\* unless it is the terminal's.  Nothing is assumed of the operator.
Fairness ==
  /\ \A o \in Ops : WF_vars(Loop(o)) /\ WF_vars(Work(o)) /\ WF_vars(kind[o] = "plain" /\ FinishWork(o))
  /\ \A c \in Cmds : WF_vars(TakePort(c)) /\ WF_vars(RunCmd(c))

FairSpec == Spec /\ Fairness

-----------------------------------------------------------------------------
TypeOK ==
  /\ pc \in [Ops -> Stages] /\ q \in [Ops -> {"none", "sent", "shown", "console"}]
  /\ cur \in Ops \cup {Idle} /\ saved \in [Ops -> Ops \cup {Idle}]
  /\ remembered \in Names \cup {"none"} /\ wanted \in [Ops -> Names \cup {"none"}]
  /\ cmd \in [Cmds -> [state : {"unused", "running", "connected", "told", "done"},
                       name : Names \cup {"none"}, then : Kinds \cup {"none"}]]

\* A question leaves the screen by its answer.  Nothing else takes it away, neither the end of
\* another operation nor the outcome of a connect that was asked for before, except the question
\* of another operation and the choice of a port for an item that waited for one.
QuestionKept ==
  [][\A o \in Ops : dlg = AskDialog(o) /\ dlg' # dlg =>
       \/ q[o] = "shown" /\ q'[o] = "none"
       \/ \E p \in Ops \ {o} : q[p] = "sent" /\ dlg' = AskDialog(p)
       \/ \E c \in Cmds : /\ cmd[c].state = "connected" /\ cmd[c].then = "screen"
                         /\ dlg' = PortDialog("screen")]_vars

\* doc/UI_SPEC_RU.md: one operation at a time.
OneOperation == Cardinality({o \in Ops : Running(o)}) <= 1

\* Every operation ends, gives its lease back and frees the menu, unless the operator is the
\* one who is waited for: at its question, or in the terminal, inside of which the loop is.  The
\* one exception is an operation whose question was taken away: it waits for ever.
OperatorsTurn(o) ==
  \/ gone \/ dlg = AskDialog(o) \/ q[o] = "console"
  \/ exec # Idle /\ (pc[exec] = "work" \/ q[exec] = "console")
Unanswerable(o) == q[o] = "shown" /\ dlg # AskDialog(o)
OperationEnds ==
  \A o \in Ops :
    Running(o) ~> \/ OperatorsTurn(o) \/ Unanswerable(o)
                  \/ pc[o] = "done" /\ lease[o] = NoLease
=============================================================================
