---------------------------- MODULE FrontEndProofs ----------------------------
(***************************************************************************)
(* The port is never closed, replaced or leased twice while an operation   *)
(* holds it: first for whatever uses the owner, then for the front end,    *)
(* with any number of operations, also beside each other.  Then which      *)
(* steps may take a question from the screen.                              *)
(* At the end of the module stands what the answer to one question is for: *)
(* a probe changes a setting of the router only by consent.                *)
(***************************************************************************)
EXTENDS FrontEnd, StockAccess, Sequences, TLAPS

Ports == [name : Names \cup {"none"}, handle : Nat]
LeaseIds == Ids \cup {Free, Unnamed}
Leases == [port : Ports, op : LeaseIds]

\* A free owner has no lease; a lease that is out is for the open port, under the holder's ID,
\* and it is the only one.
PortInv ==
  /\ opened \in Nat /\ port \in Ports /\ lease \in [Users -> Leases]
  /\ \A u \in Users : lease[u] # NoLease =>
       lease[u].port = port /\ Connected /\ lease[u].op = holder /\ holder # Free
  /\ \A u, v \in Users : lease[u] # NoLease /\ lease[v] # NoLease => u = v

\* The owner starts without a port and without leases.
LEMMA PortInitially == PortInit => PortInv
  BY DEF PortInit, PortInv, Ports, Leases, LeaseIds, NoPort, NoLease, Free, Connected

\* Connecting: nothing changes for the port that is open already, and a new port comes only
\* when no lease is out.
LEMMA ConnectKeeps ==
  ASSUME PortInv, NEW n \in Names, Connects(n)
  PROVE  PortInv'
<1>1. CASE UNCHANGED portVars
  BY <1>1 DEF PortInv, portVars, Connected, Ports, Leases
<1>2. CASE holder = Free /\ OpenPort(n)
  <2>1. \A u \in Users : lease[u] = NoLease
    BY <1>2 DEF PortInv
  <2>2. opened' \in Nat /\ port' \in Ports /\ lease' = lease
    BY <1>2 DEF PortInv, OpenPort, Ports
  <2> QED BY <2>1, <2>2 DEF PortInv
<1> QED BY <1>1, <1>2 DEF Connects

\* Disconnecting: only when no lease is out.
LEMMA DisconnectKeeps ==
  ASSUME PortInv, Disconnects
  PROVE  PortInv'
<1>1. \A u \in Users : lease[u] = NoLease
  BY DEF PortInv, Disconnects
<1>2. opened' \in Nat /\ port' \in Ports /\ lease' = lease
  BY DEF PortInv, Disconnects, Ports, NoPort
<1> QED BY <1>1, <1>2 DEF PortInv

\* Leasing: only when no lease is out, and always under an ID that is not the free one.
LEMMA AcquireKeeps ==
  ASSUME PortInv, NEW u \in Users, NEW id \in Ids \cup {Free}, Acquires(u, id)
  PROVE  PortInv'
<1>1. \A v \in Users : lease[v] = NoLease
  BY DEF PortInv, Acquires
<1>2. LeaseId(id) \in LeaseIds /\ LeaseId(id) # Free
  BY DEF LeaseId, LeaseIds, Free, Unnamed
<1>3. /\ opened' \in Nat /\ port' \in Ports /\ port' = port
      /\ port # NoPort /\ holder' = LeaseId(id)
  BY DEF PortInv, Acquires, Connected
<1>4. [port |-> port, op |-> LeaseId(id)] \in Leases
  BY <1>2 DEF PortInv, Leases
<1>5. lease' = [lease EXCEPT ![u] = [port |-> port, op |-> LeaseId(id)]]
  BY DEF Acquires
<1>6. lease' \in [Users -> Leases]
  BY <1>4, <1>5 DEF PortInv
<1>7. \A v \in Users : lease'[v] # NoLease => v = u
  BY <1>1, <1>5 DEF PortInv
<1>8. lease'[u] = [port |-> port, op |-> LeaseId(id)]
  BY <1>5 DEF PortInv
<1> QED BY <1>2, <1>3, <1>6, <1>7, <1>8 DEF PortInv, Connected

\* Returning: the one lease that is out goes.
LEMMA ReturnKeeps ==
  ASSUME PortInv, NEW u \in Users, Returns(u)
  PROVE  PortInv'
<1>1. lease' = [lease EXCEPT ![u] = NoLease] /\ opened' = opened /\ port' = port
  BY DEF Returns
<1>2. NoLease \in Leases
  BY DEF NoLease, NoPort, Leases, Ports, LeaseIds, Free
<1>3. lease' \in [Users -> Leases]
  BY <1>1, <1>2 DEF PortInv
<1>4. \A v \in Users : lease'[v] = NoLease
  BY <1>1 DEF PortInv, Returns
<1> QED BY <1>1, <1>3, <1>4 DEF PortInv

LEMMA PortStepKeeps ==
  ASSUME PortInv, [PortStep]_portVars
  PROVE  PortInv'
<1>1. CASE UNCHANGED portVars
  BY <1>1 DEF PortInv, portVars, Connected
<1>2. CASE PortStep
  BY <1>2, ConnectKeeps, DisconnectKeeps, AcquireKeeps, ReturnKeeps DEF PortStep
<1> QED BY <1>1, <1>2

\* What the owner promises to any set of users under any IDs.
THEOREM OwnerKeepsLease == PortSpec => []LeaseIsOpenPort
<1>1. PortInv => LeaseIsOpenPort
  BY DEF PortInv, LeaseIsOpenPort
<1> QED BY <1>1, PortInitially, PortStepKeeps, PTL DEF PortSpec

-----------------------------------------------------------------------------
(***************************************************************************)
(* The front end uses the owner as it may be used.                         *)
(***************************************************************************)
HasLease == {"work", "askOperator", "close"}

\* An operation has its lease only between taking it and returning it, so it never takes a
\* second one; the port it connects has a name, and a port dialog knows the item it is for.
UserInv ==
  /\ TypeOK
  /\ dlg.is = "port" => dlg.of \in Kinds \cup {"none"}
  /\ \A o \in Ops : lease[o] # NoLease => pc[o] \in HasLease
  /\ \A o \in Ops : pc[o] = "connect" => wanted[o] \in Names

FrontEndInv == PortInv /\ UserInv

LEMMA FrontEndInitially == Init => FrontEndInv
  BY PortInitially, FrontEndAssumption
  DEF Init, FrontEndInv, UserInv, TypeOK, PortInit, Ops, Stages, Idle, NoCmd, HasLease, NoDialog

\* Every step of the front end is one the owner knows, or leaves the port alone.
LEMMA StepsAreTheOwners ==
  ASSUME FrontEndInv, [Next]_vars
  PROVE  [PortStep]_portVars
<1>0. Ops = Ids /\ Ops = Users
  BY FrontEndAssumption DEF Ops
<1>1. ASSUME NEW c \in Cmds, RunCmd(c) PROVE [PortStep]_portVars
  <2>1. cmd[c].name \in Names \cup {"none"}
    BY DEF FrontEndInv, UserInv, TypeOK
  <2> QED BY <1>1, <2>1 DEF RunCmd, PortStep, ConnectBusy, ConnectFails, DisconnectBusy
<1>2. ASSUME NEW o \in Ops, ConnectChosen(o) PROVE [PortStep]_portVars
  <2>1. wanted[o] \in Names
    BY <1>2 DEF FrontEndInv, UserInv, ConnectChosen, At
  <2> QED BY <1>2, <2>1 DEF ConnectChosen, PortStep, ConnectBusy, ConnectFails
<1>3. ASSUME NEW o \in Ops, AcquirePort(o) PROVE [PortStep]_portVars
  <2>1. lease[o] = NoLease /\ cur \in Ids \cup {Free}
    BY <1>0, <1>3 DEF FrontEndInv, UserInv, TypeOK, AcquirePort, At, HasLease, Idle
  <2> QED BY <1>0, <1>3, <2>1 DEF AcquirePort, AcquireFails, PortStep
<1>4. ASSUME NEW o \in Ops, ClosePort(o) PROVE [PortStep]_portVars
  BY <1>0, <1>4 DEF ClosePort, PortStep
<1>5. ASSUME NEW o \in Ops, DisconnectPort(o) PROVE [PortStep]_portVars
  BY <1>5 DEF DisconnectPort, DisconnectBusy, PortStep
<1>6. ASSUME Operator \/ ThreeSeconds PROVE UNCHANGED portVars
  BY <1>6 DEF Operator, ThreeSeconds, KeyStart, KeyDismiss, KeyPort, KeyInPortDialog, KeyQuit,
     CtrlC, AnswerDialog, AnswerConsole
<1>7. ASSUME NEW o \in Ops,
             \/ Loop(o) \/ Enter(o) \/ Open(o) \/ SendQuestion(o) \/ Leave(o)
             \/ AskOperator(o) \/ FinishWork(o)
      PROVE  UNCHANGED portVars
  BY <1>7 DEF Loop, TakeExec, TakeQuestion, TakeDone, Enter, Open, SendQuestion, Leave,
     AskOperator, FinishWork
<1>8. ASSUME NEW c \in Cmds, TakePort(c) PROVE UNCHANGED portVars
  BY <1>8 DEF TakePort
<1>9. ASSUME UNCHANGED vars PROVE UNCHANGED portVars
  BY <1>9 DEF vars
<1> QED BY <1>1, <1>2, <1>3, <1>4, <1>5, <1>6, <1>7, <1>8, <1>9 DEF Next, Work

\* Starting an item takes an operation that has not run, and no lease with it.
LEMMA StartKeeps ==
  ASSUME FrontEndInv, NEW k \in Kinds, Start(k)
  PROVE  /\ pc' \in [Ops -> Stages]
         /\ \A o \in Ops : \/ pc'[o] = pc[o]
                           \/ pc[o] = "unused" /\ pc'[o] \in {"queued", "enter"}
<1> USE DEF FrontEndInv, UserInv, TypeOK
<1>1. CASE UNCHANGED <<busy, result, pc, kind>>
  BY <1>1
<1>2. CASE Launch(k)
  <2>1. PICK o \in Ops : /\ pc[o] = "unused"
                         /\ pc' = [pc EXCEPT ![o] = IF k = "screen" THEN "queued" ELSE "enter"]
    BY <1>2 DEF Launch
  <2> QED BY <2>1 DEF Stages
<1> QED BY <1>1, <1>2 DEF Start

\* An item is started by a key or by the goroutine that connected its port.
LEMMA StartedKeeps ==
  ASSUME FrontEndInv, NEW k \in Kinds, Start(k),
         UNCHANGED <<wanted, saved, q, cur, remembered, lease>>,
         cmd' \in [Cmds -> [state : {"unused", "running", "connected", "told", "done"},
                            name : Names \cup {"none"}, then : Kinds \cup {"none"}]]
  PROVE  UserInv'
<1>1. /\ pc' \in [Ops -> Stages]
      /\ \A o \in Ops : \/ pc'[o] = pc[o]
                        \/ pc[o] = "unused" /\ pc'[o] \in {"queued", "enter"}
  BY StartKeeps
<1>2. TypeOK'
  BY <1>1 DEF FrontEndInv, UserInv, TypeOK
<1>3. dlg' = dlg \/ dlg' = PortDialog(k)
  BY DEF Start, Launch
<1>4. dlg'.is = "port" => dlg'.of \in Kinds \cup {"none"}
  BY <1>3 DEF PortDialog, FrontEndInv, UserInv
<1>5. \A o \in Ops : lease'[o] # NoLease => pc'[o] \in HasLease
  BY <1>1 DEF FrontEndInv, UserInv, HasLease
<1>6. \A o \in Ops : pc'[o] = "connect" => wanted'[o] \in Names
  BY <1>1 DEF FrontEndInv, UserInv
<1> QED BY <1>2, <1>4, <1>5, <1>6 DEF UserInv

\* What the operator does changes no lease.
LEMMA OperatorKeeps ==
  ASSUME FrontEndInv, Operator \/ ThreeSeconds
  PROVE  UserInv'
<1> USE FrontEndAssumption DEF FrontEndInv, UserInv, TypeOK, appVars, opVars, HasLease
<1>1. CASE KeyStart
  <2>1. PICK k \in Kinds : Start(k)
    BY <1>1 DEF KeyStart
  <2>2. UNCHANGED <<wanted, saved, q, cur, remembered, lease, cmd>>
    BY <1>1 DEF KeyStart, portVars
  <2> QED BY <2>1, <2>2, StartedKeeps
<1>2. CASE KeyDismiss \/ KeyPort \/ KeyQuit \/ CtrlC \/ ThreeSeconds
  BY <1>2 DEF KeyDismiss, KeyPort, KeyQuit, CtrlC, ThreeSeconds, portVars, PortDialog
<1>3. CASE KeyInPortDialog
  BY <1>3 DEF KeyInPortDialog, Command, portVars, NoDialog
<1>4. ASSUME NEW o \in Ops, AnswerDialog(o) PROVE UserInv'
  BY <1>4 DEF AnswerDialog, Answered, Goto, Stages, portVars, Ops, NoDialog
<1>5. ASSUME NEW o \in Ops, AnswerConsole(o) PROVE UserInv'
  BY <1>5 DEF AnswerConsole, Answered, Goto, Stages, portVars, Ops, screenVars
<1> QED BY <1>1, <1>2, <1>3, <1>4, <1>5 DEF Operator

\* What the loop takes changes no lease either.
LEMMA LoopKeeps ==
  ASSUME FrontEndInv, NEW o \in Ops, Loop(o)
  PROVE  UserInv'
  BY DEF Loop, TakeExec, TakeQuestion, TakeDone, FrontEndInv, UserInv, TypeOK, appVars, HasLease,
     Stages, portVars, AskDialog

LEMMA CommandsKeep ==
  ASSUME FrontEndInv, NEW c \in Cmds, TakePort(c) \/ RunCmd(c)
  PROVE  UserInv'
<1> USE DEF FrontEndInv, UserInv, TypeOK
<1>1. CASE RunCmd(c)
  <2>1. lease' = lease
    BY <1>1 DEF RunCmd, Connects, ConnectBusy, ConnectFails, Disconnects, DisconnectBusy,
       OpenPort, portVars
  <2>2. remembered' \in Names \cup {"none"} /\ UNCHANGED <<dlg, pc, q, cur, saved, wanted>>
    BY <1>1 DEF RunCmd, opVars, screenVars
  <2>3. \/ cmd' = [cmd EXCEPT ![c] = [state |-> "connected", name |-> "none", then |-> cmd[c].then]]
        \/ cmd' = [cmd EXCEPT ![c] = [NoCmd EXCEPT !.state = "told"]]
    BY <1>1 DEF RunCmd, Told
  <2>4. cmd' \in [Cmds -> [state : {"unused", "running", "connected", "told", "done"},
                           name : Names \cup {"none"}, then : Kinds \cup {"none"}]]
    BY <2>3 DEF NoCmd
  <2> QED BY <2>1, <2>2, <2>4
<1>2. CASE TakePort(c)
  <2>1. cmd' \in [Cmds -> [state : {"unused", "running", "connected", "told", "done"},
                           name : Names \cup {"none"}, then : Kinds \cup {"none"}]]
    BY <1>2 DEF TakePort, NoCmd
  <2>2. UNCHANGED <<wanted, saved, q, cur, remembered, lease>>
    BY <1>2 DEF TakePort, appVars, portVars
  <2>3. CASE cmd[c].then # "none" /\ Start(cmd[c].then)
    <3>1. cmd[c].then \in Kinds
      BY <2>3
    <3> QED BY <2>1, <2>2, <2>3, <3>1, StartedKeeps
  <2>4. CASE UNCHANGED <<busy, dlg, result, pc, kind>>
    BY <2>1, <2>2, <2>4
  <2> QED BY <1>2, <2>3, <2>4 DEF TakePort
<1> QED BY <1>1, <1>2

\* The operation takes its lease on the way into its work and returns it on the way out.
LEMMA WorkKeeps ==
  ASSUME FrontEndInv, NEW o \in Ops, Work(o) \/ AskOperator(o) \/ FinishWork(o)
  PROVE  UserInv'
<1> USE FrontEndAssumption
    DEF FrontEndInv, UserInv, TypeOK, HasLease, Stages, Goto, At, screenVars, appVars, Ops, Idle
<1>1. CASE Enter(o)
  BY <1>1 DEF Enter, portVars
<1>2. CASE Open(o)
  BY <1>2 DEF Open, portVars
<1>3. CASE SendQuestion(o)
  BY <1>3 DEF SendQuestion, portVars
<1>4. CASE ConnectChosen(o)
  <2>1. lease' = lease
    BY <1>4 DEF ConnectChosen, Connects, ConnectBusy, ConnectFails, OpenPort, portVars
  <2>2. pc' \in [Ops -> Stages] /\ \A p \in Ops : p # o => pc'[p] = pc[p]
    BY <1>4 DEF ConnectChosen
  <2>3. pc[o] = "connect" /\ pc'[o] # "connect"
    BY <1>4 DEF ConnectChosen
  <2>4. remembered' \in Names \cup {"none"} /\ UNCHANGED <<dlg, q, cur, saved, wanted, cmd>>
    BY <1>4 DEF ConnectChosen
  <2> QED BY <2>1, <2>2, <2>3, <2>4
<1>5. CASE AcquirePort(o)
  BY <1>5 DEF AcquirePort, Acquires, AcquireFails, portVars, PortInv
<1>6. CASE ClosePort(o)
  <2>1. lease' = [lease EXCEPT ![o] = NoLease] /\ lease \in [Ops -> Leases]
    BY <1>6 DEF ClosePort, Returns, PortInv
  <2> QED BY <1>6, <2>1 DEF ClosePort
<1>7. CASE DisconnectPort(o)
  <2>1. lease' = lease
    BY <1>7 DEF DisconnectPort, Disconnects, DisconnectBusy, portVars
  <2> QED BY <1>7, <2>1 DEF DisconnectPort
<1>8. CASE Leave(o)
  BY <1>8 DEF Leave, portVars
<1>9. CASE AskOperator(o) \/ FinishWork(o)
  BY <1>9 DEF AskOperator, FinishWork, portVars
<1> QED BY <1>1, <1>2, <1>3, <1>4, <1>5, <1>6, <1>7, <1>8, <1>9 DEF Work

LEMMA FrontEndKeeps ==
  ASSUME FrontEndInv, [Next]_vars
  PROVE  FrontEndInv'
<1>1. PortInv'
  BY StepsAreTheOwners, PortStepKeeps DEF FrontEndInv
<1>2. ASSUME UNCHANGED vars PROVE UserInv'
  BY <1>2 DEF FrontEndInv, UserInv, TypeOK, vars, screenVars, opVars, appVars, portVars, HasLease
<1>3. ASSUME Next PROVE UserInv'
  BY <1>3, OperatorKeeps, LoopKeeps, WorkKeeps, CommandsKeep DEF Next
<1> QED BY <1>1, <1>2, <1>3 DEF FrontEndInv

\* However many operations and goroutines there are, also beside each other, nobody closes or
\* replaces the port under an operation, and no two operations lease it.
THEOREM NoPortPulledAway == Spec => []LeaseIsOpenPort
<1>1. FrontEndInv => LeaseIsOpenPort
  BY DEF FrontEndInv, PortInv, LeaseIsOpenPort
<1> QED BY <1>1, FrontEndInitially, FrontEndKeeps, PTL DEF Spec

\* The front end is one user of the owner: its steps are the owner's or leave it alone.
THEOREM FrontEndUsesOwner == Spec => PortSpec
<1>1. Init => PortInit
  BY DEF Init
<1> QED BY <1>1, FrontEndInitially, FrontEndKeeps, StepsAreTheOwners, PTL DEF Spec, PortSpec

-----------------------------------------------------------------------------
(***************************************************************************)
(* What may take a question from the screen.                               *)
(***************************************************************************)
\* The choice of a port comes to the screen only for a full-screen item.
LEMMA StartShowsPorts ==
  ASSUME NEW k, Start(k)
  PROVE  dlg' = dlg \/ (k = "screen" /\ dlg' = PortDialog("screen"))
  BY DEF Start, Launch

LEMMA StepKeepsQuestion ==
  ASSUME FrontEndInv, Next, NEW o \in Ops, dlg = AskDialog(o), dlg' # dlg
  PROVE  \/ q[o] = "shown" /\ q'[o] = "none"
         \/ \E p \in Ops \ {o} : q[p] = "sent" /\ dlg' = AskDialog(p)
         \/ \E c \in Cmds : /\ cmd[c].state = "connected" /\ cmd[c].then = "screen"
                           /\ dlg' = PortDialog("screen")
<1>0. dlg # NoDialog /\ dlg.is = "ask" /\ dlg.of = o
  BY DEF AskDialog, NoDialog
<1>1. CASE KeyStart \/ KeyDismiss \/ KeyPort \/ KeyInPortDialog \/ KeyQuit
  BY <1>0, <1>1 DEF KeyStart, KeyDismiss, KeyPort, KeyInPortDialog, KeyQuit, AtMenu
<1>2. CASE CtrlC \/ ThreeSeconds
  BY <1>2 DEF CtrlC, ThreeSeconds
<1>3. ASSUME NEW p \in Ops, AnswerDialog(p)
      PROVE  q[o] = "shown" /\ q'[o] = "none"
  BY <1>0, <1>3 DEF AnswerDialog, AskDialog, FrontEndInv, UserInv, TypeOK
<1>4. ASSUME NEW p \in Ops, TakeQuestion(p)
      PROVE  p # o /\ q[p] = "sent" /\ dlg' = AskDialog(p)
  BY <1>4 DEF TakeQuestion
<1>5. ASSUME NEW p \in Ops, AnswerConsole(p) \/ TakeExec(p) \/ TakeDone(p) PROVE FALSE
  BY <1>5 DEF AnswerConsole, TakeExec, TakeDone, screenVars
<1>6. ASSUME NEW p \in Ops, Work(p) \/ AskOperator(p) \/ FinishWork(p) PROVE FALSE
  BY <1>6 DEF Work, Enter, Open, SendQuestion, ConnectChosen, AcquirePort, ClosePort,
     DisconnectPort, Leave, AskOperator, FinishWork, screenVars
<1>7. ASSUME NEW c \in Cmds, RunCmd(c) PROVE FALSE
  BY <1>7 DEF RunCmd, screenVars
<1>8. ASSUME NEW c \in Cmds, TakePort(c)
      PROVE  cmd[c].state = "connected" /\ cmd[c].then = "screen" /\ dlg' = PortDialog("screen")
  BY <1>8, StartShowsPorts DEF TakePort
<1> QED BY <1>1, <1>2, <1>3, <1>4, <1>5, <1>6, <1>7, <1>8 DEF Next, Operator, Loop

\* Whatever the number of operations, questions and goroutines: a question leaves the screen by
\* its answer, or by one of the two things that are known to replace it.
THEOREM QuestionStays == Spec => QuestionKept
<1> DEFINE Kept ==
      \A o \in Ops : dlg = AskDialog(o) /\ dlg' # dlg =>
        \/ q[o] = "shown" /\ q'[o] = "none"
        \/ \E p \in Ops \ {o} : q[p] = "sent" /\ dlg' = AskDialog(p)
        \/ \E c \in Cmds : /\ cmd[c].state = "connected" /\ cmd[c].then = "screen"
                          /\ dlg' = PortDialog("screen")
<1>1. FrontEndInv /\ [Next]_vars => [Kept]_vars
  <2> SUFFICES ASSUME FrontEndInv, Next PROVE Kept
    OBVIOUS
  <2> QED BY StepKeepsQuestion
<1>2. QuestionKept <=> [][Kept]_vars
  BY DEF QuestionKept
<1> HIDE DEF Kept
<1> QED BY <1>1, <1>2, FrontEndInitially, FrontEndKeeps, PTL DEF Spec

(***************************************************************************)
(* The probe of an unknown device is one of these operations, and one of   *)
(* its questions allows it to change a setting of the router.  That it     *)
(* changes none without the answer is shown here of an instance of         *)
(* ProbeRun, for any number of repetitions of the assist and of power      *)
(* cuts.                                                                   *)
(*                                                                         *)
(* The consent is given to one call of the assist, and the answer may be   *)
(* lost, late or given up: what is allowed to change the setting is the    *)
(* goroutine of that call, whatever the collector and the goroutines of    *)
(* other calls do meanwhile.  So the invariant says of each goroutine,     *)
(* too, that it has the consent (AllowedByConsent).                        *)
(***************************************************************************)
CONSTANT MaxCuts
VARIABLES place, req, dev, wire, seen, fresh, line, c, out, au, flash, cut

Probe == INSTANCE ProbeRun WITH pc <- place

\* An assist's record is changed field by field.
IsAssist(r) ==
  /\ r = [f \in {"at", "provision", "changed", "tries", "plan", "left"} |-> r[f]]
  /\ r.provision \in BOOLEAN

Shape ==
  /\ web = [g \in 1..3 |-> web[g]] /\ consent \in BOOLEAN
  /\ \A g \in 1..3 : IsAssist(web[g])

AllowedByConsent == \A g \in 1..3 : web[g].provision => consent

AskedToChange == \A g \in 1..3 : web[g].at = "enable" => web[g].provision

ConsentInv == Shape /\ AskedToChange /\ AllowedByConsent /\ ConsentBeforeChange

\* One assist's record is changed; no consent is taken back.
LEMMA OneChanges ==
  ASSUME ConsentInv, NEW g \in 1..3, NEW r, web' = [web EXCEPT ![g] = r], IsAssist(r),
         r.at = "enable" => r.provision, r.provision => consent', consent' \in BOOLEAN,
         consent => consent', ftp'.byUs => consent'
  PROVE  ConsentInv'
<1>1. web' = [h \in 1..3 |-> IF h = g THEN r ELSE web[h]]
  BY DEF ConsentInv, Shape
<1> QED
  BY <1>1 DEF ConsentInv, AskedToChange, Shape, AllowedByConsent, ConsentBeforeChange

\* A step of an assist, by which it does not come to the change.
LEMMA Steps ==
  ASSUME ConsentInv, NEW g \in 1..3, NEW r, web' = [web EXCEPT ![g] = r], UNCHANGED consent,
         IsAssist(r), r.provision = web[g].provision \/ ~r.provision,
         r.at = "enable" => r.provision, ftp'.byUs => consent
  PROVE  ConsentInv'
<1>1. web' = [h \in 1..3 |-> IF h = g THEN r ELSE web[h]]
  BY DEF ConsentInv, Shape
<1>2. r.provision => consent
  BY DEF ConsentInv, AllowedByConsent
<1> QED
  BY <1>1, <1>2 DEF ConsentInv, AskedToChange, Shape, AllowedByConsent, ConsentBeforeChange

LEMMA IdleAssist ==
  /\ IsAssist(Probe!IdleWeb) /\ Probe!IdleWeb.at = "idle" /\ Probe!IdleWeb.provision = FALSE
  /\ \A at, p : LET r == [Probe!IdleWeb EXCEPT !.at = at, !.provision = p]
               IN r = [f \in {"at", "provision", "changed", "tries", "plan", "left"} |-> r[f]]
                  /\ r.at = at /\ r.provision = p
<1>1. Probe!IdleWeb = [at |-> "idle", provision |-> FALSE, changed |-> FALSE, tries |-> 0,
                       plan |-> Probe!NoPlan, left |-> FALSE]
  BY Zenon DEF Probe!IdleWeb
<1>2. ASSUME NEW none PROVE
        LET w == [at |-> "idle", provision |-> FALSE, changed |-> FALSE, tries |-> 0,
                  plan |-> none, left |-> FALSE]
        IN /\ IsAssist(w) /\ w.at = "idle" /\ w.provision = FALSE
           /\ \A at, p : LET r == [w EXCEPT !.at = at, !.provision = p]
                        IN r = [f \in {"at", "provision", "changed", "tries", "plan", "left"} |-> r[f]]
                           /\ r.at = at /\ r.provision = p
  BY DEF IsAssist
<1> QED
  BY <1>1, <1>2

\* A call with the consent, or one that needs none.
LEMMA CallKeeps ==
  ASSUME ConsentInv, NEW g \in 1..3, NEW p \in BOOLEAN, Probe!WebCall(g, p), consent' \in BOOLEAN,
         p => consent', consent => consent'
  PROVE  ConsentInv'
<1> DEFINE r == [Probe!IdleWeb EXCEPT !.at = "login", !.provision = p]
<1>1. IsAssist(r) /\ r.at = "login" /\ r.provision = p
  BY IdleAssist DEF IsAssist
<1>2. web' = [web EXCEPT ![g] = r] /\ ftp' = ftp
  BY DEF Probe!WebCall
<1>3. ftp'.byUs => consent'
  BY <1>2 DEF ConsentInv, ConsentBeforeChange
<1> HIDE DEF r
<1> QED
  BY <1>1, <1>2, <1>3, OneChanges

LEMMA NotCalled ==
  ASSUME ConsentInv, NEW g, g \notin 1..3, NEW r, web' = [web EXCEPT ![g] = r], UNCHANGED <<ftp, consent>>
  PROVE  ConsentInv'
<1>1. web' = web
  BY DEF ConsentInv, Shape
<1> QED
  BY <1>1 DEF ConsentInv, AskedToChange, Shape, AllowedByConsent, ConsentBeforeChange

LEMMA TakenKeeps ==
  ASSUME ConsentInv, NEW g, Probe!WebTaken(g)
  PROVE  ConsentInv'
<1>1. /\ web' = [web EXCEPT ![g] = Probe!IdleWeb] /\ UNCHANGED <<ftp, consent>>
      /\ ftp'.byUs => consent
  BY DEF Probe!WebTaken, ConsentInv, ConsentBeforeChange
<1> QED
  BY <1>1, IdleAssist, Steps, NotCalled

LEMMA LeftKeeps ==
  ASSUME ConsentInv, NEW g, Probe!WebLeft(g)
  PROVE  ConsentInv'
<1> DEFINE r == IF web[g].provision /\ web[g].at \in Probe!Changing
                THEN [web[g] EXCEPT !.left = TRUE, !.tries = WebTries] ELSE Probe!IdleWeb
<1>1. CASE g \in 1..3
  <2>1. /\ IsAssist(r) /\ (r.provision = web[g].provision \/ ~r.provision)
        /\ r.at = "enable" => r.provision
    BY <1>1, IdleAssist DEF IsAssist, ConsentInv, Shape
  <2>2. web' = [web EXCEPT ![g] = r] /\ UNCHANGED consent /\ (ftp'.byUs => consent)
    BY <1>1 DEF Probe!WebLeft, ConsentInv, Shape, ConsentBeforeChange
  <2> HIDE DEF r
  <2> QED
    BY <1>1, <2>1, <2>2, Steps
<1>2. CASE g \notin 1..3
  <2>1. web' = [web EXCEPT ![g] = r] /\ UNCHANGED <<ftp, consent>>
    BY <1>2 DEF Probe!WebLeft, ConsentInv, Shape
  <2> HIDE DEF r
  <2> QED
    BY <1>2, <2>1, NotCalled
<1> QED
  BY <1>1, <1>2

LEMMA IdleKeeps ==
  ASSUME ConsentInv, UNCHANGED Probe!webVars
  PROVE  ConsentInv'
BY DEF Probe!webVars, ConsentInv, AskedToChange, Shape, AllowedByConsent, ConsentBeforeChange

\* A goroutine changes the setting only if it was called to.
LEMMA AssistKeeps ==
  ASSUME ConsentInv, Probe!WebNext
  PROVE  ConsentInv'
<1>0. consent' = consent
  BY DEF Probe!WebNext
<1>1. ASSUME NEW g \in 1..3, NEW p, Probe!WebGoto(g, p), p = "enable" => web[g].provision,
             ftp'.byUs => consent
      PROVE  ConsentInv'
  <2> DEFINE r == IF web[g].left /\ p \notin Probe!Changing THEN Probe!IdleWeb
                  ELSE [web[g] EXCEPT !.at = p]
  <2>1. /\ IsAssist(r) /\ (r.provision = web[g].provision \/ ~r.provision)
        /\ r.at = "enable" => r.provision
    BY <1>1, IdleAssist DEF IsAssist, ConsentInv, Shape
  <2>2. web' = [web EXCEPT ![g] = r]
    BY <1>1 DEF Probe!WebGoto, ConsentInv, Shape
  <2> HIDE DEF r
  <2> QED
    BY <1>0, <1>1, <2>1, <2>2, Steps
<1>2. ASSUME NEW g \in 1..3, NEW at, NEW plan, Probe!WebEnds(g, at, plan), at # "enable",
             ftp'.byUs => consent
      PROVE  ConsentInv'
  <2> DEFINE r == IF web[g].left THEN Probe!IdleWeb ELSE [web[g] EXCEPT !.at = at, !.plan = plan]
  <2>1. IsAssist(r) /\ (r.provision = web[g].provision \/ ~r.provision) /\ r.at # "enable"
    <3>1. CASE web[g].left
      BY <3>1, IdleAssist
    <3>2. CASE ~web[g].left
      BY <1>2, <3>2 DEF IsAssist, ConsentInv, Shape
    <3> QED
      BY <3>1, <3>2
  <2>2. web' = [web EXCEPT ![g] = r]
    BY <1>2 DEF Probe!WebEnds, ConsentInv, Shape
  <2> HIDE DEF r
  <2> QED
    BY <1>0, <1>2, <2>1, <2>2, Steps
<1>3. ASSUME UNCHANGED ftp PROVE ftp'.byUs => consent
  BY <1>3 DEF ConsentInv, ConsentBeforeChange
<1>4. ASSUME NEW g \in 1..3, Probe!WebFails(g)
      PROVE  ConsentInv'
  <2>1. Probe!WebEnds(g, "failed", Probe!NoPlan) /\ UNCHANGED ftp
    BY <1>4 DEF Probe!WebFails
  <2> QED
    BY <1>2, <1>3, <2>1
<1>5. ASSUME NEW g \in 1..3, Probe!Again(g)
      PROVE  ConsentInv'
  <2>1. CASE Probe!WebFails(g)
    BY <1>4, <2>1
  <2>2. CASE ~Probe!WebFails(g)
    <3> DEFINE r == [web[g] EXCEPT !.at = "login", !.changed = FALSE, !.tries = web[g].tries + 1]
    <3>1. IsAssist(r) /\ r.at # "enable" /\ r.provision = web[g].provision
      BY DEF IsAssist, ConsentInv, Shape
    <3>2. web' = [web EXCEPT ![g] = [@ EXCEPT !.at = "login", !.changed = FALSE, !.tries = web[g].tries + 1]]
          /\ UNCHANGED <<ftp, gen>>
      BY <1>5, <2>2 DEF Probe!Again
    <3>3. web' = [web EXCEPT ![g] = r] /\ UNCHANGED ftp
      BY <3>2 DEF ConsentInv, Shape
    <3> HIDE DEF r
    <3> QED
      BY <1>0, <1>3, <3>1, <3>3, Steps
  <2> QED
    BY <2>1, <2>2
<1>6. ASSUME NEW g \in 1..3, NEW p, Probe!Advance(g, p), p = "enable" => web[g].provision
      PROVE  ConsentInv'
  BY <1>1, <1>3, <1>6 DEF Probe!Advance
<1>7. ASSUME NEW g \in 1..3, Probe!Login(g) PROVE ConsentInv'
  BY <1>5, <1>6, <1>7 DEF Probe!Login
<1>8. ASSUME NEW g \in 1..3, Probe!Model(g) PROVE ConsentInv'
  <2>1. CASE Probe!Advance(g, IF web[g].provision THEN "enable" ELSE "creds")
    <3>1. (IF web[g].provision THEN "enable" ELSE "creds") = "enable" => web[g].provision
      OBVIOUS
    <3> QED
      BY <1>6, <2>1, <3>1
  <2> QED
    BY <1>4, <1>5, <1>8, <2>1 DEF Probe!Model
<1>9. ASSUME NEW g \in 1..3, Probe!EnableFTP(g) PROVE ConsentInv'
  <2>1. web[g].at = "enable" => consent
    BY DEF ConsentInv, AskedToChange, AllowedByConsent
  <2>2. web[g].at = "enable"
    BY <1>9 DEF Probe!EnableFTP
  <2>3. ASSUME NEW answered \in BOOLEAN,
               IF answered THEN Probe!WebGoto(g, "ready") ELSE Probe!WebEnds(g, "failed", Probe!NoPlan)
        PROVE  ConsentInv'
    BY <1>1, <1>2, <2>1, <2>2, <2>3
  <2> QED
    BY <1>4, <1>6, <1>9, <2>3 DEF Probe!EnableFTP
<1>10. ASSUME NEW g \in 1..3, Probe!FTPReady(g) PROVE ConsentInv'
  <2>1. CASE Probe!WebFails(g)
    BY <1>4, <2>1
  <2>2. CASE ~Probe!WebFails(g)
    <3> DEFINE r == [web[g] EXCEPT !.at = "creds", !.changed = TRUE]
    <3>1. IsAssist(r) /\ r.at # "enable" /\ r.provision = web[g].provision
      BY DEF IsAssist, ConsentInv, Shape
    <3>2. web' = [web EXCEPT ![g] = r] /\ UNCHANGED ftp
      BY <1>10, <2>2 DEF Probe!FTPReady, ConsentInv, Shape
    <3> HIDE DEF r
    <3> QED
      BY <1>0, <1>3, <3>1, <3>2, Steps
  <2> QED
    BY <2>1, <2>2
<1>11. ASSUME NEW g \in 1..3, Probe!Credentials(g) PROVE ConsentInv'
  BY <1>2, <1>3, <1>5, <1>11 DEF Probe!Credentials
<1>12. CASE Probe!Rotate
  BY <1>0, <1>12 DEF Probe!Rotate, ConsentInv, AskedToChange, Shape, AllowedByConsent, ConsentBeforeChange
<1> QED
  BY <1>7, <1>8, <1>9, <1>10, <1>11, <1>12 DEF Probe!WebNext, Probe!Assist, Probe!Rounds

(***************************************************************************)
(* The collector, which calls the assist and takes its answer.             *)
(***************************************************************************)
LEMMA OnlyTheThird == Probe!Provision(1) = FALSE /\ Probe!Provision(2) = FALSE /\ Probe!Provision(3) = TRUE
BY DEF Probe!Provision

\* A call without the right to change anything.
LEMMA PlainCallKeeps ==
  ASSUME ConsentInv, NEW g \in 1..3, Probe!WebCall(g, FALSE), UNCHANGED consent
  PROVE  ConsentInv'
<1>1. consent' \in BOOLEAN
  BY DEF ConsentInv, Shape
<1> QED
  BY <1>1, CallKeeps

LEMMA AttemptFailsKeeps ==
  ASSUME ConsentInv, Probe!AttemptFails
  PROVE  ConsentInv'
<1>1. \/ Probe!WebCall(2, Probe!Provision(2)) /\ UNCHANGED consent
      \/ UNCHANGED Probe!webVars
  BY DEF Probe!AttemptFails, Probe!RoundFails, Probe!webVars
<1>2. Probe!WebCall(2, Probe!Provision(2)) => Probe!WebCall(2, FALSE)
  BY OnlyTheThird DEF Probe!WebCall
<1>3. 2 \in 1..3
  OBVIOUS
<1>4. Probe!WebCall(2, FALSE) /\ UNCHANGED consent => ConsentInv'
  BY <1>3, PlainCallKeeps, Zenon
<1> QED
  BY <1>1, <1>2, <1>4, IdleKeeps

LEMMA AttemptKeeps ==
  ASSUME ConsentInv, Probe!Attempt
  PROVE  ConsentInv'
<1>1. Probe!AuthSkip \/ Probe!AuthPrompt \/ Probe!AuthAwait \/ Probe!AuthName
        => Probe!AttemptFails \/ UNCHANGED Probe!webVars
  BY DEF Probe!AuthSkip, Probe!AuthPrompt, Probe!AuthAwait, Probe!AuthName, Probe!AttemptGoes
<1>2. Probe!AuthPassword \/ Probe!AuthShell \/ Probe!AuthLeave \/ Probe!AuthLeft
        => Probe!AttemptFails \/ UNCHANGED Probe!webVars
  BY DEF Probe!AuthPassword, Probe!AuthShell, Probe!AuthLeave, Probe!AuthLeft, Probe!AttemptGoes
<1>3. Probe!AuthId => Probe!AttemptFails \/ UNCHANGED Probe!webVars
  <2>1. CASE Probe!UidZero
    BY <2>1 DEF Probe!AuthId
  <2>2. CASE ~Probe!UidZero /\ Probe!Op = "root"
    BY <2>2 DEF Probe!AuthId
  <2>3. CASE ~Probe!UidZero /\ Probe!Op = "user"
    BY <2>3 DEF Probe!AuthId
  <2>4. CASE ~Probe!UidZero /\ Probe!Op \in {"manual root", "manual"}
    BY <2>4 DEF Probe!AuthId
  <2>5. CASE ~Probe!UidZero /\ Probe!Op \notin {"root", "user", "manual root", "manual"}
    BY <2>5 DEF Probe!AuthId
  <2> QED
    BY <2>1, <2>2, <2>3, <2>4, <2>5
<1> QED
  BY <1>1, <1>2, <1>3, AttemptFailsKeeps, IdleKeeps DEF Probe!Attempt

LEMMA LoginKeeps ==
  ASSUME ConsentInv, Probe!Login1
  PROVE  ConsentInv'
<1>1. CASE Probe!AskStock
  <2>1. Probe!WebCall(1, Probe!Provision(1)) /\ UNCHANGED consent
    BY <1>1 DEF Probe!AskStock
  <2>2. Probe!WebCall(1, FALSE)
    BY <2>1, OnlyTheThird DEF Probe!WebCall
  <2> QED
    BY <2>1, <2>2, PlainCallKeeps
<1>2. CASE Probe!AssistAnswers
  <2>1. Probe!WebTaken(au.round)
    BY <1>2 DEF Probe!AssistAnswers
  <2> QED
    BY <2>1, TakenKeeps
<1>3. CASE Probe!Consent
  <2>1. CASE Probe!WebCall(3, Probe!Provision(3)) /\ consent' = TRUE
    <3>1. Probe!WebCall(3, TRUE)
      BY <2>1, OnlyTheThird DEF Probe!WebCall
    <3>2. 3 \in 1..3
      OBVIOUS
    <3> QED
      BY <2>1, <3>1, <3>2, CallKeeps, Zenon
  <2> QED
    BY <1>3, <2>1, IdleKeeps DEF Probe!Consent
<1>4. Probe!AssistReads \/ Probe!Manual \/ Probe!Blocked => UNCHANGED Probe!webVars
  BY DEF Probe!AssistReads, Probe!Manual, Probe!Blocked
<1> QED
  BY <1>1, <1>2, <1>3, <1>4, IdleKeeps DEF Probe!Login1

\* Everything else has nothing to do with the assist.
LEMMA OthersKeep ==
  ASSUME ConsentInv,
         \/ Probe!Begin \/ Probe!AllDone \/ Probe!ReadLine \/ Probe!Step \/ Probe!Shake
         \/ Probe!TryPrompt \/ Probe!InterruptRound \/ Probe!InterruptMissed
         \/ Probe!Version \/ Probe!CollectUBoot \/ Probe!Uname \/ Probe!Report \/ Probe!Deadline
         \/ Probe!InterruptOver \/ Probe!Device
  PROVE  ConsentInv'
<1>1. Probe!Step => UNCHANGED Probe!webVars
  BY DEF Probe!Step, Probe!StepHandshake, Probe!StepInterrupt, Probe!StepEnter, Probe!StepLogin,
     Probe!StepIdle, Probe!StepNothing
<1>2. Probe!Begin \/ Probe!AllDone \/ Probe!ReadLine \/ Probe!Shake \/ Probe!TryPrompt
        => UNCHANGED Probe!webVars
  BY DEF Probe!Begin, Probe!AllDone, Probe!ReadLine, Probe!Shake, Probe!TryPrompt
<1>3. Probe!InterruptRound \/ Probe!InterruptMissed \/ Probe!Version \/ Probe!CollectUBoot \/ Probe!Uname
        => UNCHANGED Probe!webVars
  BY DEF Probe!InterruptRound, Probe!InterruptMissed, Probe!Version, Probe!CollectUBoot, Probe!Uname
<1>4. Probe!Report \/ Probe!Deadline \/ Probe!InterruptOver => UNCHANGED Probe!webVars
  BY DEF Probe!Report, Probe!Deadline, Probe!InterruptOver
<1>5. Probe!Device => UNCHANGED Probe!webVars
  BY DEF Probe!Device, Probe!PowerOn, Probe!PowerCut, Probe!Autoboot, Probe!DevMoves
<1> QED
  BY <1>1, <1>2, <1>3, <1>4, <1>5, IdleKeeps

\* No stock setting is changed without the operator's consent, however often the assist starts
\* again, whichever answers are lost, and however many of its calls the collector has given up.
THEOREM ChangesAreAgreed == Probe!Spec => []ConsentBeforeChange
<1>1. Probe!Init => ConsentInv
  <2> SUFFICES ASSUME Probe!Init PROVE ConsentInv
    OBVIOUS
  <2>1. /\ web = [g \in 1..3 |-> Probe!IdleWeb]
        /\ ftp = [on |-> FALSE, byUs |-> FALSE] /\ consent = FALSE
    BY DEF Probe!Init, Probe!WebInit, Probe!Rounds
  <2> QED
    BY <2>1, IdleAssist DEF ConsentInv, AskedToChange, Shape, AllowedByConsent, ConsentBeforeChange
<1>2. ConsentInv /\ [Probe!Next]_(Probe!vars) => ConsentInv'
  <2> SUFFICES ASSUME ConsentInv, [Probe!Next]_(Probe!vars) PROVE ConsentInv'
    OBVIOUS
  <2>1. CASE Probe!Attempt
    BY <2>1, AttemptKeeps
  <2>2. CASE Probe!Login1
    BY <2>2, LoginKeeps
  <2>3. CASE Probe!WebSteps
    BY <2>3, AssistKeeps DEF Probe!WebSteps
  <2>4. CASE UNCHANGED Probe!vars
    BY <2>4, IdleKeeps DEF Probe!vars
  <2>5. CASE Probe!AssistAbandoned
    <3>1. Probe!WebLeft(au.round)
      BY <2>5 DEF Probe!AssistAbandoned
    <3> QED
      BY <3>1, LeftKeeps
  <2> QED
    BY <2>1, <2>2, <2>3, <2>4, <2>5, OthersKeep DEF Probe!Next, Probe!Collector
<1>3. ConsentInv => ConsentBeforeChange
  BY DEF ConsentInv
<1> QED
  BY <1>1, <1>2, <1>3, PTL DEF Probe!Spec
================================================================================
