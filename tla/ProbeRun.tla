------------------------------- MODULE ProbeRun --------------------------------
(***************************************************************************)
(* One probe of an unknown device: the collector's loop reads the line,    *)
(* reacts to what it recognised, and talks to a bootloader or a shell only *)
(* when the device has shown which one it is.  The device runs on its own: *)
(* it boots, erases flash when its environment says so, is switched off    *)
(* and on, and prints what the collector reads later.                      *)
(***************************************************************************)
EXTENDS StockAccess, Sequences

CONSTANT MaxCuts  \* bound: how often the device is switched off

ASSUME ProbeAssumption == MaxCuts \in Nat

VARIABLES
  pc, req,       \* the collector's place; what was asked for
  dev, wire,     \* the device; what it has printed and nobody has read
  seen, fresh,   \* markers seen in this session; those not handled yet
  line,          \* ClassifyPrompt of the last line
  c, out,        \* the collector's flags; Outcome
  au,            \* the login in progress
  flash,         \* what the partition begins with, and what the stored sample says
  cut            \* history: whether a key cut an erase short, one the host knew of or not

vars == <<webVars, pc, req, dev, wire, seen, fresh, line, c, out, au, flash, cut>>
probeVars == <<req, c, out, au, flash>>

-----------------------------------------------------------------------------
(* What is asked for: the items of the Porting menu.                       *)
Item(layers, only) == [layers |-> layers, only |-> only, first |-> FALSE, handshake |-> FALSE,
                       attach |-> FALSE, wake |-> FALSE]
Menu ==
  { Item({"BootROM", "UBoot", "Linux", "Env"}, "any"),
    Item({"UBoot"}, "uboot"), Item({"Linux"}, "linux"),
    [Item({"Env"}, "any") EXCEPT !.first = TRUE],
    [Item({"BootROM"}, "neither") EXCEPT !.handshake = TRUE],
    [Item({"UBoot", "Env"}, "uboot") EXCEPT !.attach = TRUE] }

WantUB == req.layers \cap {"UBoot", "Env"} # {} /\ req.only \notin {"linux", "neither"}
WantLX == req.layers \cap {"Linux", "Env"} # {} /\ req.only \notin {"uboot", "neither"}
WantBR == "BootROM" \in req.layers /\ req.handshake

Done ==
  LET br == WantBR => c.br IN
  IF req.first /\ (c.ub \/ c.lx) THEN br
  ELSE br /\ (WantUB => c.ub) /\ (WantLX => c.lx)

UBootEvidence == "uboot" \in seen /\ "tcboot" \notin seen
LinuxEvidence == "linux" \in seen

-----------------------------------------------------------------------------
(* The device.                                                             *)
Prompt(d) ==
  CASE d.at = "countdown" -> "countdown"
    [] d.at = "ubprompt" -> IF d.kind = "tcboot" THEN "other" ELSE "uboot"
    [] d.at = "login" -> "login"
    [] d.at \in {"named", "suing"} -> "password"
    [] d.at = "shell" -> "shell"
    [] OTHER -> "none"

Off == [kind |-> "uboot", at |-> "off", uid |-> 1, who |-> "none", cuts |-> 0]

Banner(kind) ==
  CASE kind = "uboot" -> {"uboot"} [] kind = "tcboot" -> {"uboot", "tcboot"} [] OTHER -> {"text"}

DevMoves(at, printed) ==
  /\ dev' = [dev EXCEPT !.at = at] /\ wire' = wire \cup printed
  /\ UNCHANGED <<webVars, pc, probeVars, seen, fresh, line, cut>>

PowerOn == dev.at = "off" /\ (DevMoves("countdown", Banner(dev.kind)) \/ DevMoves("bootrom", {"press_x"}))
\* Bound: only when the collector has asked for it, or while it first waits for the web server.
PowerCut ==
  /\ (pc = "read" /\ (c.ub \/ c.br)) \/ (pc = "assist" /\ WebDone(1) /\ au.round = 1 /\ req.only = "linux" /\ ~req.wake)
  /\ dev.at # "off" /\ dev.cuts < MaxCuts
  /\ dev' = [dev EXCEPT !.at = "off", !.cuts = @ + 1]
  /\ UNCHANGED <<webVars, pc, probeVars, wire, seen, fresh, line, cut>>
Autoboot ==
  \/ dev.at = "countdown" /\ (DevMoves("kernel", {"linux"}) \/ DevMoves("erasing", {"destructive"}))
  \/ dev.at = "erasing" /\ DevMoves("kernel", {"linux"})
  \/ dev.at = "kernel" /\ (DevMoves("activate", {"activate"}) \/ DevMoves("login", {"login"}))

Device == pc \notin {"begin", "reported"} /\ (PowerOn \/ PowerCut \/ Autoboot)

\* What a key that is not part of a login does; on an erase it is Ctrl-C to the loader.
KeyTo(at) ==
  CASE at \in {"countdown", "erasing", "ubprompt"} -> "ubprompt"
    [] at = "activate" -> "shell"
    [] at \in {"named", "suing"} -> "login"
    [] OTHER -> at
Key(d) == [d EXCEPT !.at = KeyTo(@), !.uid = IF d.at = "activate" THEN 0 ELSE @]
Echo(d) == IF d.at \in {"off", "kernel", "bootrom", "receiver"} THEN {} ELSE IF d.at = "login" THEN {"login"} ELSE {"text"}
CutBy == cut' = IF dev.at # "erasing" THEN cut ELSE IF "destructive" \in seen THEN "aware" ELSE "unaware"
Send == dev' = Key(dev) /\ wire' = wire \cup Echo(Key(dev)) /\ CutBy
Quiet == UNCHANGED <<dev, wire, cut>>

\* Session.Read and Drain: log, echo, scan.  Only the markers this run asks for are kept.
Wanted == {"uboot", "tcboot", "destructive", "linux"} \cup (IF WantBR THEN {"press_x", "xmodem_c"} ELSE {})
Handled == (IF WantBR THEN {"press_x"} ELSE {}) \cup (IF WantLX /\ ~c.lx THEN {"activate", "login"} ELSE {})
Hears(w) ==
  /\ seen' = seen \cup (w \cap Wanted) /\ fresh' = (fresh \cup w) \cap Handled
Receive ==
  /\ Hears(wire) /\ wire' = {}
  /\ line' = IF wire = {} THEN line ELSE Prompt(dev)
  /\ UNCHANGED <<dev, cut>>

-----------------------------------------------------------------------------
NoLogin == [todo |-> <<>>, step |-> "prompt", round |-> 0, shell |-> FALSE, plan |-> NoPlan]

Init ==
  /\ WebInit
  /\ pc = "begin" /\ req = Item({}, "any") /\ dev = Off /\ wire = {}
  /\ seen = {} /\ fresh = {} /\ line = "none"
  /\ c = [ub |-> FALSE, lx |-> FALSE, br |-> FALSE, noInt |-> FALSE, kicked |-> FALSE, lxKicked |-> FALSE]
  /\ out = [uboot |-> FALSE, linux |-> FALSE, uid0 |-> FALSE, provisioned |-> FALSE, attached |-> FALSE]
  /\ au = NoLogin
  /\ flash = [begins |-> "raw", sample |-> "none"]
  /\ cut = "no"

\* The device is off, booting, or sits somewhere already.  Its loader and the partition
\* differ only where the run asks for them.
Begin ==
  /\ pc = "begin" /\ pc' = "read"
  /\ \E m \in Menu, w \in BOOLEAN : req' = [m EXCEPT !.wake = w]
  /\ \E k \in {"uboot", "tcboot", "strange"}, p \in {"off", "countdown", "ubprompt", "login"} :
       /\ k # "uboot" => req'.only \notin {"linux", "neither"}
       /\ dev' = [dev EXCEPT !.kind = k, !.at = p]
       /\ wire' = IF p = "countdown" THEN Banner(k) ELSE {}
  /\ \E b \in {"raw", "ubi"} : (b = "ubi" => req'.attach) /\ flash' = [flash EXCEPT !.begins = b]
  /\ UNCHANGED <<webVars, seen, fresh, line, c, out, au, cut>>

\* run: the loop's head.  The line may also be lost, which ends the run like the deadline.
Deadline == pc = "read" /\ ~Done /\ pc' = "end" /\ Quiet /\ UNCHANGED <<webVars, probeVars, seen, fresh, line>>
AllDone == pc = "read" /\ Done /\ pc' = "end" /\ Quiet /\ UNCHANGED <<webVars, probeVars, seen, fresh, line>>
ReadLine ==
  /\ pc = "read" /\ ~Done /\ Receive
  /\ pc' = IF wire = {} THEN "idle" ELSE "step"
  /\ c' = [c EXCEPT !.kicked = @ /\ wire = {}]
  /\ UNCHANGED <<webVars, req, out, au, flash>>

-----------------------------------------------------------------------------
(* step: what the collector does about what it has read; the first match.  *)
Stepping == pc \in {"step", "idle"}
\* What step notes before it decides.
Noted == [c EXCEPT !.br = @ \/ (WantBR /\ "xmodem_c" \in seen /\ "press_x" \notin seen),
                   !.noInt = @ \/ "destructive" \in seen]

AnswersPressX == WantBR /\ ~c.br /\ "press_x" \in fresh
Interrupts == WantUB /\ ~c.ub /\ ~Noted.noInt /\ "linux" \notin seen /\ UBootEvidence
Activates == "activate" \in fresh /\ WantLX /\ ~c.lx
LogsIn == line = "login" /\ "login" \in fresh /\ WantLX /\ ~c.lx /\ (LinuxEvidence \/ req.wake)
KicksLinux == WantLX /\ ~c.lx /\ ~c.lxKicked /\ "linux" \in seen
Kicks == ~c.kicked /\ line # "countdown"

StepHandshake ==
  /\ Stepping /\ AnswersPressX
  /\ fresh' = fresh \ {"press_x"} /\ pc' = "shake"
  /\ dev' = IF dev.at = "bootrom" THEN [dev EXCEPT !.at = "receiver"] ELSE Key(dev)
  /\ wire' = wire \cup (IF dev.at = "bootrom" THEN {"xmodem_c"} ELSE Echo(Key(dev)))
  /\ CutBy /\ UNCHANGED <<webVars, probeVars, seen, line>>

\* bootromHandshake waits for 'C', or as long as HandshakeWait.
Shake ==
  /\ pc = "shake" /\ Receive /\ pc' = "read"
  /\ c' = [c EXCEPT !.br = TRUE, !.noInt = @ /\ "xmodem_c" \notin wire]
  /\ UNCHANGED <<webVars, req, out, au, flash>>

StepInterrupt ==
  /\ Stepping /\ ~AnswersPressX /\ Interrupts
  /\ pc' = "int" /\ c' = Noted
  /\ Quiet /\ UNCHANGED <<webVars, req, out, au, flash, seen, fresh, line>>

StepEnter ==
  /\ Stepping /\ ~AnswersPressX /\ ~Interrupts
  /\ \/ Activates /\ fresh' = fresh \ {"activate"} /\ c' = Noted
     \/ ~Activates /\ ~LogsIn /\ pc = "idle" /\ KicksLinux /\ c' = [Noted EXCEPT !.lxKicked = TRUE] /\ UNCHANGED fresh
  /\ Send /\ pc' = "prompt"
  /\ UNCHANGED <<webVars, req, out, au, flash, seen, line>>

StepLogin ==
  /\ Stepping /\ ~AnswersPressX /\ ~Interrupts /\ ~Activates /\ LogsIn
  /\ fresh' = fresh \ {"login"} /\ c' = Noted /\ pc' = "login"
  /\ Quiet /\ UNCHANGED <<webVars, req, out, au, flash, seen, line>>

\* The line has been quiet: passively look at it, or send the one Ctrl-C that was allowed.
StepIdle ==
  /\ pc = "idle" /\ ~AnswersPressX /\ ~Interrupts /\ ~Activates /\ ~LogsIn /\ ~KicksLinux /\ Kicks
  /\ c' = [Noted EXCEPT !.kicked = TRUE]
  /\ \/ req.wake /\ Send /\ pc' = "prompt"
     \/ ~req.wake /\ Quiet /\ pc' = "prompt"
  /\ UNCHANGED <<webVars, req, out, au, flash, seen, fresh, line>>

\* Nothing to react to, or not quiet for long enough yet.
StepNothing ==
  /\ Stepping /\ ~AnswersPressX /\ ~Interrupts /\ ~Activates /\ ~LogsIn
  /\ pc' = "read" /\ c' = Noted
  /\ Quiet /\ UNCHANGED <<webVars, req, out, au, flash, seen, fresh, line>>

\* tryPrompt, after what a key brought was read.  A prompt identifies U-Boot alone
\* only with --wake; one that belongs to nobody known gets nothing.
TryPrompt ==
  LET now == IF wire = {} THEN line ELSE Prompt(dev)
      ub == now = "uboot" /\ WantUB /\ ~c.ub /\ (UBootEvidence \/ (req.wake /\ dev.kind = "uboot"))
      lx == WantLX /\ ~c.lx /\ (LinuxEvidence \/ req.wake)
  IN
  /\ pc = "prompt" /\ Hears(wire) /\ line' = now
  /\ pc' = CASE ub -> "version" [] now = "shell" /\ lx -> "uname" [] now = "login" /\ lx -> "login" [] OTHER -> "read"
  /\ IF now = "password" /\ lx
       THEN dev' = Key(dev) /\ wire' = Echo(Key(dev)) /\ CutBy
       ELSE wire' = {} /\ UNCHANGED <<dev, cut>>
  /\ UNCHANGED <<webVars, probeVars>>

-----------------------------------------------------------------------------
(* U-Boot: interrupting the autoboot, and what is collected at the prompt. *)

\* One round of interruptAutoboot: the keys, then what they bring.
InterruptRound ==
  LET d == Key(dev) w == wire \cup Echo(d) IN
  /\ pc = "int" /\ dev' = d /\ CutBy
  /\ Hears(w) /\ wire' = {} /\ line' = Prompt(d)
  /\ IF "linux" \in seen \cup w THEN pc' = "read" /\ c' = [c EXCEPT !.noInt = TRUE]
     ELSE pc' = (IF Prompt(d) = "uboot" THEN "version" ELSE "int") /\ UNCHANGED c
  /\ UNCHANGED <<webVars, req, out, au, flash>>
\* The loader does not take these keys.
InterruptMissed ==
  /\ pc = "int" /\ dev.at \in {"countdown", "erasing"} /\ Hears(wire) /\ wire' = {} /\ line' = Prompt(dev)
  /\ CutBy /\ UNCHANGED <<webVars, pc, dev, probeVars>>
InterruptOver ==
  /\ pc = "int" /\ pc' = "read" /\ c' = [c EXCEPT !.noInt = TRUE]
  /\ Quiet /\ UNCHANGED <<webVars, req, out, au, flash, seen, fresh, line>>

\* enterUBoot: the prompt must answer `version`.
Version ==
  /\ pc = "version"
  /\ IF dev.at = "ubprompt" /\ dev.kind = "uboot"
       THEN out' = [out EXCEPT !.uboot = TRUE] /\ pc' = "collect" /\ UNCHANGED c
       ELSE c' = [c EXCEPT !.noInt = TRUE] /\ pc' = "read" /\ UNCHANGED out
  /\ Quiet /\ UNCHANGED <<webVars, req, au, flash, seen, fresh, line>>

\* sampleUBootMTD: a partition that has a sample in this session's directory is not
\* read again.
Sample == IF flash.sample = "none" /\ dev.at = "ubprompt" THEN flash.begins ELSE flash.sample
\* ubootUBI: no attach without a sample that begins with a UBI header.
Attaches == req.attach /\ Sample = "ubi"

\* collectUBoot, and what enterUBoot does after it.
CollectUBoot ==
  /\ pc = "collect" /\ pc' = "read"
  /\ flash' = [flash EXCEPT !.sample = IF "Env" \in req.layers THEN Sample ELSE @]
  /\ out' = [out EXCEPT !.attached = @ \/ Attaches]
  /\ c' = [c EXCEPT !.ub = TRUE, !.noInt = @ \/ (WantLX /\ ~c.lx), !.kicked = @ \/ (WantLX /\ ~c.lx)]
  /\ Quiet /\ UNCHANGED <<webVars, req, au, seen, fresh, line>>

-----------------------------------------------------------------------------
(* Linux: the login with the credentials of the stock web server, and the  *)
(* commands of the shell.                                                  *)
PlanSteps == <<"root", "user", "su">>
StepsAfter(shell) == IF shell THEN <<"su again", "leave">> \o PlanSteps ELSE PlanSteps

\* The rounds: the first credentials, read again, after the operator's consent, an
\* account of the operator's own.
\* Mutant: the second reading may switch the service on.
ProvisionAgain(round) == round \in {2, 3}
Provision(round) == round = 3

\* login, automaticStockLogin: no account was given, so the assist is asked.
AskStock ==
  /\ pc = "login" /\ WebCall(1, Provision(1)) /\ UNCHANGED consent /\ pc' = "assist"
  /\ au' = [au EXCEPT !.round = 1, !.shell = FALSE, !.todo = <<>>, !.plan = NoPlan]
  /\ Quiet /\ UNCHANGED <<req, c, out, flash, seen, fresh, line>>

\* runLinuxAssist and waitWithUART go on reading the line.
AssistReads == pc = "assist" /\ wire # {} /\ Receive /\ UNCHANGED <<webVars, pc, probeVars>>

WithoutRoot(shell) == IF shell THEN "uname" ELSE "manual"

\* No credentials from this call: the login goes on with what there is.
AssistFails(round, shell) ==
  pc' = CASE round = 1 -> "manual"
          [] round = 2 -> (IF au.plan.ftp THEN WithoutRoot(shell) ELSE "consent")
          [] OTHER -> WithoutRoot(shell)

\* The line fails meanwhile: the collector takes that for the call's error, the goroutine goes on.
AssistAbandoned ==
  /\ pc = "assist" /\ ~WebDone(au.round) /\ WebLeft(au.round) /\ AssistFails(au.round, au.shell)
  /\ Quiet /\ UNCHANGED <<probeVars, seen, fresh, line>>

AssistAnswers ==
  LET plan == web[au.round].plan IN
  /\ pc = "assist" /\ WebDone(au.round) /\ WebTaken(au.round)
  /\ IF plan.ok
       THEN /\ au' = [au EXCEPT !.plan = plan, !.todo = StepsAfter(au.shell), !.step = "prompt"]
            /\ pc' = "auth"
            /\ out' = [out EXCEPT !.provisioned = IF au.round = 3 THEN plan.changed ELSE @]
       ELSE AssistFails(au.round, au.shell) /\ UNCHANGED <<au, out>>
  /\ Quiet /\ UNCHANGED <<req, c, flash, seen, fresh, line>>

\* No UID 0 with this plan: wait and read the credentials once more, unless the line fails
\* in the wait, then ask whether the FTP service may be switched on, then go on with what
\* there is.
RoundFails(shell) ==
  IF au.round = 1
    THEN /\ au' = [au EXCEPT !.round = 2, !.shell = shell]
         /\ \/ WebCall(2, Provision(2)) /\ UNCHANGED consent /\ pc' = "assist"
            \/ AssistFails(2, shell) /\ UNCHANGED webVars
    ELSE /\ UNCHANGED webVars /\ au' = [au EXCEPT !.shell = shell]
         /\ IF au.round = 4 THEN pc' = (IF shell THEN "uname" ELSE "blocked")
            ELSE AssistFails(au.round, shell)

Consent ==
  /\ pc = "consent"
  /\ \/ WebCall(3, Provision(3)) /\ consent' = TRUE /\ pc' = "assist" /\ au' = [au EXCEPT !.round = 3]
     \/ pc' = WithoutRoot(au.shell) /\ UNCHANGED <<webVars, au>>
  /\ Quiet /\ UNCHANGED <<req, c, out, flash, seen, fresh, line>>

-----------------------------------------------------------------------------
(* One attempt: tryUARTLogin, tryUARTSU, leaveLinuxShell.                  *)
Op == Head(au.todo)
Account == CASE Op \in {"root", "su", "su again"} -> "root" [] OTHER -> Op
AttemptFails ==
  LET rest == CASE Op = "user" -> <<>> [] OTHER -> Tail(au.todo)
  IN IF rest # <<>> THEN au' = [au EXCEPT !.todo = rest, !.step = "prompt"] /\ pc' = "auth" /\ UNCHANGED webVars
     ELSE RoundFails(Op = "su")
AttemptGoes(step) == au' = [au EXCEPT !.step = step] /\ UNCHANGED <<webVars, pc>>

Skips == Op \in {"root", "su", "su again"} /\ ~au.plan.root
AuthSkip ==
  /\ pc = "auth" /\ au.step = "prompt" /\ Skips /\ AttemptFails
  /\ Quiet /\ UNCHANGED <<req, c, out, flash, seen, fresh, line>>

\* ensureLoginPrompt: the last line may be a login prompt already.
AuthPrompt ==
  /\ pc = "auth" /\ au.step = "prompt" /\ Op \notin {"su", "su again", "leave"} /\ ~Skips
  /\ IF line = "login" THEN Quiet /\ AttemptGoes("name") ELSE Send /\ AttemptGoes("await")
  /\ UNCHANGED <<req, c, out, flash, seen, fresh, line>>

\* waitAuthPrompt: a login, password or shell prompt among what arrives, or none in time.
Awaited == IF wire # {} /\ Prompt(dev) \in {"login", "password", "shell"} THEN Prompt(dev) ELSE "none"

AuthAwait ==
  /\ pc = "auth" /\ au.step = "await" /\ Receive
  /\ IF Awaited = "login" THEN AttemptGoes("name") ELSE AttemptFails
  /\ UNCHANGED <<req, c, out, flash>>

\* The account's name, or `su` with it.  Elsewhere the letters are keys like others.
AuthName ==
  /\ pc = "auth" /\ (au.step = "name" \/ (au.step = "prompt" /\ Op \in {"su", "su again"} /\ ~Skips))
  /\ dev' = CASE dev.at = "login" /\ Op \notin {"su", "su again"} -> [dev EXCEPT !.at = "named", !.who = Account]
              [] dev.at = "shell" /\ Op \in {"su", "su again"} -> [dev EXCEPT !.at = "suing", !.who = Account]
              [] OTHER -> Key(dev)
  /\ wire' = wire \cup Echo(dev') /\ CutBy /\ AttemptGoes("named")
  /\ UNCHANGED <<req, c, out, flash, seen, fresh, line>>

\* What the device makes of the password: service passwords are those of the plan's
\* time; the operator's own may be right or wrong.  A failed `su` is back in its shell.
Accepts == IF dev.who \in {"root", "user"} THEN {au.plan.gen = gen} ELSE BOOLEAN
AfterPassword(yes) ==
  IF yes THEN [dev EXCEPT !.at = "shell", !.uid = IF dev.who \in {"root", "manual root"} THEN 0 ELSE 1]
  ELSE [dev EXCEPT !.at = IF dev.at = "suing" THEN "shell" ELSE "login"]

AuthPassword ==
  /\ pc = "auth" /\ au.step = "named" /\ Awaited = "password"
  /\ Hears(wire) /\ line' = "password"
  /\ \E yes \in Accepts : dev' = AfterPassword(yes)
  /\ wire' = Echo(dev') /\ AttemptGoes("typed")
  /\ UNCHANGED <<req, c, out, flash, cut>>

AuthShell ==
  /\ pc = "auth" /\ au.step \in {"named", "typed"} /\ ~(au.step = "named" /\ Awaited = "password")
  /\ Receive
  /\ IF Awaited = "shell" THEN AttemptGoes("id") ELSE AttemptFails
  /\ UNCHANGED <<req, c, out, flash>>

\* currentUID: the shell's own answer.
IsRoot == dev.at = "shell" /\ dev.uid = 0
UidZero == IsRoot

AuthId ==
  /\ pc = "auth" /\ au.step = "id"
  /\ IF UidZero
       THEN out' = [out EXCEPT !.uid0 = TRUE] /\ pc' = "uname" /\ UNCHANGED <<webVars, au>>
       ELSE UNCHANGED out /\
            CASE Op = "root" -> au' = [au EXCEPT !.todo = <<"leave">> \o Tail(@), !.step = "prompt"] /\ UNCHANGED <<webVars, pc>>
              [] Op = "user" -> au' = [au EXCEPT !.todo = Tail(@), !.step = "prompt"] /\ UNCHANGED <<webVars, pc>>
              [] Op \in {"manual root", "manual"} -> pc' = "uname" /\ UNCHANGED <<webVars, au>>
              [] OTHER -> AttemptFails
  /\ Quiet /\ UNCHANGED <<req, c, flash, seen, fresh, line>>

AuthLeave ==
  /\ pc = "auth" /\ Op = "leave" /\ au.step = "prompt"
  /\ dev' = IF line = "shell" THEN (IF dev.at = "shell" THEN [dev EXCEPT !.at = "login"] ELSE Key(dev)) ELSE dev
  /\ wire' = IF line = "shell" THEN wire \cup Echo(dev') ELSE wire
  /\ (IF line = "shell" THEN CutBy ELSE UNCHANGED cut)
  /\ AttemptGoes("left")
  /\ UNCHANGED <<req, c, out, flash, seen, fresh, line>>
AuthLeft ==
  /\ pc = "auth" /\ au.step = "left" /\ Receive /\ AttemptFails
  /\ UNCHANGED <<req, c, out, flash>>

\* The operator is asked for an account: none, or one that is root or not.
Manual ==
  /\ pc = "manual"
  /\ \/ pc' = "blocked" /\ UNCHANGED au
     \/ \E m \in {"manual", "manual root"} :
          pc' = "auth" /\ au' = [au EXCEPT !.round = 4, !.todo = <<m>>, !.step = "prompt", !.shell = FALSE]
  /\ Quiet /\ UNCHANGED <<webVars, req, c, out, flash, seen, fresh, line>>
Blocked ==
  /\ pc = "blocked" /\ pc' = "read" /\ c' = [c EXCEPT !.lx = TRUE] /\ au' = NoLogin
  /\ Quiet /\ UNCHANGED <<webVars, req, out, flash, seen, fresh, line>>

\* enterLinux: `uname -a` must answer; then files are read.
Uname ==
  /\ pc = "uname" /\ pc' = "read"
  /\ out' = [out EXCEPT !.linux = @ \/ dev.at = "shell"]
  /\ c' = [c EXCEPT !.lx = TRUE] /\ au' = NoLogin
  /\ Quiet /\ UNCHANGED <<webVars, req, flash, seen, fresh, line>>

\* runProbe: the session is closed, analysed and reported with its outcome.
Report ==
  /\ pc = "end" /\ pc' = "reported"
  /\ Quiet /\ UNCHANGED <<webVars, probeVars, seen, fresh, line>>

-----------------------------------------------------------------------------
\* The assists go on, after the report too.  The passwords are looked at only during a login:
\* they change there.
WebSteps == pc # "begin" /\ WebNext /\ (gen' # gen => pc \in {"assist", "consent", "auth"})
            /\ UNCHANGED <<pc, probeVars, dev, wire, seen, fresh, line, cut>>

Step == StepHandshake \/ StepInterrupt \/ StepEnter \/ StepLogin \/ StepIdle \/ StepNothing
Login1 == AskStock \/ AssistReads \/ AssistAnswers \/ Consent \/ Manual \/ Blocked
Attempt == AuthSkip \/ AuthPrompt \/ AuthAwait \/ AuthName \/ AuthPassword \/ AuthShell \/ AuthId \/ AuthLeave \/ AuthLeft
Collector ==
  \/ Begin \/ AllDone \/ ReadLine \/ Step \/ Shake \/ TryPrompt
  \/ InterruptRound \/ InterruptMissed \/ Version \/ CollectUBoot
  \/ Login1 \/ Attempt \/ Uname \/ Report
Next == Collector \/ Deadline \/ InterruptOver \/ AssistAbandoned \/ WebSteps \/ Device

Spec == Init /\ [][Next]_vars
\* The program runs; the loops have deadlines and the requests time-outs; the operator
\* answers.  Nothing is assumed of the device.
FairSpec ==
  /\ Spec /\ WF_vars(Collector) /\ SF_vars(Deadline) /\ WF_vars(InterruptOver)
  /\ WF_vars(pc # "begin" /\ Assist /\ UNCHANGED <<consent, pc, probeVars, dev, wire, seen, fresh, line, cut>>)

-----------------------------------------------------------------------------
\* A setting the probe changed is in the outcome it reports.
EffectsReported == pc = "reported" => (ftp.byUs => out.provisioned)
\* A loader that announced that it erases is left alone.
EraseLeftAlone == cut # "aware"
\* Every probe ends and reports.
ProbeEnds == pc = "read" ~> pc = "reported"
=============================================================================
