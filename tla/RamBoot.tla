-------------------------------- MODULE RamBoot --------------------------------
(***************************************************************************)
(* How every recovery wizard gets a RAM U-Boot: acquireRAMUBoot (main.go)  *)
(* with waitReceiver and waitUBootPrompt, against the boot stages of the   *)
(* device, which the host knows only from the text it happens to hear.     *)
(* The transfer of an image is one step here; XmodemLink has its blocks.   *)
(* The stages, and what is promised of them, are in BootStages.            *)
(***************************************************************************)
EXTENDS BootStages, FiniteSets

CONSTANTS
  Escapes,     \* Esc sent to a boot menu at most
  Breaks,      \* Ctrl-C sent to an autoboot at most
  MaxFaults,   \* bound: texts or keys lost, transfers or commands broken, autoboots not stopped
  MaxResets    \* bound: power cycles while the operation runs

VARIABLES
  pc,        \* "receiver1" | "preloader" | "receiver2" | "fip" | "prompt" | "geometry" | "done"
  preferred, \* the profile of the wizard: "md" | "mf" | "auto"
  phase,     \* what the first receiver was taken for: "none" | "preloader" | "fip"
  tail,      \* the markers in the text kept by the wait at hand
  lastX,     \* the last x of this wait: "never" | "recent" (less than 2 s ago) | "old"
  warm,      \* 1.2 s have passed since the first text of this wait
  sent,      \* keys sent in the prompt wait: Esc and Ctrl-C
  stop,      \* a STOP is pending
  mode,      \* "now" | "blocked": what it may do
  keys,      \* what was typed at it and not read yet: "x" | "break"
  line,      \* what it printed and the host has not read
  faults

host == <<pc, outcome, preferred, profile, phase, tail, cHits, lastX, warm, sent, mode>>
board == <<dev, keys, line, taken>>
vars == <<host, stop, board, device, faults, resets>>

FipMarks == {"fipStage"}                     \* "press x to load bl31", "dram flow done", ...

\* The port is opened before the power-on, or while the preloader makes its offer, or when
\* its receiver runs: what was printed before that is in nobody's buffer.
Init ==
  /\ pc = "receiver1" /\ outcome = "running" /\ preferred \in SoCs \cup {"auto"}
  /\ profile = preferred /\ phase = "none" /\ tail = {} /\ cHits = 0
  /\ lastX = "never" /\ warm = FALSE /\ sent = [esc |-> 0, brk |-> 0]
  /\ stop = FALSE /\ mode = "now"
  /\ device \in [soc : SoCs, nandOk : BOOLEAN, early : {"off", "bl2", "bl2X"}]
  /\ dev = device.early /\ keys = {} /\ taken = <<>>
  /\ line = IF dev = "off" THEN <<>> ELSE Text(dev)
  /\ faults = 0 /\ resets = 0

Fault == faults < MaxFaults /\ faults' = faults + 1
NoFault == UNCHANGED faults

-----------------------------------------------------------------------------
(***************************************************************************)
(* The device.                                                             *)
(***************************************************************************)
Reach(s) == dev' = s /\ line' = line \o Text(s)

\* Text is lost on the line, an item at a time.
LoseText ==
  /\ \E i \in DOMAIN line : line' = RemoveAt(line, i)
  /\ Fault
  /\ UNCHANGED <<host, stop, dev, keys, device, taken, resets>>

\* Held Reset and power: the BootROM offers its recovery.
PowerOn ==
  /\ dev = "off" /\ Reach("rom")
  /\ UNCHANGED <<host, stop, keys, device, taken, faults, resets>>

\* The power is cycled; without Reset the device boots what is in its flash.
PowerCycle ==
  /\ resets < MaxResets /\ pc # "done" /\ dev # "off" /\ resets' = resets + 1
  /\ \E s \in {"rom", "uboot"} : Reach(s)
  /\ keys' = {} /\ taken' = <<>>
  /\ UNCHANGED <<host, stop, device, faults>>

\* An x at the BootROM's or the preloader's offer starts the XMODEM receiver.
StartReceiver ==
  /\ "x" \in keys /\ dev \in {"rom", "bl2"}
  /\ keys' = {} /\ Reach(IF dev = "rom" THEN "romX" ELSE "bl2X")
  /\ UNCHANGED <<host, stop, device, taken, faults, resets>>

\* A receiver goes on printing C.
PrintC ==
  /\ dev \in {"romX", "bl2X"} /\ line = <<>> /\ line' = <<"C", "C", "C">>
  /\ UNCHANGED <<host, stop, dev, keys, device, taken, faults, resets>>

\* A key that means nothing to the stage is dropped, an x before the offer is printed too.
DropKey ==
  /\ \/ "x" \in keys /\ (dev \notin {"rom", "bl2"} \/ line # <<>>)
     \/ "break" \in keys /\ dev \notin {"uboot", "menu", "erasing"}
  /\ keys' = {}
  /\ UNCHANGED <<host, stop, dev, line, device, taken, faults, resets>>

\* U-Boot runs its menu unless a key has stopped it already.
ShowMenu ==
  /\ dev = "uboot" /\ "break" \notin keys /\ line = <<>> /\ Reach("menu")
  /\ UNCHANGED <<host, stop, keys, device, taken, faults, resets>>

Interrupted ==
  /\ dev \in {"uboot", "menu", "erasing"} /\ "break" \in keys
  /\ keys' = {} /\ Reach("prompt")
  /\ UNCHANGED <<host, stop, device, taken, faults, resets>>

\* The countdown runs out although a key is due: not what happens on a good line.
Autoboot ==
  /\ dev \in {"uboot", "menu"} /\ "break" \notin keys /\ Fault
  /\ \E s \in {"erasing", "linux"} : Reach(s)
  /\ UNCHANGED <<host, stop, keys, device, taken, resets>>

Device == PowerOn \/ StartReceiver \/ PrintC \/ DropKey \/ ShowMenu \/ Interrupted

-----------------------------------------------------------------------------
(***************************************************************************)
(* The host.                                                               *)
(***************************************************************************)
End(r) == pc' = "done" /\ outcome' = r

\* A key may be lost on the line.
Type(k) ==
  \/ keys' = {k} /\ NoFault
  \/ keys' = {} /\ Fault

\* A wait begins with what the transfer before it has read, ahead of what comes after it.
Wait(p, unread) ==
  /\ pc' = p /\ line' = unread /\ tail' = {} /\ cHits' = 0 /\ lastX' = "never" /\ warm' = FALSE
  /\ keys' = {} /\ NoFault


Continue(p, trailing, rest) == Wait(p, trailing \o rest)

SocIn(heard) == IF heard \cap SoCs # {} THEN CHOOSE s \in SoCs : s \in heard ELSE "auto"
PhaseIn(heard) == IF heard \cap FipMarks # {} THEN "fip" ELSE "preloader"

\* The UART decides; without it the wizard's profile, and else the operator's word.
Profile(det) ==
  IF det # "auto" THEN profile' = det
  ELSE IF preferred # "auto" THEN profile' = preferred ELSE profile' \in SoCs

FirstProven(heard) ==
  LET det == SocIn(heard) IN
  IF det # "auto" /\ preferred \notin {"auto", det}
  THEN End("failed") /\ UNCHANGED <<profile, phase>>
  ELSE /\ Profile(det) /\ phase' = PhaseIn(heard)
       /\ pc' = IF PhaseIn(heard) = "preloader" THEN "preloader" ELSE "fip"
       /\ UNCHANGED outcome

\* Mutant: a second receiver without a FIP marker is given the preloader again.
SecondAgain(heard) ==
  /\ mode' = "now" /\ pc' = PhaseIn(heard) /\ UNCHANGED outcome

\* The second receiver needs no FIP marker, only no other SoC.
SecondProven(heard) ==
  /\ mode' = "now"
  /\ IF SocIn(heard) \notin {"auto", profile} THEN End("failed")
     ELSE pc' = "fip" /\ UNCHANGED outcome

\* A read takes what has arrived, all or some of it; before its letters C are
\* counted, an x is sent if the text, or any text for 1.2 s, called for it.
Read(n) == line' = SubSeq(line, n + 1, Len(line))
Heard(n) == tail \cup {line[i] : i \in 1..n}

SendX(heard) ==
  IF ("press" \in heard \/ warm) /\ lastX # "recent" /\ cHits < 3
  THEN Type("x") /\ lastX' = "recent"
  ELSE UNCHANGED <<keys, lastX>> /\ NoFault

\* What the count of letters C may come to, up to the 3 that prove a receiver: those of the
\* last 3.5 s, the receiver's new ones and any of ordinary text, which are counted as well.
Counts(n) ==
  LET receivers == {i \in 1..n : line[i] = "C"}
      ordinary == IF Cardinality(receivers) = n THEN 0 ELSE 3
  IN {k \in 0..3 : \E kept \in 0..cHits : \E letters \in 0..ordinary :
        LET all == kept + Cardinality(receivers) + letters IN k = IF all > 3 THEN 3 ELSE all}

WaitReceiver ==
  /\ pc \in {"receiver1", "receiver2"}
  /\ \E n \in DOMAIN line :
       /\ Read(n) /\ SendX(Heard(n)) /\ tail' = Heard(n)
       /\ cHits' \in Counts(n)
       /\ IF cHits' < 3 THEN UNCHANGED <<pc, outcome, profile, phase, mode>>
          ELSE IF pc = "receiver1" THEN FirstProven(Heard(n)) /\ UNCHANGED mode
          ELSE SecondProven(Heard(n)) /\ UNCHANGED <<profile, phase>>
  /\ UNCHANGED <<preferred, warm, sent, stop, dev, device, taken, resets>>

\* Two seconds after an x the next one may go; text arrives for more than 1.2 s.
Ticks ==
  /\ pc \in {"receiver1", "receiver2"}
  /\ \/ lastX = "recent" /\ lastX' = "old" /\ UNCHANGED warm
     \/ ~warm /\ tail # {} /\ warm' = TRUE /\ UNCHANGED lastX
  /\ UNCHANGED <<pc, outcome, preferred, profile, phase, tail, cHits, sent, stop, mode, board, device, faults, resets>>

\* Mutant: STOP is honoured after the last block as well.
StopAnyTime ==
  /\ pc \in {"receiver1", "receiver2", "preloader", "fip"} /\ stop /\ End("cancelled")
  /\ UNCHANGED <<preferred, profile, phase, tail, cHits, lastX, warm, sent, stop, mode, board, device, faults, resets>>

\* The waits and the transfers poll STOP unless the phase forbids it; waitUBootPrompt does not.
StopWait ==
  /\ pc \in {"receiver1", "receiver2", "preloader", "fip"} /\ stop /\ mode = "now" /\ End("cancelled")
  /\ UNCHANGED <<preferred, profile, phase, tail, cHits, lastX, warm, sent, stop, mode, board, device, faults, resets>>

-----------------------------------------------------------------------------
(***************************************************************************)
(* The transfer of an image, and what the stage does with it.              *)
(***************************************************************************)
Image == IF pc = "preloader" THEN "preloader" ELSE "fip"
\* All blocks acknowledged; from here the device is not to be disturbed.  Some of
\* what the next stage prints is read while the end of the transfer is waited for.
Delivered ==
  /\ pc \in {"preloader", "fip"} /\ dev \in {"romX", "bl2X"}
  /\ LET next == IF profile = device.soc THEN Next2(dev, Image) ELSE "dead"
         wait == IF pc = "preloader" THEN "receiver2" ELSE "prompt"
     IN \E n \in 0..Len(Text(next)) :
          /\ dev' = next
          /\ Continue(wait, SubSeq(Text(next), 1, n), SubSeq(Text(next), n + 1, Len(Text(next))))
  /\ taken' = Append(taken, <<dev, Image>>)
  /\ mode' = "blocked"
  /\ UNCHANGED <<outcome, preferred, profile, phase, sent, stop, device, resets>>

\* No answer, or the line is too bad: the sender gives up with CAN CAN CAN.
NotDelivered ==
  /\ pc \in {"preloader", "fip"}
  /\ IF dev \in {"romX", "bl2X"} THEN Fault ELSE NoFault
  /\ End("failed")
  /\ UNCHANGED <<preferred, profile, phase, tail, cHits, lastX, warm, sent, stop, mode, board, device, resets>>

\* The packets hold letters x as well: an offer is taken by one of them.
PacketStartsReceiver ==
  /\ pc \in {"preloader", "fip"} /\ dev \in {"rom", "bl2"}
  /\ dev' = (IF dev = "rom" THEN "romX" ELSE "bl2X") /\ line' = <<>>
  /\ UNCHANGED <<host, stop, keys, device, taken, faults, resets>>

-----------------------------------------------------------------------------
(***************************************************************************)
(* waitUBootPrompt and what follows it.                                    *)
(***************************************************************************)
Seen(heard) == heard \cap {"banner", "menu"} # {}

\* Esc for a menu, Ctrl-C for an autoboot, each so many times at most.
InterruptBoot(heard) ==
  LET key == IF "menu" \in heard THEN "esc" ELSE "brk"
      most == IF "menu" \in heard THEN Escapes ELSE Breaks
  IN IF Seen(heard) /\ sent[key] < most
     THEN Type("break") /\ sent' = [sent EXCEPT ![key] = @ + 1]
     ELSE UNCHANGED <<sent, keys, faults>>

Escaped(heard) ==
  \/ heard \cap {"erase", "kernel"} # {}
  \/ "fipStage" \in heard /\ ~Seen(heard)

Judge(heard, last) ==
  IF last = "prompt" THEN pc' = "geometry" /\ mode' = "now" /\ UNCHANGED <<outcome, sent, keys, faults>>
  ELSE /\ InterruptBoot(heard)
       /\ IF Escaped(heard) THEN End("failed") ELSE UNCHANGED <<pc, outcome>>
       /\ UNCHANGED mode

\* At a prompt the input is drained.
WaitPrompt ==
  /\ pc = "prompt"
  /\ \E n \in DOMAIN line :
       /\ IF line[n] = "prompt" THEN line' = <<>> ELSE Read(n)
       /\ tail' = Heard(n) /\ Judge(Heard(n), line[n])
  /\ UNCHANGED <<preferred, profile, phase, cHits, lastX, warm, stop, dev, device, taken, resets>>

\* A key is repeated 250 ms later at the earliest, with the next text: the
\* countdown and the menu go on printing while nobody stops them.
PrintMore ==
  /\ pc = "prompt" /\ dev \in {"uboot", "menu"} /\ line = <<>> /\ keys = {}
  /\ IF dev = "menu" THEN sent.esc < Escapes ELSE sent.brk < Breaks
  /\ line' = Text(dev)
  /\ UNCHANGED <<host, stop, dev, keys, device, taken, faults, resets>>

\* Mutant: the listing of the partitions is only shown.
GeometryShown ==
  /\ pc = "geometry"
  /\ \/ dev = "prompt" /\ End("success") /\ NoFault
     \/ dev # "prompt" /\ End("failed") /\ NoFault
     \/ End("failed") /\ Fault
  /\ UNCHANGED <<preferred, profile, phase, tail, cHits, lastX, warm, sent, stop, mode, board, device, resets>>

\* version and mtd list, before each of which STOP is looked for; another NAND or another
\* layout is refused.
CheckGeometry ==
  /\ pc = "geometry"
  /\ \/ dev = "prompt" /\ device.nandOk /\ End("success") /\ NoFault
     \/ (dev # "prompt" \/ ~device.nandOk) /\ End("failed") /\ NoFault
     \/ End("failed") /\ Fault
     \/ stop /\ mode = "now" /\ End("cancelled") /\ NoFault
  /\ UNCHANGED <<preferred, profile, phase, tail, cHits, lastX, warm, sent, stop, mode, board, device, resets>>

\* The deadline of a wait, 180 s after its start; the operation's error says which wait it was.
Timeout ==
  /\ pc \in {"receiver1", "receiver2", "prompt"}
  /\ End(IF pc = "prompt" THEN "failed" ELSE "timeout")
  /\ UNCHANGED <<preferred, profile, phase, tail, cHits, lastX, warm, sent, stop, mode, board, device, faults, resets>>

PressStop ==
  /\ pc # "done" /\ ~stop /\ stop' = TRUE
  /\ UNCHANGED <<host, board, device, faults, resets>>

Ended == pc = "done" /\ UNCHANGED vars

Host ==
  \/ WaitReceiver \/ Ticks \/ Delivered \/ NotDelivered \/ StopWait
  \/ WaitPrompt \/ CheckGeometry \/ Timeout

Next ==
  \/ Host \/ Device \/ PrintMore \/ PacketStartsReceiver
  \/ LoseText \/ PowerCycle \/ Autoboot \/ PressStop \/ Ended

Spec == Init /\ [][Next]_vars

-----------------------------------------------------------------------------

\* As the operator is told (main.go:1378): with the FIP receiver's C on the screen already,
\* nothing needs to be rebooted.
EarlyReceiverServed ==
  faults = 0 /\ resets = 0 => ~Given("bl2X", "preloader")
================================================================================
