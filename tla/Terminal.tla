------------------------------- MODULE Terminal -------------------------------
(***************************************************************************)
(* The interactive terminal (term_run.go, term_chrome.go, the keys of      *)
(* term.go): one goroutine reads the device and prints, through a pager    *)
(* and between the program's own bars, the other one reads the keyboard,   *)
(* types to the device, keeps the keys that are the terminal's own and     *)
(* runs its menu.  They share the port and the screen (TerminalScreen).    *)
(* Cursor editing, history and the drawing of the input line are left out. *)
(***************************************************************************)
EXTENDS TerminalScreen

CONSTANTS
  MaxOutput,   \* bound: items the device prints
  MaxRead,     \* bound: items of one read of the port
  MaxKeys      \* bound: keys of the operator

ASSUME TerminalAssumption ==
  MaxOutput \in Nat /\ MaxRead \in Nat \ {0} /\ MaxKeys \in Nat

VARIABLES
  port,      \* "open" | "dead" | "closed"
  reader,    \* "reading" | "holding" (a chunk, not printed yet) | "gone"
  rxErr,     \* the reader's error lies in its channel
  pc,        \* the keyboard goroutine: "loop" | "keys" | "raw" | "open" | "held"
             \* | "line" | "lineHeld" | "menu" | "menuKey" | "act" | "transfer" | "stop"
             \* | "close" | "ended"
  after,     \* where it goes on after the menu
  part,      \* keys of the console's read that come before its first F-key
  rest,      \* that F-key and what comes behind it
  choice,    \* the command chosen in the menu or with an F-key
  raw, quit,
  typed      \* how many keys the operator has pressed

device == <<port, wire, printed>>
reading == <<reader, got, rxErr>>
keyboard == <<pc, after, part, rest, choice, raw, quit, typed, warned, warnings, idleSent, taken>>
vars == <<as, device, reading, scr, keyboard>>

\* F2 and F10 do what "s" and "^Q" do.
FKeys == {"F4"}
Keys == {"s", "l", "enter", "^P", "^Q", "^]", "^C"} \cup FKeys

Init ==
  /\ as \in {"uart", "plain", "network"} /\ port = "open" /\ wire = <<>> /\ printed = 0
  /\ reader = "reading" /\ got = <<>> /\ rxErr = FALSE
  /\ scr \in {Screen(b) : b \in {"none", "on"}}
  /\ pc = "loop" /\ after = "loop" /\ part = <<>> /\ rest = <<>> /\ choice = "none"
  /\ raw = TRUE /\ quit = FALSE /\ typed = 0
  /\ warned = FALSE /\ warnings = 0 /\ idleSent = 0 /\ taken = {}

-----------------------------------------------------------------------------
(***************************************************************************)
(* The device and the line.                                                *)
(***************************************************************************)
DevicePrints ==
  /\ port = "open" /\ printed < MaxOutput /\ printed' = printed + 1
  /\ wire' = Append(wire, printed + 1)
  /\ UNCHANGED <<as, port, reading, scr, keyboard>>

LineDies ==
  /\ port = "open" /\ port' = "dead"
  /\ UNCHANGED <<as, wire, printed, reading, scr, keyboard>>

-----------------------------------------------------------------------------
(***************************************************************************)
(* readLoop.                                                               *)
(***************************************************************************)
Read ==
  /\ reader = "reading" /\ port = "open"
  /\ \E n \in DOMAIN wire \cap 1..MaxRead :
       got' = SubSeq(wire, 1, n) /\ wire' = SubSeq(wire, n + 1, Len(wire))
  /\ reader' = "holding"
  /\ UNCHANGED <<as, port, printed, rxErr, scr, keyboard>>

PrintChunk ==
  /\ reader = "holding" /\ reader' = "reading" /\ got' = <<>>
  /\ \E is \in [DOMAIN got -> Printable], fits \in IF scr.bars = "on" THEN BOOLEAN ELSE {TRUE}, keeps \in BOOLEAN :
       scr' = DeviceOutput(scr, [i \in DOMAIN got |-> [id |-> got[i], is |-> is[i]]], fits, keeps)
  /\ UNCHANGED <<as, device, rxErr, keyboard>>

ReadFails ==
  /\ reader = "reading" /\ port # "open" /\ reader' = "gone" /\ rxErr' = TRUE
  /\ UNCHANGED <<as, device, got, scr, keyboard>>

ReadLoop == Read \/ PrintChunk \/ ReadFails

-----------------------------------------------------------------------------
(***************************************************************************)
(* The keyboard.                                                           *)
(***************************************************************************)
\* Only here, between two reads of the keyboard, is the reader's error looked at.
Loop ==
  /\ pc = "loop" /\ rxErr' = (rxErr /\ quit)
  /\ pc' = IF quit \/ rxErr THEN "stop" ELSE "keys"
  /\ UNCHANGED <<as, device, reader, got, scr, after, part, rest, choice, raw, quit, typed, warned, warnings, idleSent, taken>>

\* A read of the keyboard: one key, or two pasted together, one of which is a command.
Chunks ==
  {<<k>> : k \in Keys} \cup {<<"^]", k>> : k \in Keys \ FKeys} \cup {<<k, "F4">> : k \in Keys \ {"^]"}}
  \cup {<<"F4", k>> : k \in Keys}

FirstOf(ks, set) ==
  LET at == {i \in DOMAIN ks : ks[i] \in set}
  IN IF at = {} THEN 0 ELSE CHOOSE i \in at : \A j \in at : i <= j

\* A fullscreen program gets the F-keys, and so does the device of the plain console.
FKeysLocal == as # "plain" /\ ~scr.suspended

\* What comes before the first F-key is handled first, in the mode of this moment.
Begin(ks) ==
  LET i == IF FKeysLocal THEN FirstOf(ks, FKeys) ELSE 0 IN
  /\ pc' = IF raw' THEN "raw" ELSE "line"
  /\ part' = IF i = 0 THEN ks ELSE SubSeq(ks, 1, i - 1)
  /\ rest' = IF i = 0 THEN <<>> ELSE SubSeq(ks, i, Len(ks))

Type ==
  /\ pc = "keys" /\ raw' = raw
  /\ \E ks \in Chunks :
       typed + Len(ks) <= MaxKeys /\ typed' = typed + Len(ks) /\ Begin(ks)
  /\ UNCHANGED <<as, device, reading, scr, after, choice, quit, warned, warnings, idleSent, taken>>

\* Behind the keys before it comes the F-key itself.
EndPart ==
  /\ pc \in {"raw", "line"} /\ (part = <<>> \/ quit)
  /\ IF rest = <<>> \/ quit THEN pc' = "loop" /\ part' = <<>> /\ rest' = <<>> /\ UNCHANGED <<after, choice>>
     ELSE /\ pc' = "act" /\ choice' = Head(rest) /\ rest' = Tail(rest) /\ after' = "rest"
          /\ UNCHANGED part
  /\ UNCHANGED <<as, device, reading, scr, raw, quit, typed, warned, warnings, idleSent, taken>>

\* writeRawInput: whether the pager waits is looked at first, the keys are used later.
LookAtPager ==
  /\ pc = "raw" /\ part # <<>> /\ ~quit /\ pc' = IF scr.waiting THEN "held" ELSE "open"
  /\ UNCHANGED <<as, device, reading, scr, after, part, rest, choice, raw, quit, typed, warned, warnings, idleSent, taken>>

Quits == quit' = TRUE /\ UNCHANGED scr

\* At the pager's prompt every other key is dropped.
KeyWhileHeld ==
  /\ pc = "held" /\ pc' = "raw"
  /\ LET i == FirstOf(part, {"enter", "^P", "^Q"}) IN
     IF i = 0 THEN part' = <<>> /\ UNCHANGED <<scr, quit>>
     ELSE /\ part' = SubSeq(part, i + 1, Len(part))
          /\ CASE part[i] = "enter" -> scr' = PagerContinue(scr) /\ UNCHANGED quit
               [] part[i] = "^P"    -> scr' = TogglePager(scr) /\ UNCHANGED quit
               [] part[i] = "^Q"    -> Quits
  /\ UNCHANGED <<as, device, reading, after, rest, choice, raw, typed, warned, warnings, idleSent, taken>>

\* Keys up to the next of the terminal's own go to the device; a failed write is the end.
RawKeys ==
  /\ pc = "open"
  /\ LET own == {"^]", "^Q", "^P"} \cup (IF as = "network" THEN {"^C"} ELSE {})
         i   == FirstOf(part, own)
     IN /\ i # 1 /\ part' = IF i = 0 THEN <<>> ELSE SubSeq(part, i, Len(part))
        /\ pc' = IF port # "open" THEN "stop" ELSE IF i = 0 THEN "raw" ELSE "open"
  /\ UNCHANGED <<as, device, reading, scr, after, rest, choice, raw, quit, typed, warned, warnings, idleSent, taken>>

OwnKey ==
  /\ pc = "open" /\ pc' = "raw" /\ part' = Tail(part)
  /\ \/ Head(part) = "^Q" /\ Quits /\ UNCHANGED <<warned, warnings, idleSent>>
     \/ Head(part) = "^P" /\ scr' = TogglePager(scr) /\ UNCHANGED <<quit, warned, warnings, idleSent>>
     \/ Head(part) = "^C" /\ as = "network" /\ SendCtrlC /\ UNCHANGED <<scr, quit>>
     \/ Head(part) = "^]" /\ as = "plain" /\ Quits /\ UNCHANGED <<warned, warnings, idleSent>>
  /\ UNCHANGED <<as, device, reading, after, rest, choice, raw, typed, taken>>

\* The key behind Ctrl+] in the same read is the menu's choice.
RawMenu ==
  /\ pc = "open" /\ Head(part) = "^]" /\ as # "plain" /\ pc' = "menu" /\ after' = "raw"
  /\ choice' = IF Len(part) > 1 THEN part[2] ELSE "none"
  /\ part' = SubSeq(part, 3, Len(part))
  /\ UNCHANGED <<as, device, reading, scr, rest, raw, quit, typed, warned, warnings, idleSent, taken>>

\* handleInput in line mode; letters and F-keys only change the line.
\* A key of the line editor; the line itself and its sending are left out.
OnKey(k) ==
  /\ CASE k = "^C" -> SendCtrlC /\ UNCHANGED <<pc, after, choice>>
       [] k = "^]" -> /\ pc' = "menu" /\ after' = "line" /\ choice' = "none"
                      /\ UNCHANGED <<warned, warnings, idleSent>>
       [] OTHER -> UNCHANGED <<pc, after, choice, warned, warnings, idleSent>>
  /\ UNCHANGED <<scr, quit>>

LineKey ==
  /\ pc = "line" /\ part # <<>> /\ ~quit
  /\ CASE Head(part) = "^Q" -> Quits /\ pc' = pc /\ UNCHANGED <<after, choice, warned, warnings, idleSent>>
       [] Head(part) = "^P" -> scr' = TogglePager(scr) /\ pc' = pc /\ UNCHANGED <<quit, after, choice, warned, warnings, idleSent>>
       [] Head(part) = "enter" /\ scr.waiting ->
            pc' = "lineHeld" /\ UNCHANGED <<scr, quit, after, choice, warned, warnings, idleSent>>
       [] OTHER -> OnKey(Head(part))
  /\ part' = Tail(part)
  /\ UNCHANGED <<as, device, reading, rest, raw, typed, taken>>

LineContinue ==
  /\ pc = "lineHeld" /\ pc' = "line" /\ scr' = PagerContinue(scr)
  /\ UNCHANGED <<as, device, reading, after, part, rest, choice, raw, quit, typed, warned, warnings, idleSent, taken>>

\* Two seconds pass.
WarningExpires ==
  /\ warned /\ warned' = FALSE
  /\ UNCHANGED <<as, device, reading, scr, pc, after, part, rest, choice, raw, quit, typed, warnings, idleSent, taken>>

-----------------------------------------------------------------------------
(***************************************************************************)
(* The menu, the transfers, the end.                                       *)
(***************************************************************************)
Menu ==
  /\ pc = "menu" /\ pc' = IF choice = "none" THEN "menuKey" ELSE "act"
  /\ \E fits \in BOOLEAN : scr' = ResumeBars(scr, fits)
  /\ UNCHANGED <<as, device, reading, after, part, rest, choice, raw, quit, typed, warned, warnings, idleSent, taken>>

MenuKey ==
  /\ pc = "menuKey" /\ typed < MaxKeys /\ typed' = typed + 1 /\ pc' = "act"
  /\ \E k \in Keys \ FKeys : choice' = k
  /\ UNCHANGED <<as, device, reading, scr, after, part, rest, raw, quit, warned, warnings, idleSent, taken>>

Return ==
  /\ choice' = "none" /\ after' = "loop"
  /\ IF after = "rest" THEN Begin(rest) ELSE pc' = after /\ UNCHANGED <<part, rest>>

\* menuAction; raw is toggled without the mutex.  Over the network a transfer is done by
\* the caller, once the terminal has been left (WsTransfer).
Act ==
  /\ pc = "act"
  /\ CASE choice = "s" /\ as # "network" ->
             pc' = "transfer" /\ UNCHANGED <<scr, raw, quit, after, part, rest, choice>>
       [] choice = "s" ->
             UNCHANGED <<scr, raw>> /\ quit' = TRUE /\ Return
       [] choice \in {"l", "F4"} ->
             /\ raw' = ~raw /\ Return /\ UNCHANGED quit
             /\ \E fits \in BOOLEAN : scr' = Refresh(scr, fits)
       [] OTHER -> UNCHANGED <<scr, raw, quit>> /\ Return
  /\ UNCHANGED <<as, device, reading, typed, warned, warnings, idleSent, taken>>

\* An XMODEM transfer reads the port beside the read loop; it ends in its own time
\* (XmodemLink), or is not even begun.
TransferReads ==
  /\ pc = "transfer" /\ wire # <<>> /\ wire' = Tail(wire) /\ taken' = taken \cup {Head(wire)}
  /\ UNCHANGED <<as, port, printed, reading, scr, pc, after, part, rest, choice, raw, quit, typed, warned, warnings, idleSent>>

TransferEnds ==
  /\ pc = "transfer" /\ UNCHANGED raw /\ Return
  /\ UNCHANGED <<as, device, reading, scr, quit, typed, warned, warnings, idleSent, taken>>

Stop ==
  /\ pc = "stop" /\ pc' = "close" /\ scr' = StopBars(scr)
  /\ UNCHANGED <<as, device, reading, after, part, rest, choice, raw, quit, typed, warned, warnings, idleSent, taken>>

Close ==
  /\ pc = "close" /\ pc' = "ended" /\ port' = "closed"
  /\ UNCHANGED <<as, wire, printed, reading, scr, after, part, rest, choice, raw, quit, typed, warned, warnings, idleSent, taken>>

Handle == EndPart \/ LookAtPager \/ KeyWhileHeld \/ RawKeys \/ OwnKey \/ RawMenu \/ LineKey \/ LineContinue

KeyboardLoop ==
  Loop \/ Handle \/ Menu \/ Act \/ TransferEnds \/ Stop \/ Close

Operator == Type \/ MenuKey

Next ==
  \/ KeyboardLoop \/ Operator \/ TransferReads \/ ReadLoop
  \/ DevicePrints \/ LineDies \/ WarningExpires

Spec == Init /\ [][Next]_vars
================================================================================
