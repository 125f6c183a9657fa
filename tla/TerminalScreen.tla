---------------------------- MODULE TerminalScreen ----------------------------
(***************************************************************************)
(* What the terminal's two goroutines share (Terminal): what the device    *)
(* prints on its way to the operator, and the screen with its pager and    *)
(* the program's own bars, under uartTerm.mu (term_run.go, term_chrome.go, *)
(* term_chrome_parse.go).  A byte sequence is an item: a control sequence  *)
(* that a read cuts in two is held by chromeParser.pend and pagerANSIProbe *)
(* and counts as one here.                                                 *)
(***************************************************************************)
EXTENDS Integers, FiniteSets, Sequences, SequencesExt

CONSTANTS
  Page,        \* lines on a page (pageSizeLocked)
  BufferMax    \* items the pager may hold (4 MiB)

ASSUME ScreenAssumption == Page \in Nat \ {0} /\ BufferMax \in Nat

VARIABLES
  as,        \* "uart" | "plain" (no commands but Ctrl+]) | "network"; does not change
  wire,      \* printed by the device and not read yet; what an item is, is decided when
             \* the terminal prints it, before that nobody looks
  printed,   \* how many items the device has printed
  taken,     \* items an XMODEM transfer has read
  got,       \* the chunk the read loop holds: items by their number, like wire
  scr,       \* what uartTerm.mu guards, see Screen
  warned,    \* ctrlCAt was less than two seconds ago
  warnings,  \* how many warnings were shown
  idleSent   \* how many Ctrl-C went to UrsusBoot's idle prompt

\* Fullscreen sequences: the alternate screen entered and left, the cursor hidden and
\* shown, the screen cleared or the cursor sent home.
Fullscreen == {"alt", "main", "hide", "show", "home"}
Printable == {"line", "prompt"} \cup Fullscreen

\* bars: "none" in the text console, "on" | "off" (window too small) in the TUI.
Screen(bars) ==
  [shown |-> <<>>, pending |-> <<>>, pager |-> FALSE, waiting |-> FALSE, lines |-> 0,
   probe |-> FALSE, bars |-> bars, suspended |-> FALSE, mode |-> "none", hidden |-> FALSE,
   idle |-> FALSE]

-----------------------------------------------------------------------------
(***************************************************************************)
(* What is printed, under the mutex.                                       *)
(***************************************************************************)
Lines(items) == Cardinality({i \in DOMAIN items : items[i].is = "line"})

\* Where the page ends: behind its last line, or nowhere.
PageEnd(items, room) ==
  {i \in DOMAIN items : items[i].is = "line" /\ Lines(SubSeq(items, 1, i)) = room}

Ids(items) == [i \in DOMAIN items |-> items[i].id]
Write(s, items) == [s EXCEPT !.shown = @ \o Ids(items)]

Flush(s) ==
  IF ~s.pager \/ s.waiting \/ s.pending = <<>> THEN s
  ELSE LET room == IF Page > s.lines THEN Page - s.lines ELSE 1
           end  == PageEnd(s.pending, room)
       IN IF end = {}
          THEN [Write(s, s.pending) EXCEPT !.pending = <<>>, !.lines = @ + Lines(s.pending)]
          ELSE LET i == CHOOSE i \in end : TRUE
               IN [Write(s, SubSeq(s.pending, 1, i)) EXCEPT
                     !.pending = SubSeq(s.pending, i + 1, Len(s.pending)),
                     !.lines = @ + room, !.waiting = TRUE]

PagerOff(s) == [Write(s, s.pending) EXCEPT !.pending = <<>>, !.pager = FALSE, !.waiting = FALSE]

\* Mutant: what the pager holds stays held when it is switched off.
TogglePagerHolding(s) == Flush([s EXCEPT !.pager = ~@, !.waiting = FALSE, !.lines = 0])

TogglePager(s) ==
  [IF s.pager THEN PagerOff(s) ELSE [s EXCEPT !.pager = TRUE, !.waiting = FALSE] EXCEPT !.lines = 0]

PagerContinue(s) == IF s.pager THEN Flush([s EXCEPT !.waiting = FALSE, !.lines = 0]) ELSE s

\* The device's unfinished line: its idle prompt, or nothing.
TrackDeviceLine(idle, items) ==
  LET ends == {i \in DOMAIN items : items[i].is = "line"} IN
  \/ idle /\ ends = {}
  \/ \E i \in DOMAIN items : items[i].is = "prompt" /\ \A j \in ends : j < i

\* A fullscreen sequence in the latest bytes switches the pager off; the bytes kept for
\* a cut sequence may still hold an old one.
Output(s, items, keeps) ==
  LET full == s.probe \/ \E i \in DOMAIN items : items[i].is \in Fullscreen
      last == items # <<>> /\ Last(items).is \in Fullscreen
      free == IF s.pager /\ full THEN [PagerOff(s) EXCEPT !.lines = 0] ELSE s
      seen == [free EXCEPT !.probe = full /\ (last \/ keeps), !.idle = TrackDeviceLine(@, items)]
      held == [seen EXCEPT !.pending = @ \o items]
  IN IF ~seen.pager THEN Write(seen, items)
     ELSE IF Len(held.pending) > BufferMax THEN PagerOff(held)
     ELSE Flush(held)

\* chromeParser.feed: pieces of the stream, each followed by what the bars have to do.
Cut(p, act, next) == [p EXCEPT !.pieces = Append(@, [data |-> p.cur, act |-> act]), !.cur = next]

Parse(p, it) ==
  LET more == [p EXCEPT !.cur = Append(@, it)] IN
  CASE it.is = "alt" ->
         [IF p.mode = "none" THEN Cut(p, "suspend", <<it>>) ELSE more EXCEPT !.mode = "alt"]
    [] it.is = "main" ->
         IF p.mode = "alt" THEN [Cut(more, "resume", <<>>) EXCEPT !.mode = "none"] ELSE more
    [] it.is = "hide" -> [more EXCEPT !.hidden = TRUE]
    [] it.is = "show" ->
         IF p.mode = "soft" THEN [Cut(more, "clear", <<>>) EXCEPT !.mode = "none", !.hidden = FALSE]
         ELSE [more EXCEPT !.hidden = FALSE]
    [] it.is = "home" ->
         IF p.mode = "none" /\ p.hidden THEN [Cut(p, "suspend", <<it>>) EXCEPT !.mode = "soft"]
         ELSE IF p.mode = "none" THEN Cut(more, "refresh", <<>>) ELSE more
    [] OTHER -> more

Feed(s, items) ==
  LET p[i \in 0..Len(items)] ==
        IF i = 0 THEN [mode |-> s.mode, hidden |-> s.hidden, pieces |-> <<>>, cur |-> <<>>]
        ELSE Parse(p[i - 1], items[i])
  IN Cut(p[Len(items)], "none", <<>>)

\* Bars that do not fit any more are given up; a refresh follows the window.
Refresh(s, fits) == IF s.bars = "on" /\ ~s.suspended /\ ~fits THEN [s EXCEPT !.bars = "off"] ELSE s

StartBars(s, fits) ==
  IF fits THEN [s EXCEPT !.bars = "on", !.suspended = FALSE] ELSE [s EXCEPT !.bars = "off"]

Apply(s, act, fits) ==
  CASE act = "suspend" /\ s.bars = "on" -> [s EXCEPT !.suspended = TRUE]
    [] act = "resume" /\ s.suspended    -> Refresh([s EXCEPT !.suspended = FALSE], fits)
    [] act = "clear" /\ s.suspended     -> StartBars(s, fits)
    [] act = "refresh"                  -> Refresh(s, fits)
    [] OTHER                            -> s

\* deviceOutput.
DeviceOutput(s, items, fits, keeps) ==
  IF s.bars = "none" THEN Output(s, items, keeps)
  ELSE LET p == Feed(s, items)
           done[i \in 0..Len(p.pieces)] ==
             IF i = 0 THEN [Refresh(s, fits) EXCEPT !.mode = p.mode, !.hidden = p.hidden]
             ELSE Apply(Output(done[i - 1], p.pieces[i].data, keeps), p.pieces[i].act, fits)
       IN done[Len(p.pieces)]

\* Mutant: the parser is not told that the operator has taken the screen back.
ResumeBarsOnly(s, fits) == IF s.suspended THEN StartBars(s, fits) ELSE s

\* The menu brings the bars back whatever the device is doing.
ResumeBars(s, fits) ==
  IF s.suspended THEN StartBars([s EXCEPT !.mode = "none", !.hidden = FALSE], fits) ELSE s

StopBars(s) == IF s.bars = "on" THEN [s EXCEPT !.bars = "off"] ELSE s

-----------------------------------------------------------------------------
(***************************************************************************)
(* Ctrl-C on the Ethernet console.                                         *)
(***************************************************************************)
\* Mutant: the warning is not used up by the Ctrl-C that it was for.
SendCtrlCWarnedOnce ==
  LET idle == as = "network" /\ scr.idle IN
  IF idle /\ ~warned
  THEN warned' = TRUE /\ warnings' = warnings + 1 /\ UNCHANGED idleSent
  ELSE UNCHANGED <<warned, warnings>> /\ idleSent' = IF idle THEN idleSent + 1 ELSE idleSent

\* At UrsusBoot's idle prompt a Ctrl-C would stop its web server: the first one warns.
SendCtrlC ==
  LET idle == as = "network" /\ scr.idle IN
  IF idle /\ ~warned
  THEN warned' = TRUE /\ warnings' = warnings + 1 /\ UNCHANGED idleSent
  ELSE warned' = FALSE /\ UNCHANGED warnings /\ idleSent' = IF idle THEN idleSent + 1 ELSE idleSent

-----------------------------------------------------------------------------
(***************************************************************************)
(* What must hold.                                                         *)
(***************************************************************************)
\* What the device prints reaches the screen in order, each item once, whatever is pressed
\* while it is printed; what is not on the screen yet is held by the pager, whose prompt
\* then stands there, or is still to be printed, or was read by a transfer.
OutputNotLost ==
  LET all == scr.shown \o Ids(scr.pending) \o got \o wire IN
  /\ \A i, j \in DOMAIN all : i < j => all[i] < all[j]
  /\ ToSet(all) = (1..printed) \ taken
  /\ scr.pending # <<>> => scr.pager /\ scr.waiting

\* While the bars may be drawn, they step aside for a fullscreen program and for nothing
\* else: the F-keys are the device's exactly as long as such a program has the screen.
ScreenHasOneOwner ==
  scr.bars = "on" => (scr.suspended <=> scr.mode # "none")

\* Every Ctrl-C that reaches UrsusBoot's idle prompt was asked about by a warning of its
\* own (sendCtrlC).
CtrlCAsked == idleSent <= warnings
===============================================================================
