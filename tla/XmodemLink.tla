------------------------------ MODULE XmodemLink ------------------------------
(***************************************************************************)
(* xmodemSend (main.go) against the XMODEM-CRC receivers it feeds: the     *)
(* BootROM, the RAM preloader and U-Boot's loadx.  The sender's reads take *)
(* whatever has arrived, in one or in several pieces, and it never flushes *)
(* its input between blocks, so an answer can be taken for another block's *)
(* when a reply is late or the receiver repeats itself on a timer.  What   *)
(* the caller may rely on after the hand-over is checked here.             *)
(***************************************************************************)
EXTENDS Integers, Sequences, SequencesExt

CONSTANTS
  NumBlocks,   \* blocks of the file
  WrapAt,      \* block numbers wrap here (256: a byte)
  Attempts,    \* how often a block is sent before the transfer is given up
  EotTries,    \* how often EOT is sent
  MaxFaults,   \* bound: packets and replies damaged
  MaxLate      \* bound, below the wrap: deadlines that pass too early, and replies a timer adds

ASSUME XmodemAssumption ==
  /\ NumBlocks \in Nat \ {0} /\ WrapAt \in Nat
  /\ Attempts \in Nat \ {0} /\ EotTries \in Nat \ {0}
  /\ MaxFaults \in Nat /\ MaxLate \in Nat /\ MaxLate + 3 <= WrapAt

VARIABLES
  pc,        \* "send" | "reply" | "eot" | "eotReply" | "done"
  idx,       \* the block at hand
  attempt,   \* of that block, or of EOT
  stop,      \* a STOP is pending
  result,    \* "running" | "handedOver" | "failed" | "cancelled"
  line,      \* on the way to the receiver
  replies,   \* on the way to the sender: "ack" | "nak" | "C" | "can" | "text"
  got,       \* the receiver's blocks, in order
  receiver,  \* "receiving" | "started" (the image runs) | "aborted"
  prompt,    \* the receiver answers once per packet, within the deadline; does not change
  faults, late

sender == <<pc, idx, attempt, result>>
vars == <<sender, stop, line, replies, got, receiver, prompt, faults, late>>

EOT == [is |-> "eot"]
CAN == [is |-> "can"]
Noise == [is |-> "noise"]

BlockNumber(i) == i % WrapAt

\* The payload is read from the file once per block, before its attempts.
Packet(i) == [is |-> "block", seq |-> BlockNumber(i), data |-> i]

Init ==
  /\ pc = "send" /\ idx = 1 /\ attempt = 1 /\ stop = FALSE /\ result = "running"
  /\ line = <<>> /\ replies = <<>> /\ got = <<>> /\ receiver = "receiving"
  /\ prompt \in BOOLEAN /\ faults = 0 /\ late = 0

Fault == faults < MaxFaults /\ faults' = faults + 1 /\ UNCHANGED late
Late == ~prompt /\ late < MaxLate /\ late' = late + 1 /\ UNCHANGED faults

Transmit(p) ==
  \/ line' = Append(line, p) /\ UNCHANGED <<faults, late>>
  \/ line' = Append(line, Noise) /\ Fault

(***************************************************************************)
(* The sender.                                                             *)
(***************************************************************************)
End(r) == pc' = "done" /\ result' = r /\ UNCHANGED <<idx, attempt>>

\* Mutant: the data phase ends without a word to the receiver.
AbortSilently(r) == End(r) /\ UNCHANGED line

\* The deferred CAN CAN CAN of the data phase.
Abort(r) == End(r) /\ line' = Append(line, CAN)

\* STOP is looked at before a block, not between its attempts.
SendBlock ==
  /\ pc = "send" /\ (attempt = 1 => ~stop)
  /\ Transmit(Packet(idx))
  /\ pc' = "reply"
  /\ UNCHANGED <<idx, attempt, result, stop, replies, got, receiver, prompt>>

StopAtBlock ==
  /\ pc = "send" /\ attempt = 1 /\ stop
  /\ Abort("cancelled")
  /\ UNCHANGED <<stop, replies, got, receiver, prompt, faults, late>>

\* What a read says: the first ACK or CAN CAN in it decides, else any NAK or C.
Says(d, r) == \E k \in DOMAIN d : d[k] = r /\ \A j \in 1..(k - 1) : d[j] \notin {"ack", "can"}
SaysNothing(d) == ToSet(d) \cap {"ack", "can"} = {}

Accept ==
  /\ idx' = idx + 1 /\ attempt' = 1
  /\ pc' = IF idx = NumBlocks THEN "eot" ELSE "send"
  /\ UNCHANGED <<result, line>>

\* Mutant: a block is sent again without end.
RetryForEver ==
  pc' = "send" /\ UNCHANGED <<idx, attempt, result, line>>

RetryBlock ==
  \/ /\ attempt < Attempts
     /\ attempt' = attempt + 1 /\ pc' = "send"
     /\ UNCHANGED <<idx, result, line>>
  \/ attempt = Attempts /\ Abort("failed")

\* One read takes what has arrived; what follows the deciding byte in it is dropped.
Take(n) == replies' = SubSeq(replies, n + 1, Len(replies))

ReadReply ==
  /\ pc = "reply"
  /\ \E n \in DOMAIN replies :
       LET d == SubSeq(replies, 1, n) IN
       /\ Take(n)
       /\ \/ Says(d, "ack") /\ Accept
          \/ Says(d, "can") /\ Abort("failed")
          \/ SaysNothing(d) /\ ToSet(d) \cap {"nak", "C"} # {} /\ RetryBlock
          \/ ToSet(d) = {"text"} /\ UNCHANGED <<sender, line>>
  /\ UNCHANGED <<stop, got, receiver, prompt, faults, late>>

\* Mutant: the silence of a lost reply is taken for an ACK.
SilenceAccepts ==
  /\ pc = "reply" /\ line = <<>> /\ replies = <<>>
  /\ Accept
  /\ UNCHANGED <<stop, replies, got, receiver, prompt, faults, late>>

ReplyTimeout ==
  /\ pc = "reply"
  /\ \/ line = <<>> /\ replies = <<>> /\ UNCHANGED <<faults, late>>
     \/ Late
  /\ RetryBlock
  /\ UNCHANGED <<stop, replies, got, receiver, prompt>>

SendEot ==
  /\ pc = "eot"
  /\ Transmit(EOT)
  /\ pc' = "eotReply"
  /\ UNCHANGED <<idx, attempt, result, stop, replies, got, receiver, prompt>>

\* Only a NAK repeats EOT; text, C included, belongs to the next stage.
ReadEotReply ==
  /\ pc = "eotReply"
  /\ \E n \in DOMAIN replies :
       LET d == SubSeq(replies, 1, n) IN
       /\ Take(n)
       /\ \/ Says(d, "ack") /\ End("handedOver")
          \/ Says(d, "can") /\ End("failed")
          \/ SaysNothing(d) /\ ToSet(d) \cap {"text", "C"} # {} /\ End("handedOver")
          \/ /\ ToSet(d) = {"nak"} /\ attempt < EotTries
             /\ attempt' = attempt + 1 /\ pc' = "eot" /\ UNCHANGED <<idx, result>>
          \/ ToSet(d) = {"nak"} /\ attempt = EotTries /\ End("handedOver")
  /\ UNCHANGED <<stop, line, got, receiver, prompt, faults, late>>

\* Silence hands over: the next stage has to prove itself to the caller.
EotTimeout ==
  /\ pc = "eotReply"
  /\ \/ line = <<>> /\ replies = <<>> /\ UNCHANGED <<faults, late>>
     \/ Late
  /\ End("handedOver")
  /\ UNCHANGED <<stop, line, replies, got, receiver, prompt>>

\* Mutant: CAN is sent whenever the sender fails.
PortFailsWithCan ==
  /\ pc # "done"
  /\ Abort("failed")
  /\ UNCHANGED <<stop, replies, got, receiver, prompt, faults, late>>

\* The port returns an error: no more CAN once the last block is acknowledged.
PortFails ==
  /\ \/ pc \in {"send", "reply"} /\ Abort("failed")
     \/ pc \in {"eot", "eotReply"} /\ End("failed") /\ UNCHANGED line
  /\ UNCHANGED <<stop, replies, got, receiver, prompt, faults, late>>

Sender ==
  SendBlock \/ StopAtBlock \/ ReadReply \/ ReplyTimeout \/ SendEot \/ ReadEotReply \/ EotTimeout

(***************************************************************************)
(* The receiver, and the operator.                                         *)
(***************************************************************************)
Reply(r) ==
  \/ replies' = Append(replies, r) /\ UNCHANGED <<faults, late>>
  \/ UNCHANGED replies /\ Fault

Expected(p) == p.is = "block" /\ p.seq = BlockNumber(Len(got) + 1)
Repeated(p) == p.is = "block" /\ p.seq = BlockNumber(Len(got)) /\ ~Expected(p)

Receive ==
  /\ line # <<>> /\ line' = Tail(line)
  /\ LET p == Head(line) IN
     \/ receiver # "receiving" /\ UNCHANGED <<replies, got, receiver, faults, late>>
     \/ /\ receiver = "receiving"
        /\ \/ Expected(p) /\ got' = Append(got, p.data) /\ Reply("ack") /\ UNCHANGED receiver
           \/ Repeated(p) /\ Reply("ack") /\ UNCHANGED <<got, receiver>>
           \/ p = Noise /\ Reply("nak") /\ UNCHANGED <<got, receiver>>
           \/ p = EOT /\ Reply("ack") /\ receiver' = "started" /\ UNCHANGED got
           \/ p = CAN /\ receiver' = "aborted" /\ UNCHANGED <<replies, got, faults, late>>
           \/ /\ p.is = "block" /\ ~Expected(p) /\ ~Repeated(p) /\ UNCHANGED got
              /\ \/ Reply("nak") /\ UNCHANGED receiver
                 \/ Reply("can") /\ receiver' = "aborted"
  /\ UNCHANGED <<sender, stop, prompt>>

\* The receiver asks for the first block, or for the next one, once more.
TimerReply ==
  /\ receiver = "receiving" /\ Late
  /\ replies' = Append(replies, IF got = <<>> THEN "C" ELSE "nak")
  /\ UNCHANGED <<sender, stop, line, got, receiver, prompt>>

\* The image that was started prints something.
StagePrints ==
  /\ receiver = "started" /\ pc = "eotReply" /\ "text" \notin ToSet(replies)
  /\ replies' = Append(replies, "text")
  /\ UNCHANGED <<sender, stop, line, got, receiver, prompt, faults, late>>

RequestStop ==
  /\ result = "running" /\ ~stop
  /\ stop' = TRUE
  /\ UNCHANGED <<sender, line, replies, got, receiver, prompt, faults, late>>

Next == Sender \/ PortFails \/ Receive \/ TimerReply \/ StagePrints \/ RequestStop

Spec == Init /\ [][Next]_vars

\* Every wait of the sender has a deadline; the receiver works through what it is sent.
FairSpec == Spec /\ WF_vars(Sender) /\ WF_vars(Receive)

-----------------------------------------------------------------------------

\* What the receiver holds is the beginning of the file, each block once and in its place,
\* whichever packets and replies are damaged or late and though block numbers wrap; while it
\* answers once per packet and in time, the hand-over starts the whole image.
ReceivedIsFile ==
  /\ \A i \in DOMAIN got : got[i] = i
  /\ prompt /\ idx > NumBlocks => Len(got) = NumBlocks

\* The deferred CAN never reaches a stage that was started, and neither a stopped transfer nor
\* one the receiver gave up in the data phase starts anything.
CanStaysInDataPhase ==
  receiver = "started" => CAN \notin ToSet(line) /\ idx > NumBlocks /\ result # "cancelled"

\* A stopped transfer does not leave the receiver waiting for blocks.
StopReachesReceiver == result = "cancelled" ~> receiver = "aborted"

\* The sender comes to an end whatever the line does.
TransferEnds == <>(result # "running")
==============================================================================
