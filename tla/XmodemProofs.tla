----------------------------- MODULE XmodemProofs -----------------------------
(***************************************************************************)
(* Two results on the XMODEM link, for every file length, wrap of the      *)
(* block numbers and number of attempts, and whatever the line does.       *)
(*                                                                         *)
(* The word CAN stays out of a stage that was started: CAN and EOT each    *)
(* exclude the other for good, the one being sent only while the sender    *)
(* has blocks left, as its last word, the other only when it has none      *)
(* (OneEnding).                                                            *)
(*                                                                         *)
(* What the receiver holds is the beginning of the file, though answers    *)
(* are taken for other blocks' and block numbers wrap (FileInv).           *)
(*                                                                         *)
(* At the end of the module stands the caller, which takes a device        *)
(* through its boot stages by such transfers (RamBoot).                    *)
(***************************************************************************)
EXTENDS XmodemLink, BootStages, FiniteSetTheorems, TLAPS

Packets == [is : {"eot", "can", "noise"}] \cup [is : {"block"}, seq : Int, data : Int]

TypeInv ==
  /\ pc \in {"send", "reply", "eot", "eotReply", "done"}
  /\ idx \in 1..(NumBlocks + 1)
  /\ line \in Seq(Packets)

OneEnding ==
  /\ pc \in {"send", "reply"} => idx <= NumBlocks
  /\ pc \in {"eot", "eotReply"} => idx > NumBlocks
  /\ CAN \in ToSet(line) => pc = "done" /\ idx <= NumBlocks
  /\ EOT \in ToSet(line) \/ receiver = "started" => idx > NumBlocks
  /\ result = "cancelled" => pc = "done" /\ idx <= NumBlocks

LinkInv == TypeInv /\ OneEnding

LEMMA Appended ==
  ASSUME NEW S, NEW s \in Seq(S), NEW e \in S
  PROVE  Append(s, e) \in Seq(S) /\ ToSet(Append(s, e)) = ToSet(s) \cup {e}
<1>1. Append(s, e) \in Seq(S) /\ Len(Append(s, e)) = Len(s) + 1
  OBVIOUS
<1>2. \A i \in 1..Len(s) : Append(s, e)[i] = s[i]
  OBVIOUS
<1>3. Append(s, e)[Len(s) + 1] = e
  OBVIOUS
<1>4. ToSet(Append(s, e)) \subseteq ToSet(s) \cup {e}
  BY <1>1, <1>2, <1>3 DEF ToSet
<1>5. ToSet(s) \cup {e} \subseteq ToSet(Append(s, e))
  BY <1>1, <1>2, <1>3 DEF ToSet
<1> QED
  BY <1>1, <1>4, <1>5

LEMMA Taken ==
  ASSUME NEW S, NEW s \in Seq(S), s # <<>>
  PROVE  /\ Head(s) \in S /\ Head(s) \in ToSet(s)
         /\ Tail(s) \in Seq(S) /\ ToSet(Tail(s)) \subseteq ToSet(s)
<1>1. Head(s) = s[1] /\ Len(s) \in Nat /\ Len(s) > 0
  OBVIOUS
<1>2. Tail(s) \in Seq(S) /\ Len(Tail(s)) = Len(s) - 1 /\ \A i \in 1..Len(Tail(s)) : Tail(s)[i] = s[i + 1]
  OBVIOUS
<1> QED
  BY <1>1, <1>2 DEF ToSet

LEMMA PacketFacts ==
  /\ EOT \in Packets /\ CAN \in Packets /\ Noise \in Packets
  /\ EOT # CAN /\ EOT # Noise /\ CAN # Noise
  /\ \A i \in Int : Packet(i) \in Packets /\ Packet(i) # EOT /\ Packet(i) # CAN
<1>1. EOT \in Packets /\ CAN \in Packets /\ Noise \in Packets
  BY DEF EOT, CAN, Noise, Packets
<1>2. EOT.is = "eot" /\ CAN.is = "can" /\ Noise.is = "noise"
  BY DEF EOT, CAN, Noise
<1>3. ASSUME NEW i \in Int
      PROVE  Packet(i) \in Packets /\ Packet(i) # EOT /\ Packet(i) # CAN
  <2>1. BlockNumber(i) \in Int
    BY XmodemAssumption DEF BlockNumber
  <2>2. Packet(i) \in Packets /\ Packet(i).is = "block"
    BY <2>1 DEF Packet, Packets
  <2> QED
    BY <1>2, <2>2
<1> QED
  BY <1>1, <1>2, <1>3

LEMMA Initially ==
  ASSUME Init
  PROVE  LinkInv
<1>1. TypeInv
  BY XmodemAssumption DEF Init, TypeInv
<1>2. ToSet(line) = {}
  BY DEF Init, ToSet
<1> QED
  BY <1>1, <1>2, XmodemAssumption DEF Init, LinkInv, OneEnding

LEMMA SenderKeeps ==
  ASSUME LinkInv, Sender \/ PortFails
  PROVE  LinkInv'
<1> USE PacketFacts DEF LinkInv, TypeInv, OneEnding, vars, sender
<1>0. idx \in Int /\ NumBlocks \in Int
  BY XmodemAssumption
<1>1. ASSUME NEW p \in Packets, Transmit(p)
      PROVE  /\ line' \in Seq(Packets)
             /\ \A q : q \in ToSet(line') => q \in ToSet(line) \cup {p, Noise}
  <2>1. line' = Append(line, p) \/ line' = Append(line, Noise)
    BY <1>1 DEF Transmit
  <2>2. Append(line, p) \in Seq(Packets) /\ ToSet(Append(line, p)) = ToSet(line) \cup {p}
    BY Appended
  <2>3. Append(line, Noise) \in Seq(Packets) /\ ToSet(Append(line, Noise)) = ToSet(line) \cup {Noise}
    BY Appended
  <2> QED
    BY <2>1, <2>2, <2>3
<1>2. ASSUME NEW r, Abort(r), pc \in {"send", "reply"}, r # "running", UNCHANGED receiver
      PROVE  LinkInv'
  <2>1. line' \in Seq(Packets) /\ ToSet(line') = ToSet(line) \cup {CAN}
    BY <1>2, Appended DEF Abort
  <2> QED
    BY <1>0, <1>2, <2>1 DEF Abort, End
<1>3. ASSUME NEW r, End(r), pc \in {"eot", "eotReply"}, r # "cancelled", UNCHANGED <<line, receiver>>
      PROVE  LinkInv'
  BY <1>0, <1>3 DEF End
<1>4. ASSUME RetryBlock, pc = "reply", UNCHANGED receiver
      PROVE  LinkInv'
  <2>1. CASE attempt = Attempts /\ Abort("failed")
    BY <1>2, <1>4, <2>1
  <2> QED
    BY <1>0, <1>4, <2>1 DEF RetryBlock
<1>5. ASSUME Accept, pc = "reply", UNCHANGED receiver
      PROVE  LinkInv'
  BY <1>0, <1>5 DEF Accept
<1>6. CASE SendBlock
  <2>1. \A q : q \in ToSet(line') => q \in ToSet(line) \cup {Packet(idx), Noise}
    BY <1>0, <1>1, <1>6 DEF SendBlock
  <2>2. line' \in Seq(Packets)
    BY <1>0, <1>1, <1>6 DEF SendBlock
  <2> QED
    BY <1>0, <1>6, <2>1, <2>2 DEF SendBlock
<1>7. CASE StopAtBlock
  BY <1>2, <1>7 DEF StopAtBlock
<1>8. CASE ReadReply
  <2>1. CASE Accept
    BY <1>5, <1>8, <2>1 DEF ReadReply
  <2>2. CASE Abort("failed")
    BY <1>2, <1>8, <2>2 DEF ReadReply
  <2>3. CASE RetryBlock
    BY <1>4, <1>8, <2>3 DEF ReadReply
  <2>4. CASE UNCHANGED <<sender, line>>
    BY <1>8, <2>4 DEF ReadReply
  <2> QED
    BY <1>8, <2>1, <2>2, <2>3, <2>4 DEF ReadReply
<1>9. CASE ReplyTimeout
  BY <1>4, <1>9 DEF ReplyTimeout
<1>10. CASE SendEot
  <2>1. \A q : q \in ToSet(line') => q \in ToSet(line) \cup {EOT, Noise}
    BY <1>1, <1>10 DEF SendEot
  <2>2. line' \in Seq(Packets)
    BY <1>1, <1>10 DEF SendEot
  <2> QED
    BY <1>0, <1>10, <2>1, <2>2 DEF SendEot
<1>11. CASE ReadEotReply
  <2>1. CASE End("handedOver")
    BY <1>3, <1>11, <2>1 DEF ReadEotReply
  <2>2. CASE End("failed")
    BY <1>3, <1>11, <2>2 DEF ReadEotReply
  <2>3. CASE pc' = "eot" /\ UNCHANGED <<idx, result>>
    BY <1>0, <1>11, <2>3 DEF ReadEotReply
  <2> QED
    BY <1>11, <2>1, <2>2, <2>3 DEF ReadEotReply
<1>12. CASE EotTimeout
  BY <1>3, <1>12 DEF EotTimeout
<1>13. CASE PortFails
  <2>1. CASE pc \in {"send", "reply"} /\ Abort("failed")
    BY <1>2, <1>13, <2>1 DEF PortFails
  <2>2. CASE pc \in {"eot", "eotReply"} /\ End("failed") /\ UNCHANGED line
    BY <1>3, <1>13, <2>2 DEF PortFails
  <2> QED
    BY <1>13, <2>1, <2>2 DEF PortFails
<1> QED
  BY <1>6, <1>7, <1>8, <1>9, <1>10, <1>11, <1>12, <1>13 DEF Sender

LEMMA ReceiverKeeps ==
  ASSUME LinkInv, Receive
  PROVE  LinkInv'
<1>1. /\ Head(line) \in ToSet(line) /\ line' \in Seq(Packets)
      /\ ToSet(line') \subseteq ToSet(line)
  BY Taken DEF LinkInv, TypeInv, Receive
<1>2. UNCHANGED <<pc, idx, result>>
  BY DEF Receive, sender
<1>3. receiver' = "started" => receiver = "started" \/ EOT \in ToSet(line)
  BY <1>1 DEF Receive
<1> QED
  BY <1>1, <1>2, <1>3 DEF LinkInv, TypeInv, OneEnding

\* CAN cannot reach a stage that was started, and a stopped transfer starts nothing, for every
\* file, every wrap of the block numbers and every fate of packets and replies.
THEOREM NoCanAfterHandOver == Spec => []CanStaysInDataPhase
<1>1. LinkInv /\ [Next]_vars => LinkInv'
  <2> SUFFICES ASSUME LinkInv, [Next]_vars PROVE LinkInv'
    OBVIOUS
  <2>1. CASE Sender \/ PortFails
    BY <2>1, SenderKeeps
  <2>2. CASE Receive
    BY <2>2, ReceiverKeeps
  <2>3. CASE UNCHANGED <<sender, line, receiver>>
    BY <2>3 DEF LinkInv, TypeInv, OneEnding, sender
  <2>4. TimerReply \/ StagePrints \/ RequestStop \/ UNCHANGED vars => UNCHANGED <<sender, line, receiver>>
    BY DEF TimerReply, StagePrints, RequestStop, vars
  <2> QED
    BY <2>1, <2>2, <2>3, <2>4 DEF Next
<1>2. LinkInv => CanStaysInDataPhase
  BY XmodemAssumption DEF LinkInv, TypeInv, OneEnding, CanStaysInDataPhase
<1> QED
  BY <1>1, <1>2, Initially, PTL DEF Spec

-----------------------------------------------------------------------------
(***************************************************************************)
(* The receiver holds the beginning of the file.  The sender may take an   *)
(* answer for another block's, so it may be done with a block that the     *)
(* receiver has not got.  As long as that block is still on its way        *)
(* (Complete), nothing is lost.  If every copy of it was damaged (Missing) *)
(* the receiver stays before it, and only answers that were surplus when   *)
(* it was given up can take the sender further: too few, with fewer late   *)
(* ones than the block number's wrap, for a later block to bear the number *)
(* that the receiver expects or the one that it repeats.                   *)
(***************************************************************************)
Answers == {"ack", "nak", "C", "can", "text"}
DataPhase == pc \in {"send", "reply"}

\* Block b is on its way to the receiver.
Carries(k, b) == line[k].is = "block" /\ line[k].data = b
OnLine(b) == \E k \in DOMAIN line : Carries(k, b)

Values ==
  /\ replies \in Seq(Answers) /\ got \in Seq(Nat) /\ prompt \in BOOLEAN
  /\ receiver \in {"receiving", "started", "aborted"}
  /\ late \in Nat /\ late <= MaxLate

InPlace == \A i \in DOMAIN got : got[i] = i

\* Blocks arrive in the order they were sent in, and none before the last one that is held.
InOrder ==
  /\ Len(got) <= idx
  /\ \A k \in DOMAIN line : line[k].is = "block" =>
       line[k] = Packet(line[k].data) /\ line[k].data \in 1..idx /\ Len(got) <= line[k].data
  /\ \A j, k \in DOMAIN line :
       j < k /\ line[j].is = "block" /\ line[k].is = "block" => line[j].data <= line[k].data

\* Each packet has one answer: there are more of both than were waited for only because a
\* deadline passed too early, or the receiver's timer added an answer.
Surplus ==
  DataPhase => Len(line) + Len(replies) <= late + (IF pc = "reply" THEN 1 ELSE 0)

\* Every block the sender is done with is held or on its way.
Complete == \A b \in (Len(got) + 1)..(idx - 1) : OnLine(b)

\* Block m was given up for another's answer and is not on its way any more.
GivenUp(m) ==
  /\ m \in (Len(got) + 1)..(idx - 1)
  /\ ~OnLine(m) /\ \A b \in (Len(got) + 1)..(m - 1) : OnLine(b)
  /\ idx - m <= late + 1

\* What may still be answered with an ACK, the first f packets on the line and the first a
\* answers, bounds how far the sender goes past m.
InReach(m, a, f) ==
  /\ f <= Len(line) /\ a <= Len(replies) /\ (f > 0 => a = Len(replies))
  /\ \A k \in DOMAIN line : k > f /\ line[k].is = "block" => line[k].data > m
  /\ \A k \in DOMAIN replies : k > a => replies[k] # "ack"

Passing(m, a, f) == InReach(m, a, f) /\ (idx - m) + a + f <= late + 1

Missing(m, a, f) == GivenUp(m) /\ (DataPhase => Passing(m, a, f))

Drift == receiver = "receiving" => Complete \/ \E m, a, f \in Nat : Missing(m, a, f)

\* Against a receiver that answers once and in time the two go block by block.
InStep == prompt =>
  /\ late = 0
  /\ receiver = "aborted" => pc = "done" /\ idx <= NumBlocks
  /\ DataPhase =>
       /\ Len(got) >= idx - 1
       /\ \A k \in DOMAIN line : line[k].is = "block" => line[k].data = idx
       /\ "ack" \in ToSet(replies) => Len(got) = idx
  /\ idx > NumBlocks => Len(got) = NumBlocks /\ \A k \in DOMAIN line : line[k].is # "block"

FileInv == LinkInv /\ Values /\ InPlace /\ InOrder /\ Surplus /\ Drift /\ InStep

-----------------------------------------------------------------------------
(***************************************************************************)
(* Sequences and block numbers.                                            *)
(***************************************************************************)
LEMMA AppendAt ==
  ASSUME NEW S, NEW s \in Seq(S), NEW e \in S
  PROVE  /\ Append(s, e) \in Seq(S) /\ Len(Append(s, e)) = Len(s) + 1 /\ Len(s) \in Nat
         /\ DOMAIN Append(s, e) = 1..(Len(s) + 1) /\ DOMAIN s = 1..Len(s)
         /\ \A k \in 1..Len(s) : Append(s, e)[k] = s[k]
         /\ Append(s, e)[Len(s) + 1] = e
  OBVIOUS

LEMMA TailAt ==
  ASSUME NEW S, NEW s \in Seq(S), s # <<>>
  PROVE  /\ Len(s) \in Nat /\ Len(s) >= 1 /\ Head(s) = s[1] /\ Head(s) \in S
         /\ Tail(s) \in Seq(S) /\ Len(Tail(s)) = Len(s) - 1
         /\ DOMAIN Tail(s) = 1..(Len(s) - 1) /\ DOMAIN s = 1..Len(s)
         /\ \A k \in 1..(Len(s) - 1) : Tail(s)[k] = s[k + 1]
  OBVIOUS

LEMMA RestAt ==
  ASSUME NEW S, NEW s \in Seq(S), NEW n \in 1..Len(s)
  PROVE  /\ Len(s) \in Nat /\ SubSeq(s, n + 1, Len(s)) \in Seq(S)
         /\ Len(SubSeq(s, n + 1, Len(s))) = Len(s) - n
         /\ DOMAIN SubSeq(s, n + 1, Len(s)) = 1..(Len(s) - n) /\ DOMAIN s = 1..Len(s)
         /\ \A k \in 1..(Len(s) - n) : SubSeq(s, n + 1, Len(s))[k] = s[k + n]
  OBVIOUS

\* Blocks with the same number are at least a wrap apart.
LEMMA SameNumber ==
  ASSUME NEW x \in Nat, NEW y \in Nat, x < y, BlockNumber(x) = BlockNumber(y)
  PROVE  x + WrapAt <= y
<1> DEFINE W == WrapAt
           i == x \div W
           j == y \div W
           r == x % W
<1>1. W \in Nat /\ W > 0
  BY XmodemAssumption
<1>2. i \in Int /\ j \in Int /\ r \in Nat /\ x = W * i + r /\ y = W * j + (y % W)
  BY <1>1
<1>3. y = W * j + r
  <2>1. y % W = r
    BY DEF BlockNumber
  <2> QED
    BY <1>1, <1>2, <2>1
<1> HIDE DEF W, i, j, r
<1>4. W * (j - i) = y - x
  BY <1>1, <1>2, <1>3
<1>5. j - i >= 1
  <2>1. ASSUME j - i <= 0 PROVE FALSE
    <3>1. W * (j - i) <= 0
      BY <1>1, <1>2, <2>1
    <3> QED
      BY <3>1, <1>4
  <2> QED
    BY <1>2, <2>1
<1>6. W * (j - i) >= W
  BY <1>1, <1>2, <1>5
<1> QED
  BY <1>1, <1>4, <1>6 DEF W

\* What is used of the constants.
LEMMA Bounds ==
  NumBlocks \in Nat /\ NumBlocks >= 1 /\ MaxLate \in Nat /\ WrapAt \in Nat /\ WrapAt >= MaxLate + 3
  BY XmodemAssumption

\* What a step does to the line and to the replies, element by element.
HeadTaken ==
  /\ Len(line) \in Nat /\ Len(line) >= 1 /\ Len(line') = Len(line) - 1 /\ line' \in Seq(Packets)
  /\ DOMAIN line = 1..Len(line) /\ DOMAIN line' = 1..(Len(line) - 1)
  /\ \A k \in 1..(Len(line) - 1) : line'[k] = line[k + 1]

Put(p) ==
  /\ Len(line) \in Nat /\ Len(line') = Len(line) + 1 /\ line' \in Seq(Packets)
  /\ DOMAIN line = 1..Len(line) /\ DOMAIN line' = 1..(Len(line) + 1)
  /\ \A k \in 1..Len(line) : line'[k] = line[k]
  /\ line'[Len(line) + 1] = p

Read(n) ==
  /\ Len(replies) \in Nat /\ n \in 1..Len(replies) /\ replies' \in Seq(Answers)
  /\ Len(replies') = Len(replies) - n
  /\ DOMAIN replies = 1..Len(replies) /\ DOMAIN replies' = 1..(Len(replies) - n)
  /\ \A k \in 1..(Len(replies) - n) : replies'[k] = replies[k + n]

\* x follows the replies, or is lost.
Answered(x) ==
  /\ Len(replies) \in Nat /\ Len(replies') \in Nat /\ replies' \in Seq(Answers)
  /\ DOMAIN replies = 1..Len(replies) /\ DOMAIN replies' = 1..Len(replies')
  /\ Len(replies) <= Len(replies') /\ Len(replies') <= Len(replies) + 1
  /\ \A k \in 1..Len(replies') :
       \/ k \in 1..Len(replies) /\ replies'[k] = replies[k]
       \/ k > Len(replies) /\ replies'[k] = x

LEMMA TakingHead ==
  ASSUME FileInv, line # <<>>, line' = Tail(line)
  PROVE  HeadTaken
BY TailAt DEF FileInv, LinkInv, TypeInv, HeadTaken

LEMMA HeadTakenLeaves ==
  ASSUME HeadTaken, NEW b, ~OnLine(b)
  PROVE  ~OnLine(b)'
<1> SUFFICES ASSUME NEW k \in DOMAIN line', line'[k].is = "block", line'[k].data = b PROVE FALSE
  BY DEF OnLine, Carries
<1>1. k + 1 \in DOMAIN line /\ line[k + 1] = line'[k]
  BY DEF HeadTaken
<1> QED
  BY <1>1 DEF OnLine, Carries

LEMMA Putting ==
  ASSUME FileInv, NEW p \in Packets, line' = Append(line, p)
  PROVE  Put(p)
<1>1. line \in Seq(Packets)
  BY DEF FileInv, LinkInv, TypeInv
<1> QED
  BY <1>1, AppendAt DEF Put

LEMMA Reading ==
  ASSUME FileInv, NEW n \in DOMAIN replies, Take(n)
  PROVE  Read(n)
<1>1. replies \in Seq(Answers) /\ n \in 1..Len(replies)
  BY DEF FileInv, Values
<1> QED
  BY <1>1, RestAt DEF Read, Take

LEMMA Answering ==
  ASSUME FileInv, NEW x \in Answers, replies' = replies \/ replies' = Append(replies, x)
  PROVE  Answered(x)
<1>1. replies \in Seq(Answers)
  BY DEF FileInv, Values
<1>2. CASE replies' = replies
  BY <1>1, <1>2 DEF Answered
<1>3. CASE replies' = Append(replies, x)
  BY <1>1, <1>3, AppendAt DEF Answered
<1> QED
  BY <1>2, <1>3

-----------------------------------------------------------------------------
(***************************************************************************)
(* The steps of the receiver.                                              *)
(***************************************************************************)
\* The next block is the one expected or the one before it, or a block is missing and the next
\* one is beyond it.
LEMMA NextBlock ==
  ASSUME FileInv, line # <<>>, line[1].is = "block"
  PROVE  /\ line[1] = Packet(line[1].data) /\ line[1].data \in Nat /\ Len(got) \in Nat
         /\ line[1].data >= 1 /\ line[1].data <= idx /\ idx \in Nat /\ line[1].data >= Len(got)
         /\ Complete => line[1].data \in {Len(got), Len(got) + 1}
         /\ \A m, a, f \in Nat : Missing(m, a, f) =>
              \/ line[1].data \in {Len(got), Len(got) + 1} /\ line[1].data < m
              \/ line[1].data > m /\ m = Len(got) + 1
<1> DEFINE d == line[1].data
           g == Len(got)
<1>1. /\ 1 \in DOMAIN line /\ g \in Nat /\ idx \in Nat
      /\ line[1] = Packet(d) /\ d \in Nat /\ d >= 1 /\ d <= idx /\ g <= d
  <2>1. Len(line) >= 1 /\ DOMAIN line = 1..Len(line) /\ Len(line) \in Nat
    BY TailAt DEF FileInv, LinkInv, TypeInv
  <2>2. g \in Nat /\ idx \in Nat
    BY Bounds DEF FileInv, Values, LinkInv, TypeInv
  <2> QED
    BY <2>1, <2>2 DEF FileInv, InOrder
<1>2. \A b \in Nat : OnLine(b) => d <= b
  <2> SUFFICES ASSUME NEW b \in Nat, NEW k \in DOMAIN line, line[k].is = "block", line[k].data = b
               PROVE  d <= b
    BY DEF OnLine, Carries
  <2>1. k = 1 \/ 1 < k
    BY <1>1, TailAt DEF FileInv, LinkInv, TypeInv
  <2> QED
    BY <1>1, <2>1 DEF FileInv, InOrder
<1>3. Complete => d \in {g, g + 1}
  <2> SUFFICES ASSUME Complete, d > g + 1 PROVE FALSE
    BY <1>1
  <2>1. g + 1 \in (g + 1)..(idx - 1)
    BY <1>1
  <2> QED
    BY <1>1, <1>2, <2>1 DEF Complete
<1>4. ASSUME NEW m \in Nat, NEW a \in Nat, NEW f \in Nat, Missing(m, a, f)
      PROVE  (d \in {g, g + 1} /\ d < m) \/ (d > m /\ m = g + 1)
  <2>1. d # m
    BY <1>1, <1>4 DEF Missing, GivenUp, OnLine, Carries
  <2>2. m >= g + 1 /\ \A b \in (g + 1)..(m - 1) : OnLine(b)
    BY <1>1, <1>4 DEF Missing, GivenUp
  <2>3. m > g + 1 => d <= g + 1
    <3> SUFFICES ASSUME m > g + 1 PROVE d <= g + 1
      OBVIOUS
    <3>1. g + 1 \in (g + 1)..(m - 1)
      BY <1>1
    <3> QED
      BY <1>1, <1>2, <2>2, <3>1
  <2> QED
    BY <1>1, <2>1, <2>2, <2>3
<1> QED
  BY <1>1, <1>3, <1>4

\* The receiver never takes a block for another with the same number.
LEMMA NumbersTell ==
  ASSUME FileInv, receiver = "receiving", line # <<>>, line[1].is = "block"
  PROVE  /\ Expected(line[1]) <=> line[1].data = Len(got) + 1
         /\ Repeated(line[1]) => line[1].data = Len(got)
         /\ line[1].data = Len(got) => Repeated(line[1])
<1> DEFINE d == line[1].data
           g == Len(got)
<1>1. /\ line[1].seq = BlockNumber(d) /\ d \in Nat /\ g \in Nat /\ idx \in Nat /\ d <= idx /\ d >= g
  BY NextBlock DEF Packet
<1>2. d \in {g, g + 1} \/ (d > g + 1 /\ d <= g + 1 + MaxLate + 1)
  <2>1. CASE Complete
    BY <2>1, NextBlock
  <2>2. ASSUME NEW m \in Nat, NEW a \in Nat, NEW f \in Nat, Missing(m, a, f)
        PROVE  d \in {g, g + 1} \/ (d > g + 1 /\ d <= g + 1 + MaxLate + 1)
    <3>1. idx - m <= late + 1 /\ late \in Nat /\ late <= MaxLate
      BY <2>2 DEF Missing, GivenUp, FileInv, Values
    <3> QED
      BY <1>1, <2>2, <3>1, NextBlock, Bounds
  <2> QED
    BY <2>1, <2>2 DEF FileInv, Drift
<1>3. BlockNumber(g) # BlockNumber(g + 1)
  BY <1>1, SameNumber, Bounds
<1>4. d > g + 1 => BlockNumber(d) # BlockNumber(g + 1) /\ BlockNumber(d) # BlockNumber(g)
  <2> SUFFICES ASSUME d > g + 1
               PROVE  BlockNumber(d) # BlockNumber(g + 1) /\ BlockNumber(d) # BlockNumber(g)
    OBVIOUS
  <2>1. g + 1 \in Nat /\ g + 1 < d /\ g < d /\ d <= g + 1 + MaxLate + 1
    BY <1>1, <1>2
  <2>2. BlockNumber(d) # BlockNumber(g + 1)
    BY <1>1, <2>1, SameNumber, Bounds
  <2>3. BlockNumber(d) # BlockNumber(g)
    BY <1>1, <2>1, SameNumber, Bounds
  <2> QED
    BY <2>2, <2>3
<1> HIDE DEF d, g
<1>5. Expected(line[1]) <=> d = g + 1
  BY <1>1, <1>2, <1>3, <1>4 DEF Expected, g
<1>6. Repeated(line[1]) <=> d = g
  BY <1>1, <1>2, <1>3, <1>4, <1>5 DEF Repeated, g
<1> QED
  BY <1>5, <1>6 DEF d, g

\* A packet is taken off the line while block m is missing, and x is what it is answered.
Passes(m, x) ==
  /\ UNCHANGED <<pc, idx, late>>
  /\ Len(got') = Len(got) \/ (Len(got') = Len(got) + 1 /\ line[1].is = "block" /\ line[1].data = Len(got) + 1)
  /\ line[1].is = "block" =>
       line[1].data <= Len(got') \/ (line[1].data > m /\ Len(got') = Len(got))
  /\ x = "ack" => line[1].is = "block" /\ line[1].data < m

\* What may still bring an ACK becomes no more by it.
LEMMA MissingTail ==
  ASSUME FileInv, NEW m \in Nat, NEW a \in Nat, NEW f \in Nat, Missing(m, a, f),
         HeadTaken, NEW x \in Answers, Answered(x), Passes(m, x)
  PROVE  \E a2, f2 \in Nat : Missing(m, a2, f2)'
<1>1. /\ Len(line) \in Nat /\ Len(line) >= 1 /\ Len(line') = Len(line) - 1
      /\ DOMAIN line' = 1..(Len(line) - 1) /\ DOMAIN line = 1..Len(line)
      /\ \A k \in 1..(Len(line) - 1) : line'[k] = line[k + 1]
  BY DEF HeadTaken
<1>2. /\ Len(replies) \in Nat /\ Len(replies') \in Nat
      /\ DOMAIN replies = 1..Len(replies) /\ DOMAIN replies' = 1..Len(replies')
      /\ Len(replies) <= Len(replies') /\ Len(replies') <= Len(replies) + 1
      /\ \A k \in 1..Len(replies') :
           \/ k \in 1..Len(replies) /\ replies'[k] = replies[k]
           \/ k > Len(replies) /\ replies'[k] = x
  BY DEF Answered
<1>3. Len(got) \in Nat /\ idx \in Nat /\ late \in Nat /\ pc' = pc /\ idx' = idx /\ late' = late
  BY Bounds DEF FileInv, Values, LinkInv, TypeInv, Passes
<1>31. /\ Len(got') = Len(got) \/ (Len(got') = Len(got) + 1 /\ line[1].is = "block" /\ line[1].data = Len(got) + 1)
       /\ line[1].is = "block" =>
            line[1].data <= Len(got') \/ (line[1].data > m /\ Len(got') = Len(got))
  BY DEF Passes
<1>32. \A k \in DOMAIN line : line[k].is = "block" => line[k].data \in Nat
  BY <1>3 DEF FileInv, InOrder
<1>4. m \in (Len(got') + 1)..(idx' - 1) /\ idx - m <= late + 1
  <2>1. m \in (Len(got) + 1)..(idx - 1) /\ ~OnLine(m) /\ idx - m <= late + 1
    BY DEF Missing, GivenUp
  <2>2. Len(got') = Len(got) + 1 => m # Len(got) + 1
    BY <1>1, <1>31, <2>1 DEF OnLine, Carries
  <2> QED
    BY <1>3, <1>31, <2>1, <2>2
<1>5. ~OnLine(m)'
  <2>1. ~OnLine(m)
    BY DEF Missing, GivenUp
  <2> QED
    BY <1>1, <2>1, HeadTakenLeaves
<1>6. \A b \in (Len(got') + 1)..(m - 1) : OnLine(b)'
  <2> SUFFICES ASSUME NEW b \in (Len(got') + 1)..(m - 1) PROVE OnLine(b)'
    OBVIOUS
  <2>1. OnLine(b)
    BY <1>3, <1>31 DEF Missing, GivenUp
  <2>2. PICK k \in 1..Len(line) : line[k].is = "block" /\ line[k].data = b
    BY <1>1, <2>1 DEF OnLine, Carries
  <2>3. k # 1
    BY <1>3, <1>31, <1>4, <2>2
  <2>4. k - 1 \in 1..(Len(line) - 1) /\ (k - 1) + 1 = k
    BY <1>1, <2>3
  <2> QED
    BY <1>1, <2>2, <2>4 DEF OnLine, Carries
<1>7. GivenUp(m)'
  BY <1>3, <1>4, <1>5, <1>6 DEF GivenUp
<1>8. ASSUME DataPhase, f > 0, NEW a2 \in Nat, a2 = Len(replies') PROVE Passing(m, a2, f - 1)'
  <2>1. /\ f <= Len(line) /\ a = Len(replies)
        /\ \A k \in DOMAIN line : k > f /\ line[k].is = "block" => line[k].data > m
        /\ (idx - m) + a + f <= late + 1
    BY <1>8 DEF Missing, Passing, InReach
  <2>2. \A k \in DOMAIN line' : k > f - 1 /\ line'[k].is = "block" => line'[k].data > m
    <3> SUFFICES ASSUME NEW k \in 1..(Len(line) - 1), k > f - 1, line[k + 1].is = "block"
                 PROVE  line[k + 1].data > m
      BY <1>1
    <3>1. k + 1 \in DOMAIN line /\ k + 1 > f
      BY <1>1
    <3> QED
      BY <2>1, <3>1
  <2>3. f - 1 <= Len(line')
    BY <1>1, <2>1
  <2>4. (idx - m) + a2 + (f - 1) <= late + 1
    BY <1>2, <1>3, <1>4, <1>8, <2>1
  <2>5. \A k \in DOMAIN replies' : ~(k > a2)
    BY <1>2, <1>8
  <2> QED
    BY <1>3, <1>8, <2>2, <2>3, <2>4, <2>5 DEF Passing, InReach
<1>9. ASSUME DataPhase, f = 0 PROVE Passing(m, a, 0)'
  <2>1. /\ a <= Len(replies)
        /\ \A k \in DOMAIN line : k > f /\ line[k].is = "block" => line[k].data > m
        /\ \A k \in DOMAIN replies : k > a => replies[k] # "ack"
        /\ (idx - m) + a + f <= late + 1
    BY <1>9 DEF Missing, Passing, InReach
  <2>2. \A k \in 1..Len(line) : line[k].is = "block" => line[k].data > m
    BY <1>1, <1>9, <2>1
  <2>3. x # "ack"
    <3>1. line[1].is = "block" => line[1].data > m /\ line[1].data \in Nat
      BY <1>1, <1>32, <2>2
    <3> QED
      BY <3>1 DEF Passes
  <2>4. \A k \in DOMAIN replies' : k > a => replies'[k] # "ack"
    BY <1>2, <2>1, <2>3
  <2>5. \A k \in DOMAIN line' : line'[k].is = "block" => line'[k].data > m
    <3> SUFFICES ASSUME NEW k \in 1..(Len(line) - 1), line[k + 1].is = "block"
                 PROVE  line[k + 1].data > m
      BY <1>1
    <3>1. k + 1 \in 1..Len(line)
      BY <1>1
    <3> QED
      BY <2>2, <3>1
  <2>6. (idx - m) + a + 0 <= late + 1 /\ a <= Len(replies') /\ 0 <= Len(line')
    BY <1>1, <1>2, <1>9, <2>1
  <2> QED
    BY <1>3, <2>4, <2>5, <2>6 DEF Passing, InReach
<1>10. CASE ~DataPhase
  <2>1. ~DataPhase'
    BY <1>3, <1>10 DEF DataPhase
  <2> QED
    BY <1>7, <2>1 DEF Missing
<1>11. CASE DataPhase /\ f > 0
  <2>1. PICK a2 \in Nat : a2 = Len(replies')
    BY <1>2
  <2>2. Missing(m, a2, f - 1)' /\ f - 1 \in Nat
    BY <1>7, <1>8, <1>11, <2>1 DEF Missing
  <2> QED
    BY <2>2
<1>12. CASE DataPhase /\ f = 0
  <2>1. Missing(m, a, 0)'
    BY <1>7, <1>9, <1>12 DEF Missing
  <2> QED
    BY <2>1
<1> QED
  BY <1>10, <1>11, <1>12

\* What the receiver does with the packet before it, and x what it answers.
Outcome(x) ==
  \/ receiver # "receiving" /\ x # "ack" /\ UNCHANGED <<got, receiver>>
  \/ /\ receiver = "receiving"
     /\ \/ /\ line[1].is = "block" /\ line[1].data = Len(got) + 1
           /\ got' = Append(got, Len(got) + 1) /\ UNCHANGED receiver
        \/ line[1].is = "block" /\ line[1].data = Len(got) /\ UNCHANGED <<got, receiver>>
        \/ line[1].is # "block" /\ x # "ack" /\ UNCHANGED <<got, receiver>>
        \/ line[1] = EOT /\ receiver' = "started" /\ UNCHANGED got
        \/ line[1] = CAN /\ x # "ack" /\ receiver' = "aborted" /\ UNCHANGED got
        \/ /\ line[1].is = "block" /\ line[1].data # Len(got) /\ line[1].data # Len(got) + 1
           /\ x # "ack" /\ UNCHANGED got /\ receiver' \in {"receiving", "aborted"}

LEMMA Receives ==
  ASSUME FileInv, Receive
  PROVE  /\ HeadTaken /\ line # <<>>
         /\ pc' = pc /\ idx' = idx /\ prompt' = prompt /\ late' = late
         /\ \E x \in Answers : Answered(x) /\ Outcome(x)
<1>1. line # <<>> /\ line' = Tail(line) /\ pc' = pc /\ idx' = idx /\ prompt' = prompt
  BY DEF Receive, sender
<1>2. HeadTaken
  BY <1>1, TakingHead
<1>3. Head(line) = line[1]
  BY <1>1, TailAt DEF FileInv, LinkInv, TypeInv
<1>4. ASSUME NEW r \in Answers, Reply(r)
      PROVE  Answered(r) /\ late' = late
  <2>1. replies' = replies \/ replies' = Append(replies, r)
    BY <1>4 DEF Reply
  <2> QED
    BY <1>4, <2>1, Answering DEF Reply, Fault
<1>5. ASSUME UNCHANGED replies
      PROVE  Answered("nak")
  BY <1>5, Answering DEF Answers
<1>6. {"ack", "nak", "can"} \subseteq Answers
  BY DEF Answers
<1>7. CASE receiver # "receiving" /\ UNCHANGED <<replies, got, receiver, faults, late>>
  <2>1. Answered("nak") /\ Outcome("nak")
    BY <1>5, <1>7 DEF Outcome
  <2> QED
    BY <1>1, <1>2, <1>6, <1>7, <2>1
<1>8. ASSUME receiver = "receiving", Expected(line[1]), got' = Append(got, line[1].data), Reply("ack"), UNCHANGED receiver
      PROVE  Answered("ack") /\ Outcome("ack") /\ late' = late
  <2>1. line[1].is = "block" /\ line[1].data = Len(got) + 1
    BY <1>1, <1>8, NumbersTell DEF Expected
  <2> QED
    BY <1>4, <1>6, <1>8, <2>1 DEF Outcome
<1>9. ASSUME receiver = "receiving", Repeated(line[1]), Reply("ack"), UNCHANGED <<got, receiver>>
      PROVE  Answered("ack") /\ Outcome("ack") /\ late' = late
  <2>1. line[1].is = "block" /\ line[1].data = Len(got)
    BY <1>1, <1>9, NumbersTell DEF Repeated
  <2> QED
    BY <1>4, <1>6, <1>9, <2>1 DEF Outcome
<1>10. ASSUME receiver = "receiving", line[1] = Noise, Reply("nak"), UNCHANGED <<got, receiver>>
       PROVE  Answered("nak") /\ Outcome("nak") /\ late' = late
  BY <1>4, <1>6, <1>10 DEF Outcome, Noise
<1>11. ASSUME receiver = "receiving", line[1] = EOT, Reply("ack"), receiver' = "started", UNCHANGED got
       PROVE  Answered("ack") /\ Outcome("ack") /\ late' = late
  BY <1>4, <1>6, <1>11 DEF Outcome
<1>12. ASSUME receiver = "receiving", line[1] = CAN, receiver' = "aborted", UNCHANGED <<replies, got, faults, late>>
       PROVE  Answered("nak") /\ Outcome("nak") /\ late' = late
  BY <1>5, <1>12 DEF Outcome
<1>13. ASSUME receiver = "receiving", line[1].is = "block", ~Expected(line[1]), ~Repeated(line[1]), UNCHANGED got,
              NEW r \in {"nak", "can"}, Reply(r), receiver' \in {"receiving", "aborted"}
       PROVE  Answered(r) /\ Outcome(r) /\ late' = late
  <2>1. line[1].data # Len(got) /\ line[1].data # Len(got) + 1
    BY <1>1, <1>13, NumbersTell
  <2> QED
    BY <1>4, <1>6, <1>13, <2>1 DEF Outcome
<1>14. CASE receiver = "receiving"
  <2>1. \E r \in {"ack", "nak", "can"} : Answered(r) /\ Outcome(r) /\ late' = late
    BY <1>3, <1>8, <1>9, <1>10, <1>11, <1>12, <1>13, <1>14 DEF Receive
  <2> QED
    BY <1>1, <1>2, <1>6, <2>1
<1> QED
  BY <1>7, <1>14 DEF Receive

LEMMA ReceiverOrder ==
  ASSUME FileInv, HeadTaken, line # <<>>, pc' = pc, idx' = idx, prompt' = prompt, late' = late,
         NEW x \in Answers, Answered(x), Outcome(x)
  PROVE  Values' /\ InPlace' /\ InOrder' /\ Surplus'
<1>1. /\ got \in Seq(Nat) /\ Len(got) \in Nat /\ DOMAIN got = 1..Len(got) /\ idx \in Nat
      /\ \A i \in 1..Len(got) : got[i] = i
  BY Bounds DEF FileInv, Values, InPlace, LinkInv, TypeInv
<1>2. \/ got' = got
      \/ got' = Append(got, Len(got) + 1) /\ line[1].is = "block" /\ line[1].data = Len(got) + 1
  BY DEF Outcome
<1>3. /\ got' \in Seq(Nat) /\ DOMAIN got' = 1..Len(got') /\ Len(got') \in Nat
      /\ \A i \in 1..Len(got') : got'[i] = i
      /\ \/ Len(got') = Len(got)
         \/ Len(got') = Len(got) + 1 /\ line[1].is = "block" /\ line[1].data = Len(got) + 1
  <2>1. CASE got' = got
    BY <1>1, <2>1
  <2>2. CASE got' = Append(got, Len(got) + 1) /\ line[1].is = "block" /\ line[1].data = Len(got) + 1
    <3>1. /\ Append(got, Len(got) + 1) \in Seq(Nat) /\ Len(Append(got, Len(got) + 1)) = Len(got) + 1
          /\ DOMAIN Append(got, Len(got) + 1) = 1..(Len(got) + 1)
          /\ \A i \in 1..Len(got) : Append(got, Len(got) + 1)[i] = got[i]
          /\ Append(got, Len(got) + 1)[Len(got) + 1] = Len(got) + 1
      BY <1>1, AppendAt
    <3>2. \A i \in 1..(Len(got) + 1) : i \in 1..Len(got) \/ i = Len(got) + 1
      BY <1>1
    <3> QED
      BY <1>1, <2>2, <3>1, <3>2
  <2> QED
    BY <1>2, <2>1, <2>2
<1>4. Values'
  <2>1. receiver' \in {"receiving", "started", "aborted"}
    BY DEF Outcome, FileInv, Values
  <2>2. replies' \in Seq(Answers)
    BY DEF Answered
  <2> QED
    BY <1>3, <2>1, <2>2 DEF FileInv, Values
<1>5. InPlace'
  BY <1>3 DEF InPlace
<1>6. /\ Len(got) <= idx
      /\ \A k \in 1..Len(line) : line[k].is = "block" =>
           line[k] = Packet(line[k].data) /\ line[k].data \in 1..idx /\ Len(got) <= line[k].data
      /\ \A j, k \in 1..Len(line) :
           j < k /\ line[j].is = "block" /\ line[k].is = "block" => line[j].data <= line[k].data
  BY DEF FileInv, InOrder, HeadTaken
<1>7. /\ Len(line) \in Nat /\ Len(line) >= 1 /\ DOMAIN line' = 1..(Len(line) - 1)
      /\ \A k \in 1..(Len(line) - 1) : line'[k] = line[k + 1]
  BY DEF HeadTaken
<1>8. InOrder'
  <2>0. line[1].is = "block" => line[1].data <= idx
    <3>1. 1 \in 1..Len(line)
      BY <1>7
    <3> QED
      BY <1>1, <1>6, <3>1
  <2>1. Len(got') <= idx
    <3>1. Len(got) <= idx
      BY <1>6
    <3> QED
      BY <1>1, <1>3, <2>0, <3>1
  <2>2. ASSUME NEW k \in 1..(Len(line) - 1), line[k + 1].is = "block"
        PROVE  /\ line[k + 1] = Packet(line[k + 1].data) /\ line[k + 1].data \in 1..idx
               /\ Len(got') <= line[k + 1].data
    <3>1. k + 1 \in 1..Len(line) /\ 1 \in 1..Len(line) /\ 1 < k + 1
      BY <1>7
    <3>2. /\ line[k + 1] = Packet(line[k + 1].data) /\ line[k + 1].data \in 1..idx
          /\ Len(got) <= line[k + 1].data
      BY <1>6, <2>2, <3>1
    <3>3. line[1].is = "block" => line[1].data <= line[k + 1].data
      BY <1>6, <2>2, <3>1
    <3> QED
      BY <1>3, <3>2, <3>3
  <2>3. ASSUME NEW j \in 1..(Len(line) - 1), NEW k \in 1..(Len(line) - 1),
               j < k, line[j + 1].is = "block", line[k + 1].is = "block"
        PROVE  line[j + 1].data <= line[k + 1].data
    <3>1. j + 1 \in 1..Len(line) /\ k + 1 \in 1..Len(line) /\ j + 1 < k + 1
      BY <1>7, <2>3
    <3> QED
      BY <1>6, <2>3, <3>1
  <2>4. \A k \in DOMAIN line' : line'[k].is = "block" =>
          line'[k] = Packet(line'[k].data) /\ line'[k].data \in 1..idx' /\ Len(got') <= line'[k].data
    BY <1>7, <2>2
  <2>5. \A j, k \in DOMAIN line' :
          j < k /\ line'[j].is = "block" /\ line'[k].is = "block" => line'[j].data <= line'[k].data
    <3> SUFFICES ASSUME NEW j \in DOMAIN line', NEW k \in DOMAIN line',
                        j < k, line'[j].is = "block", line'[k].is = "block"
                 PROVE  line'[j].data <= line'[k].data
      OBVIOUS
    <3>1. line'[j] = line[j + 1] /\ line'[k] = line[k + 1]
      BY <1>7
    <3> QED
      BY <1>7, <2>3, <3>1
  <2> QED
    BY <2>1, <2>4, <2>5 DEF InOrder, Packet, BlockNumber
<1>9. Surplus'
  BY DEF FileInv, Values, Surplus, DataPhase, HeadTaken, Answered
<1> QED
  BY <1>4, <1>5, <1>8, <1>9

LEMMA ReceiverDrift ==
  ASSUME FileInv, HeadTaken, line # <<>>, pc' = pc, idx' = idx, late' = late,
         NEW x \in Answers, Answered(x), Outcome(x)
  PROVE  Drift'
<1> SUFFICES ASSUME receiver' = "receiving"
             PROVE  Complete' \/ \E m, a, f \in Nat : Missing(m, a, f)'
  BY DEF Drift
<1>1. receiver = "receiving"
  BY DEF Outcome
<1>2. got \in Seq(Nat) /\ Len(got) \in Nat /\ idx \in Nat
  BY Bounds DEF FileInv, Values, LinkInv, TypeInv
<1>3. \/ line[1].is = "block" /\ line[1].data = Len(got) + 1 /\ Len(got') = Len(got) + 1
      \/ line[1].is = "block" /\ line[1].data = Len(got) /\ got' = got
      \/ line[1].is # "block" /\ x # "ack" /\ got' = got
      \/ /\ line[1].is = "block" /\ line[1].data # Len(got) /\ line[1].data # Len(got) + 1
         /\ x # "ack" /\ got' = got
  <2>1. Len(Append(got, Len(got) + 1)) = Len(got) + 1
    BY <1>2
  <2> QED
    BY <1>1, <2>1 DEF Outcome
<1>4. /\ line[1].is = "block" => line[1].data \in Nat
      /\ Complete /\ line[1].is = "block" => line[1].data \in {Len(got), Len(got) + 1}
      /\ \A m, a, f \in Nat : Missing(m, a, f) /\ line[1].is = "block" =>
           \/ line[1].data \in {Len(got), Len(got) + 1} /\ line[1].data < m
           \/ line[1].data > m /\ m = Len(got) + 1
  BY NextBlock
<1>5. CASE Complete
  <2>1. line[1].is = "block" => line[1].data <= Len(got')
    BY <1>2, <1>3, <1>4, <1>5
  <2>2. Len(got') \in Nat /\ Len(got') >= Len(got)
    BY <1>2, <1>3
  <2>3. ASSUME NEW b \in (Len(got') + 1)..(idx' - 1)
        PROVE  OnLine(b)'
    <3>1. b \in (Len(got) + 1)..(idx - 1)
      BY <1>2, <2>2
    <3>2. OnLine(b)
      BY <1>5, <3>1 DEF Complete
    <3>3. PICK k \in DOMAIN line : line[k].is = "block" /\ line[k].data = b
      BY <3>2 DEF OnLine, Carries
    <3>4. k # 1
      BY <1>2, <2>1, <2>2, <3>3
    <3>5. k - 1 \in DOMAIN line' /\ line'[k - 1] = line[k]
      BY <3>4 DEF HeadTaken
    <3> QED
      BY <3>3, <3>5 DEF OnLine, Carries
  <2>4. Complete'
    BY <2>3 DEF Complete
  <2> QED
    BY <2>4
<1>6. ASSUME NEW m \in Nat, NEW a \in Nat, NEW f \in Nat, Missing(m, a, f)
      PROVE  \E m2, a2, f2 \in Nat : Missing(m2, a2, f2)'
  <2>1. line[1].is = "block" =>
          \/ line[1].data \in {Len(got), Len(got) + 1} /\ line[1].data < m
          \/ line[1].data > m /\ m = Len(got) + 1
    BY <1>4, <1>6
  <2>2. line[1].is = "block" =>
          line[1].data <= Len(got') \/ (line[1].data > m /\ Len(got') = Len(got))
    BY <1>2, <1>3, <1>4, <2>1
  <2>3. x = "ack" => line[1].is = "block" /\ line[1].data < m
    BY <1>2, <1>3, <1>4, <2>1
  <2>4. Len(got') = Len(got) \/ (Len(got') = Len(got) + 1 /\ line[1].is = "block" /\ line[1].data = Len(got) + 1)
    BY <1>3
  <2>5. Passes(m, x)
    BY <2>2, <2>3, <2>4 DEF Passes
  <2> QED
    BY <1>6, <2>5, MissingTail
<1> QED
  BY <1>1, <1>5, <1>6 DEF FileInv, Drift

\* Against a prompt receiver no packet is out of order.
LEMMA ReceiverInStep ==
  ASSUME FileInv, HeadTaken, line # <<>>, pc' = pc, idx' = idx, prompt' = prompt, late' = late,
         NEW x \in Answers, Answered(x), Outcome(x)
  PROVE  InStep'
<1> SUFFICES ASSUME prompt
             PROVE  /\ receiver' = "aborted" => pc = "done" /\ idx <= NumBlocks
                    /\ DataPhase =>
                         /\ Len(got') >= idx - 1
                         /\ \A k \in DOMAIN line' : line'[k].is = "block" => line'[k].data = idx
                         /\ "ack" \in ToSet(replies') => Len(got') = idx
                    /\ idx > NumBlocks =>
                         /\ Len(got') = NumBlocks
                         /\ \A k \in DOMAIN line' : line'[k].is # "block"
  BY DEF FileInv, InStep, DataPhase
<1>1. /\ receiver = "aborted" => pc = "done" /\ idx <= NumBlocks
      /\ DataPhase =>
           /\ Len(got) >= idx - 1
           /\ \A k \in DOMAIN line : line[k].is = "block" => line[k].data = idx
           /\ "ack" \in ToSet(replies) => Len(got) = idx
      /\ idx > NumBlocks => Len(got) = NumBlocks /\ \A k \in DOMAIN line : line[k].is # "block"
  BY DEF FileInv, InStep
<1>2. /\ got \in Seq(Nat) /\ Len(got) \in Nat /\ idx \in Nat /\ Len(got) <= idx /\ NumBlocks \in Nat
      /\ pc \in {"send", "reply", "eot", "eotReply", "done"}
      /\ pc \in {"eot", "eotReply"} => idx > NumBlocks
      /\ DataPhase => idx <= NumBlocks
  BY Bounds DEF FileInv, Values, InOrder, LinkInv, TypeInv, OneEnding, DataPhase
<1>3. 1 \in DOMAIN line /\ \A k \in DOMAIN line' : k + 1 \in DOMAIN line /\ line'[k] = line[k + 1]
  BY DEF HeadTaken
<1>4. /\ line[1] = CAN => pc = "done" /\ idx <= NumBlocks
      /\ line[1] = EOT => idx > NumBlocks
  <2>1. line[1] \in ToSet(line)
    BY <1>3 DEF ToSet
  <2> QED
    BY <2>1 DEF FileInv, LinkInv, OneEnding
<1>5. Len(Append(got, Len(got) + 1)) = Len(got) + 1
  BY <1>2
<1>6. receiver' = "aborted" => pc = "done" /\ idx <= NumBlocks
  <2>1. receiver' = "aborted" =>
          \/ receiver = "aborted" \/ line[1] = CAN
          \/ line[1].is = "block" /\ line[1].data # Len(got) /\ line[1].data # Len(got) + 1
    BY DEF Outcome
  <2>2. ASSUME line[1].is = "block", line[1].data # Len(got), line[1].data # Len(got) + 1
        PROVE  pc = "done" /\ idx <= NumBlocks
    <3>1. ~(idx > NumBlocks)
      BY <1>1, <1>3, <2>2
    <3>2. ~DataPhase
      BY <1>1, <1>2, <1>3, <2>2
    <3> QED
      BY <1>2, <3>1, <3>2 DEF DataPhase
  <2> QED
    BY <1>1, <1>4, <2>1, <2>2
<1>7. ASSUME DataPhase
      PROVE  /\ Len(got') >= idx - 1
             /\ \A k \in DOMAIN line' : line'[k].is = "block" => line'[k].data = idx
             /\ "ack" \in ToSet(replies') => Len(got') = idx
  <2>1. \/ line[1].is = "block" /\ line[1].data = Len(got) + 1 /\ Len(got') = Len(got) + 1
        \/ line[1].is = "block" /\ line[1].data = Len(got) /\ got' = got
        \/ x # "ack" /\ got' = got
    BY <1>2, <1>4, <1>5, <1>7 DEF Outcome
  <2>2. Len(got') >= idx - 1 /\ (Len(got') # Len(got) => Len(got') = idx)
    BY <1>1, <1>2, <1>3, <1>7, <2>1
  <2>3. \A k \in DOMAIN line' : line'[k].is = "block" => line'[k].data = idx
    BY <1>1, <1>3, <1>7
  <2>4. "ack" \in ToSet(replies') => "ack" \in ToSet(replies) \/ x = "ack"
    BY DEF Answered, ToSet
  <2>5. "ack" \in ToSet(replies') => Len(got') = idx
    BY <1>1, <1>2, <1>3, <1>7, <2>1, <2>2, <2>4
  <2> QED
    BY <2>2, <2>3, <2>5
<1>8. ASSUME idx > NumBlocks
      PROVE  Len(got') = NumBlocks /\ \A k \in DOMAIN line' : line'[k].is # "block"
  <2>1. line[1].is # "block" => got' = got
    BY DEF Outcome
  <2> QED
    BY <1>1, <1>3, <1>8, <2>1
<1> QED
  BY <1>6, <1>7, <1>8

LEMMA ReceiverFile ==
  ASSUME FileInv, Receive
  PROVE  FileInv'
<1>1. LinkInv'
  BY ReceiverKeeps DEF FileInv
<1>2. /\ HeadTaken /\ line # <<>>
      /\ pc' = pc /\ idx' = idx /\ prompt' = prompt /\ late' = late
  BY Receives
<1>3. PICK x \in Answers : Answered(x) /\ Outcome(x)
  BY Receives
<1>4. Values' /\ InPlace' /\ InOrder' /\ Surplus'
  BY <1>2, <1>3, ReceiverOrder
<1>5. Drift' /\ InStep'
  BY <1>2, <1>3, ReceiverDrift, ReceiverInStep
<1> QED
  BY <1>1, <1>4, <1>5 DEF FileInv

-----------------------------------------------------------------------------
(***************************************************************************)
(* The steps of the sender.                                                *)
(***************************************************************************)
\* No deadline passes too early against a prompt receiver.
Later == late' \in Nat /\ late' <= MaxLate /\ late <= late' /\ (prompt => late' = late)

\* What the receiver keeps while the sender moves.
Aside == got' = got /\ receiver' = receiver /\ prompt' = prompt /\ replies' \in Seq(Answers)

\* The line keeps its blocks and gets no other.
SameBlocks ==
  /\ \A k \in DOMAIN line : k \in DOMAIN line' /\ line'[k] = line[k]
  /\ \A k \in DOMAIN line' : line'[k].is = "block" => k \in DOMAIN line

LEMMA OtherPut ==
  ASSUME NEW p, Put(p), p.is # "block"
  PROVE  SameBlocks
BY DEF Put, SameBlocks

LEMMA Loosens ==
  ASSUME NEW m \in Nat, NEW i \in Nat, NEW d \in Nat, NEW e \in Nat, d <= e, i - m <= d + 1
  PROVE  i - m <= e + 1
  OBVIOUS

LEMMA Room ==
  ASSUME NEW m \in Nat, NEW i \in Nat, NEW a \in Nat, NEW c \in Nat, NEW f \in Nat, NEW d \in Nat, NEW e \in Nat,
         (i - m) + a + f <= d + 1, c <= a, d <= e
  PROVE  (i - m) + c + f <= e + 1
  OBVIOUS

SameOnLine == \A b : OnLine(b)' <=> OnLine(b)

LEMMA StaysGivenUp ==
  ASSUME NEW m \in Nat, GivenUp(m), got' = got, idx' = idx, idx \in Nat,
         late \in Nat, late' \in Nat, late <= late', SameOnLine
  PROVE  GivenUp(m)'
<1>1. idx - m <= late + 1
  BY DEF GivenUp
<1>2. idx' - m <= late' + 1
  BY <1>1, Loosens
<1>3. m \in (Len(got') + 1)..(idx' - 1)
  BY DEF GivenUp
<1>4. ~OnLine(m)' /\ \A b \in (Len(got') + 1)..(m - 1) : OnLine(b)'
  BY DEF GivenUp, SameOnLine
<1> QED
  BY <1>2, <1>3, <1>4 DEF GivenUp

\* The data phase is left, or is over.
LEMMA Leaves ==
  ASSUME FileInv, ~DataPhase', idx' = idx, pc = "done" => pc' = "done", Aside, Later, SameBlocks
  PROVE  Values' /\ InPlace' /\ InOrder' /\ Surplus' /\ Drift' /\ InStep'
<1>1. got' = got /\ receiver' = receiver /\ prompt' = prompt /\ replies' \in Seq(Answers)
  BY DEF Aside
<1>2. late' \in Nat /\ late' <= MaxLate /\ late <= late' /\ (prompt => late' = late)
  BY DEF Later
<1>3. late \in Nat /\ idx \in Nat
  BY Bounds DEF FileInv, Values, LinkInv, TypeInv
<1>4. SameOnLine
  BY DEF SameOnLine, SameBlocks, OnLine, Carries
<1>5. Values'
  BY <1>1, <1>2 DEF FileInv, Values
<1>6. InPlace'
  BY <1>1 DEF FileInv, InPlace
<1>7. InOrder'
  BY <1>1 DEF FileInv, InOrder, SameBlocks, Packet, BlockNumber
<1>8. Surplus'
  BY DEF Surplus
<1>9. Drift'
  <2>1. Complete => Complete'
    BY <1>1, <1>4 DEF Complete, SameOnLine
  <2>2. ASSUME NEW m \in Nat, NEW a \in Nat, NEW f \in Nat, Missing(m, a, f)
        PROVE  Missing(m, a, f)'
    <3>1. GivenUp(m)'
      BY <1>1, <1>2, <1>3, <1>4, <2>2, StaysGivenUp DEF Missing
    <3> QED
      BY <3>1 DEF Missing
  <2> QED
    BY <1>1, <2>1, <2>2 DEF FileInv, Drift
<1>10. InStep'
  <2> SUFFICES ASSUME prompt
               PROVE  /\ late' = 0
                      /\ receiver' = "aborted" => pc' = "done" /\ idx <= NumBlocks
                      /\ idx > NumBlocks =>
                           /\ Len(got') = NumBlocks
                           /\ \A k \in DOMAIN line' : line'[k].is # "block"
    BY <1>1 DEF InStep
  <2>1. /\ late = 0
        /\ receiver = "aborted" => pc = "done" /\ idx <= NumBlocks
        /\ idx > NumBlocks => Len(got) = NumBlocks /\ \A k \in DOMAIN line : line[k].is # "block"
    BY DEF FileInv, InStep
  <2>2. idx > NumBlocks => \A k \in DOMAIN line' : line'[k].is # "block"
    BY <2>1 DEF SameBlocks
  <2> QED
    BY <1>1, <1>2, <2>1, <2>2
<1> QED
  BY <1>5, <1>6, <1>7, <1>8, <1>9, <1>10

LEMMA SendFile ==
  ASSUME FileInv, SendBlock
  PROVE  Values' /\ InPlace' /\ InOrder' /\ Surplus' /\ Drift' /\ InStep'
<1>1. /\ pc = "send" /\ pc' = "reply" /\ idx' = idx /\ got' = got /\ receiver' = receiver
      /\ replies' = replies /\ prompt' = prompt
  BY DEF SendBlock
<1>2. PICK p \in Packets : Put(p) /\ (p = Packet(idx) \/ p = Noise)
  <2>1. Packet(idx) \in Packets /\ Noise \in Packets
    BY PacketFacts DEF FileInv, LinkInv, TypeInv
  <2>2. line' = Append(line, Packet(idx)) \/ line' = Append(line, Noise)
    BY DEF SendBlock, Transmit
  <2> QED
    BY <2>1, <2>2, Putting
<1>3. late' = late
  BY DEF SendBlock, Transmit, Fault
<1>4. /\ idx \in Nat /\ idx >= 1 /\ idx <= NumBlocks /\ NumBlocks \in Nat /\ late \in Nat
      /\ Len(got) \in Nat /\ Len(replies) \in Nat
  BY <1>1, Bounds DEF FileInv, LinkInv, TypeInv, OneEnding, Values
<1>5. p.is = "block" => p = Packet(p.data) /\ p.data = idx
  BY <1>2 DEF Packet, Noise
<1>6. /\ Len(line) \in Nat /\ DOMAIN line = 1..Len(line) /\ DOMAIN line' = 1..(Len(line) + 1)
      /\ Len(line') = Len(line) + 1
      /\ \A k \in 1..(Len(line) + 1) :
           (k \in 1..Len(line) /\ line'[k] = line[k]) \/ (k = Len(line) + 1 /\ line'[k] = p)
  BY <1>2 DEF Put
<1>7. Values' /\ InPlace'
  BY <1>1, <1>3 DEF FileInv, Values, InPlace
<1>8. InOrder'
  <2>1. /\ Len(got) <= idx
        /\ \A k \in 1..Len(line) : line[k].is = "block" =>
             line[k] = Packet(line[k].data) /\ line[k].data \in 1..idx /\ Len(got) <= line[k].data
        /\ \A j, k \in 1..Len(line) :
             j < k /\ line[j].is = "block" /\ line[k].is = "block" => line[j].data <= line[k].data
    BY <1>6 DEF FileInv, InOrder
  <2>2. ASSUME NEW k \in DOMAIN line', line'[k].is = "block"
        PROVE  line'[k] = Packet(line'[k].data) /\ line'[k].data \in 1..idx' /\ Len(got') <= line'[k].data
    <3>1. CASE k \in 1..Len(line) /\ line'[k] = line[k]
      BY <1>1, <2>1, <2>2, <3>1
    <3>2. CASE line'[k] = p
      BY <1>1, <1>4, <1>5, <2>1, <2>2, <3>2
    <3> QED
      BY <1>6, <3>1, <3>2
  <2>3. ASSUME NEW j \in DOMAIN line', NEW k \in DOMAIN line',
               j < k, line'[j].is = "block", line'[k].is = "block"
        PROVE  line'[j].data <= line'[k].data
    <3>1. j \in 1..Len(line) /\ line'[j] = line[j]
      BY <1>6, <2>3
    <3>2. CASE k \in 1..Len(line) /\ line'[k] = line[k]
      BY <2>1, <2>3, <3>1, <3>2
    <3>3. CASE line'[k] = p
      BY <1>4, <1>5, <2>1, <2>3, <3>1, <3>3
    <3> QED
      BY <1>6, <3>2, <3>3
  <2> QED
    BY <1>1, <2>1, <2>2, <2>3 DEF InOrder, Packet, BlockNumber
<1>9. Surplus'
  BY <1>1, <1>3, <1>4, <1>6 DEF FileInv, Surplus, DataPhase
<1>10. \A b : OnLine(b) => OnLine(b)'
  BY <1>6 DEF OnLine, Carries
<1>11. Drift'
  <2>1. Complete => Complete'
    BY <1>1, <1>10 DEF Complete
  <2>2. ASSUME NEW m \in Nat, NEW a \in Nat, NEW f \in Nat, Missing(m, a, f)
        PROVE  Missing(m, a, f)'
    <3>1. /\ m \in (Len(got) + 1)..(idx - 1) /\ ~OnLine(m) /\ idx - m <= late + 1
          /\ \A b \in (Len(got) + 1)..(m - 1) : OnLine(b)
      BY <2>2 DEF Missing, GivenUp
    <3>2. ~OnLine(m)'
      BY <1>4, <1>5, <1>6, <3>1 DEF OnLine, Carries
    <3>3. GivenUp(m)'
      BY <1>1, <1>3, <1>10, <3>1, <3>2 DEF GivenUp
    <3>4. /\ f <= Len(line) /\ a <= Len(replies) /\ (f > 0 => a = Len(replies))
          /\ \A k \in DOMAIN line : k > f /\ line[k].is = "block" => line[k].data > m
          /\ \A k \in DOMAIN replies : k > a => replies[k] # "ack"
          /\ (idx - m) + a + f <= late + 1
      BY <1>1, <2>2 DEF Missing, Passing, InReach, DataPhase
    <3>5. \A k \in DOMAIN line' : k > f /\ line'[k].is = "block" => line'[k].data > m
      <4> SUFFICES ASSUME NEW k \in DOMAIN line', k > f, line'[k].is = "block" PROVE line'[k].data > m
        OBVIOUS
      <4>1. idx > m
        BY <1>4, <3>1
      <4>2. CASE k \in 1..Len(line) /\ line'[k] = line[k]
        BY <1>6, <3>4, <4>2
      <4>3. CASE line'[k] = p
        BY <1>5, <4>1, <4>3
      <4> QED
        BY <1>6, <4>2, <4>3
    <3>6. f <= Len(line')
      BY <1>6, <3>4
    <3>7. Passing(m, a, f)'
      BY <1>1, <1>3, <3>4, <3>5, <3>6 DEF Passing, InReach
    <3> QED
      BY <3>3, <3>7 DEF Missing
  <2> QED
    BY <1>1, <2>1, <2>2 DEF FileInv, Drift
<1>12. InStep'
  <2>1. ASSUME prompt
        PROVE  \A k \in DOMAIN line' : line'[k].is = "block" => line'[k].data = idx
    BY <1>1, <1>5, <1>6, <2>1 DEF FileInv, InStep, DataPhase
  <2> QED
    BY <1>1, <1>3, <1>4, <2>1 DEF FileInv, InStep, DataPhase
<1> QED
  BY <1>7, <1>8, <1>9, <1>11, <1>12

\* The first n answers are read, or none.
ReadUpTo(n) == (n = 0 /\ replies' = replies) \/ Read(n)

LEMMA AfterReading ==
  ASSUME FileInv, NEW n \in Nat, ReadUpTo(n)
  PROVE  /\ Len(replies) \in Nat /\ n <= Len(replies) /\ Len(replies') = Len(replies) - n
         /\ replies' \in Seq(Answers) /\ DOMAIN replies = 1..Len(replies)
         /\ \A k \in DOMAIN replies' : k \in Nat /\ k + n \in DOMAIN replies /\ replies'[k] = replies[k + n]
<1>1. replies \in Seq(Answers)
  BY DEF FileInv, Values
<1>2. CASE n = 0 /\ replies' = replies
  <2>1. /\ Len(replies) \in Nat /\ DOMAIN replies = 1..Len(replies)
        /\ \A k \in DOMAIN replies : k \in Nat /\ k + 0 = k
    BY <1>1
  <2> QED
    BY <1>1, <1>2, <2>1
<1>3. CASE Read(n)
  BY <1>3 DEF Read
<1> QED
  BY <1>2, <1>3 DEF ReadUpTo

\* The answers that are read cannot be waited for any more: what may still bring an ACK becomes
\* less by one at least, if there was an ACK among them.
LEMMA PassingRest ==
  ASSUME FileInv, NEW m \in Nat, NEW a \in Nat, NEW f \in Nat, InReach(m, a, f),
         NEW n \in Nat, ReadUpTo(n), line' = line
  PROVE  \E a2 \in Nat :
           InReach(m, a2, f)' /\ a2 <= a /\ ((\E k \in 1..n : replies[k] = "ack") => a2 + 1 <= a)
<1>1. /\ f <= Len(line) /\ a <= Len(replies) /\ (f > 0 => a = Len(replies))
      /\ \A k \in DOMAIN line : k > f /\ line[k].is = "block" => line[k].data > m
      /\ \A k \in DOMAIN replies : k > a => replies[k] # "ack"
  BY DEF InReach
<1>2. /\ Len(replies) \in Nat /\ n <= Len(replies) /\ Len(replies') = Len(replies) - n
      /\ DOMAIN replies = 1..Len(replies)
      /\ \A k \in DOMAIN replies' : k \in Nat /\ k + n \in DOMAIN replies /\ replies'[k] = replies[k + n]
  BY AfterReading
<1>3. (\E k \in 1..n : replies[k] = "ack") => n >= 1 /\ a >= 1
  <2> SUFFICES ASSUME NEW k \in 1..n, replies[k] = "ack"
               PROVE  n >= 1 /\ a >= 1
    OBVIOUS
  <2>1. k \in DOMAIN replies
    BY <1>2
  <2>2. ~(k > a)
    BY <1>1, <2>1
  <2> QED
    BY <2>2
<1>4. CASE n <= a
  <2>1. a - n \in Nat /\ a - n <= a /\ (n >= 1 => (a - n) + 1 <= a)
    BY <1>4
  <2>2. a - n <= Len(replies') /\ (f > 0 => a - n = Len(replies'))
    BY <1>1, <1>2, <2>1
  <2>3. \A k \in DOMAIN replies' : k > a - n => replies'[k] # "ack"
    <3> SUFFICES ASSUME NEW k \in DOMAIN replies', k > a - n PROVE replies'[k] # "ack"
      OBVIOUS
    <3>1. k \in Nat /\ k + n \in DOMAIN replies /\ replies'[k] = replies[k + n]
      BY <1>2
    <3>2. k + n > a
      BY <2>1, <3>1
    <3> QED
      BY <1>1, <3>1, <3>2
  <2> QED
    BY <1>1, <1>3, <2>1, <2>2, <2>3 DEF InReach
<1>5. CASE n > a
  <2>1. f = 0
    <3>1. (f > 0 => a = Len(replies)) /\ n <= Len(replies)
      BY <1>1, <1>2
    <3> QED
      BY <1>5, <3>1
  <2>2. 0 <= Len(replies') /\ 0 <= a /\ (a >= 1 => 0 + 1 <= a)
    BY <1>2
  <2>3. \A k \in DOMAIN replies' : replies'[k] # "ack"
    <3> SUFFICES ASSUME NEW k \in DOMAIN replies' PROVE replies'[k] # "ack"
      OBVIOUS
    <3>1. k \in Nat /\ k + n \in DOMAIN replies /\ replies'[k] = replies[k + n]
      BY <1>2
    <3>2. k + n > a
      BY <1>5, <3>1
    <3> QED
      BY <1>1, <3>1, <3>2
  <2> QED
    BY <1>1, <1>3, <2>1, <2>2, <2>3 DEF InReach
<1> QED
  BY <1>2, <1>4, <1>5

\* The sender goes on waiting for block idx, or sends it again.
LEMMA Stays ==
  ASSUME FileInv, pc = "reply", DataPhase', idx' = idx, line' = line, Aside, Later,
         NEW n \in Nat, ReadUpTo(n), Surplus'
  PROVE  Values' /\ InPlace' /\ InOrder' /\ Surplus' /\ Drift' /\ InStep'
<1>1. got' = got /\ receiver' = receiver /\ prompt' = prompt /\ replies' \in Seq(Answers)
  BY DEF Aside
<1>2. late' \in Nat /\ late' <= MaxLate /\ late <= late' /\ (prompt => late' = late)
  BY DEF Later
<1>3. late \in Nat /\ idx \in Nat /\ DataPhase /\ idx <= NumBlocks
  BY Bounds DEF FileInv, Values, LinkInv, TypeInv, OneEnding, DataPhase
<1>4. SameOnLine
  BY DEF SameOnLine, OnLine, Carries
<1>5. Values' /\ InPlace' /\ InOrder'
  BY <1>1, <1>2 DEF FileInv, Values, InPlace, InOrder, Packet, BlockNumber
<1>6. Drift'
  <2>1. Complete => Complete'
    BY <1>1, <1>4 DEF Complete, SameOnLine
  <2>2. ASSUME NEW m \in Nat, NEW a \in Nat, NEW f \in Nat, Missing(m, a, f)
        PROVE  \E a2 \in Nat : Missing(m, a2, f)'
    <3>1. GivenUp(m)'
      BY <1>1, <1>2, <1>3, <1>4, <2>2, StaysGivenUp DEF Missing
    <3>2. InReach(m, a, f) /\ (idx - m) + a + f <= late + 1
      BY <1>3, <2>2 DEF Missing, Passing
    <3>3. PICK a2 \in Nat : InReach(m, a2, f)' /\ a2 <= a
      BY <3>2, PassingRest
    <3>5. (idx' - m) + a2 + f <= late' + 1
      BY <1>2, <1>3, <3>2, <3>3, Room
    <3>6. Passing(m, a2, f)'
      BY <3>3, <3>5 DEF Passing
    <3> QED
      BY <3>1, <3>6 DEF Missing
  <2> QED
    BY <1>1, <2>1, <2>2 DEF FileInv, Drift
<1>7. InStep'
  <2>1. "ack" \in ToSet(replies') => "ack" \in ToSet(replies)
    BY AfterReading DEF ToSet
  <2>2. NumBlocks \in Nat
    BY Bounds
  <2> QED
    BY <1>1, <1>2, <1>3, <2>1, <2>2 DEF FileInv, InStep
<1> QED
  BY <1>5, <1>6, <1>7

\* An ACK takes the sender to the next block, whichever packet it answered.
LEMMA Accepts ==
  ASSUME FileInv, pc = "reply", Accept, Aside, late' = late,
         NEW n \in Nat, Read(n), \E k \in 1..n : replies[k] = "ack"
  PROVE  Values' /\ InPlace' /\ InOrder' /\ Surplus' /\ Drift' /\ InStep'
<1>1. got' = got /\ receiver' = receiver /\ prompt' = prompt /\ replies' \in Seq(Answers)
  BY DEF Aside
<1>2. /\ late \in Nat /\ late <= MaxLate /\ idx \in Nat /\ idx >= 1 /\ idx <= NumBlocks /\ NumBlocks \in Nat
      /\ Len(got) \in Nat /\ Len(got) <= idx
  BY Bounds DEF FileInv, Values, InOrder, LinkInv, TypeInv, OneEnding
<1>3. idx' = idx + 1 /\ line' = line /\ (DataPhase' => pc' = "send" /\ idx < NumBlocks)
  BY <1>2 DEF Accept, DataPhase
<1>4. /\ Len(line) \in Nat /\ Len(line) + Len(replies) <= late + 1
      /\ Len(replies) \in Nat /\ n >= 1 /\ n <= Len(replies)
      /\ Len(replies') = Len(replies) - n /\ Len(replies') \in Nat
  <2>1. line \in Seq(Packets)
    BY DEF FileInv, LinkInv, TypeInv
  <2>2. Len(line) + Len(replies) <= late + 1
    BY DEF FileInv, Surplus, DataPhase
  <2> QED
    BY <2>1, <2>2 DEF Read
<1>5. SameOnLine
  BY <1>3 DEF SameOnLine, OnLine, Carries
<1>6. Values' /\ InPlace'
  BY <1>1 DEF FileInv, Values, InPlace
<1>7. InOrder'
  BY <1>1, <1>2, <1>3 DEF FileInv, InOrder, Packet, BlockNumber
<1>8. Surplus'
  <2>1. Len(line) + Len(replies') <= late + 0
    BY <1>2, <1>4
  <2> QED
    BY <1>3, <2>1 DEF Surplus
<1>9. ASSUME Complete, idx <= Len(got) \/ OnLine(idx)
      PROVE  Complete'
  <2>1. ASSUME NEW b \in (Len(got) + 1)..idx
        PROVE  OnLine(b)
    <3>1. b \in (Len(got) + 1)..(idx - 1) \/ b = idx
      BY <1>2
    <3> QED
      BY <1>2, <1>9, <3>1 DEF Complete
  <2> QED
    BY <1>1, <1>2, <1>3, <1>5, <2>1 DEF Complete, SameOnLine
<1>10. ASSUME Complete, ~(idx <= Len(got) \/ OnLine(idx)), NEW m \in Nat, m = idx,
              NEW a2 \in Nat, a2 = Len(replies'), NEW f2 \in Nat, f2 = Len(line)
       PROVE  Missing(m, a2, f2)'
  <2>1. m \in (Len(got) + 1)..((idx + 1) - 1) /\ (idx + 1) - m = 1
    BY <1>2, <1>10
  <2>2. ~OnLine(m) /\ \A b \in (Len(got) + 1)..(m - 1) : OnLine(b)
    BY <1>10 DEF Complete
  <2>3. ~OnLine(m)' /\ \A b \in (Len(got) + 1)..(m - 1) : OnLine(b)'
    BY <1>5, <2>2 DEF SameOnLine
  <2>5. 1 <= late + 1 /\ 1 + a2 + f2 <= late + 1
    BY <1>2, <1>4, <1>10
  <2>7. GivenUp(m)'
    BY <1>1, <1>3, <2>1, <2>3, <2>5 DEF GivenUp
  <2>8. InReach(m, a2, f2)'
    <3>1. \A k \in DOMAIN line' : ~(k > f2)
      BY <1>3, <1>10 DEF FileInv, LinkInv, TypeInv
    <3>2. \A k \in DOMAIN replies' : ~(k > a2)
      BY <1>1, <1>10
    <3> QED
      BY <1>3, <1>4, <1>10, <3>1, <3>2 DEF InReach
  <2>9. (idx' - m) + a2 + f2 <= late' + 1
    BY <1>3, <2>1, <2>5
  <2> QED
    BY <2>7, <2>8, <2>9 DEF Missing, Passing
<1>11. ASSUME NEW m \in Nat, NEW a \in Nat, NEW f \in Nat, Missing(m, a, f)
       PROVE  \E a2 \in Nat : Missing(m, a2, f)'
  <2>1. InReach(m, a, f) /\ (idx - m) + a + f <= late + 1
    BY <1>11 DEF Missing, Passing, DataPhase
  <2>2. PICK a2 \in Nat : InReach(m, a2, f)' /\ a2 + 1 <= a
    BY <1>3, <2>1, PassingRest DEF ReadUpTo
  <2>3. m \in (Len(got) + 1)..(idx - 1) /\ ~OnLine(m) /\ \A b \in (Len(got) + 1)..(m - 1) : OnLine(b)
    BY <1>11 DEF Missing, GivenUp
  <2>4. ((idx + 1) - m) + a2 + f <= late + 1 /\ (idx + 1) - m <= late + 1
    BY <1>2, <2>1, <2>2
  <2>5. m \in (Len(got) + 1)..((idx + 1) - 1)
    BY <1>2, <2>3
  <2>6. GivenUp(m)'
    BY <1>1, <1>3, <1>5, <2>3, <2>4, <2>5 DEF GivenUp, SameOnLine
  <2>7. Passing(m, a2, f)'
    BY <1>3, <2>2, <2>4 DEF Passing
  <2> QED
    BY <2>6, <2>7 DEF Missing
<1>12. Drift'
  <2>1. receiver = "receiving" => Complete' \/ \E m, a, f \in Nat : Missing(m, a, f)'
    <3>1. Len(replies') \in Nat /\ Len(line) \in Nat /\ idx \in Nat
      BY <1>2, <1>4
    <3>2. Complete => Complete' \/ \E m, a, f \in Nat : Missing(m, a, f)'
      BY <1>9, <1>10, <3>1
    <3> QED
      BY <1>11, <3>2 DEF FileInv, Drift
  <2> QED
    BY <1>1, <2>1 DEF Drift
<1>13. InStep'
  <2> SUFFICES ASSUME prompt
               PROVE  InStep'
    BY <1>1 DEF InStep
  <2>1. /\ late = 0 /\ (receiver = "aborted" => pc = "done")
        /\ "ack" \in ToSet(replies) => Len(got) = idx
    BY DEF FileInv, InStep, DataPhase
  <2>2. "ack" \in ToSet(replies)
    <3>1. \A k \in 1..n : k \in DOMAIN replies
      BY DEF Read
    <3> QED
      BY <3>1 DEF ToSet
  <2>3. Len(line) = 0 /\ Len(replies') = 0
    BY <1>4, <2>1
  <2>4. DOMAIN line = {} /\ ToSet(replies') = {}
    <3>1. line \in Seq(Packets)
      BY DEF FileInv, LinkInv, TypeInv
    <3> QED
      BY <1>1, <2>3, <3>1 DEF ToSet
  <2>5. idx + 1 > NumBlocks => idx = NumBlocks
    BY <1>2
  <2> QED
    BY <1>1, <1>2, <1>3, <2>1, <2>2, <2>4, <2>5 DEF InStep
<1> QED
  BY <1>6, <1>7, <1>8, <1>12, <1>13

\* The receiver's timer makes up for the answer it adds.
LEMMA TimerFile ==
  ASSUME FileInv, TimerReply
  PROVE  Values' /\ InPlace' /\ InOrder' /\ Surplus' /\ Drift' /\ InStep'
<1>1. /\ pc' = pc /\ idx' = idx /\ line' = line /\ got' = got /\ receiver' = receiver /\ prompt' = prompt
      /\ ~prompt /\ late' = late + 1 /\ late < MaxLate
  BY DEF TimerReply, Late, sender
<1>2. PICK x \in {"C", "nak"} : replies' = Append(replies, x)
  BY DEF TimerReply
<1>3. /\ replies \in Seq(Answers) /\ x \in Answers /\ late \in Nat /\ MaxLate \in Nat /\ idx \in Nat
      /\ Len(line) \in Nat
  BY Bounds DEF FileInv, Values, Answers, LinkInv, TypeInv
<1>4. /\ replies' \in Seq(Answers) /\ Len(replies) \in Nat /\ Len(replies') = Len(replies) + 1
      /\ DOMAIN replies = 1..Len(replies) /\ DOMAIN replies' = 1..(Len(replies) + 1)
      /\ \A k \in 1..(Len(replies) + 1) :
           (k \in 1..Len(replies) /\ replies'[k] = replies[k]) \/ (k = Len(replies) + 1 /\ replies'[k] = x)
  BY <1>2, <1>3, AppendAt
<1>5. late' \in Nat /\ late' <= MaxLate /\ late <= late'
  BY <1>1, <1>3
<1>6. Values' /\ InPlace' /\ InOrder'
  BY <1>1, <1>4, <1>5 DEF FileInv, Values, InPlace, InOrder, Packet, BlockNumber
<1>7. Surplus'
  <2>1. DataPhase => Len(line) + (Len(replies) + 1) <= (late + 1) + (IF pc = "reply" THEN 1 ELSE 0)
    BY <1>3, <1>4 DEF FileInv, Surplus
  <2> QED
    BY <1>1, <1>4, <2>1 DEF Surplus, DataPhase
<1>8. SameOnLine
  BY <1>1 DEF SameOnLine, OnLine, Carries
<1>9. ASSUME NEW m \in Nat, NEW a \in Nat, NEW f \in Nat, Missing(m, a, f)
      PROVE  \E a2 \in Nat : Missing(m, a2, f)'
  <2>1. GivenUp(m)'
    BY <1>1, <1>3, <1>5, <1>8, <1>9, StaysGivenUp DEF Missing
  <2>2. DataPhase => InReach(m, a, f) /\ (idx - m) + a + f <= late + 1
    BY <1>9 DEF Missing, Passing
  <2>3. ASSUME InReach(m, a, f)
        PROVE  \E a2 \in Nat : InReach(m, a2, f)' /\ a2 <= a + 1
    <3>1. /\ f <= Len(line) /\ a <= Len(replies) /\ (f > 0 => a = Len(replies))
          /\ \A k \in DOMAIN line : k > f /\ line[k].is = "block" => line[k].data > m
          /\ \A k \in DOMAIN replies : k > a => replies[k] # "ack"
      BY <2>3 DEF InReach
    <3>2. \A k \in DOMAIN replies' : k > a => replies'[k] # "ack"
      BY <1>2, <1>4, <3>1
    <3>3. CASE f = 0
      <4>1. a <= Len(replies')
        <5>1. a <= Len(replies) /\ Len(replies) \in Nat
          BY <1>4, <3>1
        <5> QED
          BY <1>4, <5>1
      <4>2. InReach(m, a, f)'
        BY <1>1, <3>1, <3>2, <3>3, <4>1 DEF InReach
      <4> QED
        BY <4>2
    <3>4. CASE f > 0
      <4>1. PICK a2 \in Nat : a2 = a + 1
        OBVIOUS
      <4>2. a2 = Len(replies')
        BY <1>4, <3>1, <3>4, <4>1
      <4>3. \A k \in DOMAIN replies' : k > a2 => replies'[k] # "ack"
        BY <1>4, <4>2
      <4>4. InReach(m, a2, f)'
        BY <1>1, <1>4, <3>1, <4>2, <4>3 DEF InReach
      <4> QED
        BY <4>1, <4>4
    <3> QED
      BY <3>3, <3>4
  <2>4. CASE DataPhase
    <3>1. PICK a2 \in Nat : InReach(m, a2, f)' /\ a2 <= a + 1
      BY <2>2, <2>3, <2>4
    <3>2. (idx - m) + a2 + f <= (late + 1) + 1
      BY <1>3, <2>2, <2>4, <3>1
    <3>3. Passing(m, a2, f)'
      BY <1>1, <3>1, <3>2 DEF Passing
    <3> QED
      BY <2>1, <3>3 DEF Missing
  <2>5. CASE ~DataPhase
    BY <1>1, <2>1, <2>5 DEF Missing, DataPhase
  <2> QED
    BY <2>4, <2>5
<1>10. Drift'
  <2>1. Complete => Complete'
    BY <1>1, <1>8 DEF Complete, SameOnLine
  <2> QED
    BY <1>1, <1>9, <2>1 DEF FileInv, Drift
<1>11. InStep'
  BY <1>1 DEF InStep
<1> QED
  BY <1>6, <1>7, <1>10, <1>11

LEMMA SameLine ==
  ASSUME line' = line
  PROVE  SameBlocks
BY DEF SameBlocks

LEMMA AbortFile ==
  ASSUME FileInv, NEW r, Abort(r), Aside, Later
  PROVE  Values' /\ InPlace' /\ InOrder' /\ Surplus' /\ Drift' /\ InStep'
<1>1. line' = Append(line, CAN) /\ pc' = "done" /\ idx' = idx
  BY DEF Abort, End
<1>2. Put(CAN)
  BY <1>1, Putting, PacketFacts
<1>3. SameBlocks
  BY <1>2, OtherPut DEF CAN
<1> QED
  BY <1>1, <1>3, Leaves DEF DataPhase

LEMMA SenderFile ==
  ASSUME FileInv, Sender \/ PortFails
  PROVE  FileInv'
<1>1. SUFFICES Values' /\ InPlace' /\ InOrder' /\ Surplus' /\ Drift' /\ InStep'
  BY SenderKeeps DEF FileInv
<1>2. /\ replies \in Seq(Answers) /\ late \in Nat /\ late <= MaxLate /\ MaxLate \in Nat
      /\ Len(line) \in Nat /\ Len(replies) \in Nat
  BY Bounds DEF FileInv, Values, LinkInv, TypeInv
<1>3. got' = got /\ receiver' = receiver /\ prompt' = prompt
  BY DEF Sender, SendBlock, StopAtBlock, ReadReply, ReplyTimeout, SendEot, ReadEotReply, EotTimeout, PortFails
<1>4. replies' = replies => Aside
  BY <1>2, <1>3 DEF Aside
<1>5. late' = late => Later
  BY <1>2 DEF Later
<1>6. Late => Later /\ late' = late + 1
  BY <1>2 DEF Later, Late
<1>7. ASSUME NEW n \in DOMAIN replies, Take(n)
      PROVE  Aside /\ n \in Nat /\ Read(n) /\ Len(replies') = Len(replies) - n /\ n >= 1
  <2>1. Read(n)
    BY <1>7, Reading
  <2> QED
    BY <1>3, <2>1 DEF Aside, Read
<1>8. CASE SendBlock
  BY <1>8, SendFile
<1>9. CASE StopAtBlock
  <2>1. Abort("cancelled") /\ replies' = replies /\ late' = late
    BY <1>9 DEF StopAtBlock
  <2> QED
    BY <1>4, <1>5, <2>1, AbortFile
<1>10. CASE ReadReply
  <2>1. pc = "reply" /\ late' = late /\ Later
    BY <1>5, <1>10 DEF ReadReply
  <2>2. Len(line) + Len(replies) <= late + 1
    BY <2>1 DEF FileInv, Surplus, DataPhase
  <2>3. PICK n \in DOMAIN replies :
          LET d == SubSeq(replies, 1, n) IN
          /\ Take(n)
          /\ \/ Says(d, "ack") /\ Accept
             \/ Says(d, "can") /\ Abort("failed")
             \/ SaysNothing(d) /\ ToSet(d) \cap {"nak", "C"} # {} /\ RetryBlock
             \/ ToSet(d) = {"text"} /\ UNCHANGED <<sender, line>>
    BY <1>10 DEF ReadReply
  <2>4. Aside /\ n \in Nat /\ Read(n) /\ ReadUpTo(n) /\ Len(replies') = Len(replies) - n /\ n >= 1
    BY <1>7, <2>3 DEF ReadUpTo
  <2>5. Len(line) + Len(replies') <= late
    BY <1>2, <2>2, <2>4
  <2>6. ASSUME Says(SubSeq(replies, 1, n), "ack"), Accept
        PROVE  Values' /\ InPlace' /\ InOrder' /\ Surplus' /\ Drift' /\ InStep'
    <3>1. n \in 1..Len(replies)
      BY <1>2, <2>3
    <3>2. \E k \in 1..n : replies[k] = "ack"
      <4>1. DOMAIN SubSeq(replies, 1, n) = 1..n /\ \A k \in 1..n : SubSeq(replies, 1, n)[k] = replies[k]
        BY <1>2, <3>1
      <4> QED
        BY <2>6, <4>1 DEF Says
    <3> QED
      BY <2>1, <2>4, <2>6, <3>2, Accepts
  <2>7. ASSUME Abort("failed")
        PROVE  Values' /\ InPlace' /\ InOrder' /\ Surplus' /\ Drift' /\ InStep'
    BY <2>1, <2>4, <2>7, AbortFile
  <2>8. ASSUME pc' \in {"send", "reply"}, idx' = idx, line' = line
        PROVE  Values' /\ InPlace' /\ InOrder' /\ Surplus' /\ Drift' /\ InStep'
    <3>1. Surplus'
      BY <1>2, <2>1, <2>5, <2>8 DEF Surplus
    <3> QED
      BY <2>1, <2>4, <2>8, <3>1, Stays DEF DataPhase
  <2>9. RetryBlock => Abort("failed") \/ (pc' \in {"send", "reply"} /\ idx' = idx /\ line' = line)
    BY DEF RetryBlock
  <2>10. UNCHANGED <<sender, line>> => pc' \in {"send", "reply"} /\ idx' = idx /\ line' = line
    BY <2>1 DEF sender
  <2> QED
    BY <2>3, <2>6, <2>7, <2>8, <2>9, <2>10
<1>11. CASE ReplyTimeout
  <2>1. pc = "reply" /\ replies' = replies /\ RetryBlock /\ Aside
    BY <1>4, <1>11 DEF ReplyTimeout
  <2>2. Later /\ ((line = <<>> /\ replies = <<>> /\ late' = late) \/ late' = late + 1)
    BY <1>5, <1>6, <1>11 DEF ReplyTimeout
  <2>3. CASE Abort("failed")
    BY <2>1, <2>2, <2>3, AbortFile
  <2>4. CASE pc' = "send" /\ idx' = idx /\ line' = line
    <3>1. Len(line) + Len(replies) <= late + 1
      BY <2>1 DEF FileInv, Surplus, DataPhase
    <3>2. Len(line) + Len(replies) <= late'
      BY <1>2, <2>2, <3>1
    <3>3. Surplus'
      BY <1>2, <2>1, <2>2, <2>4, <3>2 DEF Surplus
    <3>4. ReadUpTo(0) /\ 0 \in Nat
      BY <2>1 DEF ReadUpTo
    <3> QED
      BY <2>1, <2>2, <2>4, <3>3, <3>4, Stays DEF DataPhase
  <2> QED
    BY <2>1, <2>3, <2>4 DEF RetryBlock
<1>12. CASE SendEot
  <2>1. pc = "eot" /\ pc' = "eotReply" /\ idx' = idx /\ Aside
    BY <1>4, <1>12 DEF SendEot
  <2>2. late' = late /\ (line' = Append(line, EOT) \/ line' = Append(line, Noise))
    BY <1>12 DEF SendEot, Transmit, Fault
  <2>3. SameBlocks
    <3>1. Put(EOT) \/ Put(Noise)
      BY <2>2, Putting, PacketFacts
    <3> QED
      BY <3>1, OtherPut DEF EOT, Noise
  <2> QED
    BY <1>5, <2>1, <2>2, <2>3, Leaves DEF DataPhase
<1>13. CASE ReadEotReply
  <2>1. pc = "eotReply" /\ late' = late /\ line' = line /\ Aside
    BY <1>7, <1>13 DEF ReadEotReply
  <2>2. idx' = idx /\ pc' \in {"done", "eot"}
    BY <1>13 DEF ReadEotReply, End
  <2> QED
    BY <1>5, <2>1, <2>2, SameLine, Leaves DEF DataPhase
<1>14. CASE EotTimeout
  <2>1. pc' = "done" /\ idx' = idx /\ line' = line /\ Aside /\ Later
    BY <1>4, <1>5, <1>6, <1>14 DEF EotTimeout, End
  <2> QED
    BY <2>1, SameLine, Leaves DEF DataPhase
<1>15. CASE PortFails
  <2>1. replies' = replies /\ late' = late
    BY <1>15 DEF PortFails
  <2>2. CASE Abort("failed")
    BY <1>4, <1>5, <2>1, <2>2, AbortFile
  <2>3. CASE End("failed") /\ UNCHANGED line
    <3>1. pc' = "done" /\ idx' = idx /\ line' = line
      BY <2>3 DEF End
    <3> QED
      BY <1>4, <1>5, <2>1, <3>1, SameLine, Leaves DEF DataPhase
  <2> QED
    BY <1>15, <2>2, <2>3 DEF PortFails
<1> QED
  BY <1>8, <1>9, <1>10, <1>11, <1>12, <1>13, <1>14, <1>15 DEF Sender

LEMMA InitiallyFile ==
  ASSUME Init
  PROVE  FileInv
<1>1. LinkInv
  BY Initially
<1>2. Len(line) = 0 /\ Len(replies) = 0 /\ Len(got) = 0 /\ DOMAIN line = {} /\ DOMAIN got = {} /\ ToSet(replies) = {}
  BY DEF Init, ToSet
<1>3. Values /\ InPlace /\ InOrder /\ Surplus /\ InStep
  BY <1>2, Bounds DEF Init, Values, InPlace, InOrder, Surplus, InStep, DataPhase
<1>4. Complete
  BY <1>2 DEF Init, Complete
<1> QED
  BY <1>1, <1>3, <1>4 DEF FileInv, Drift

\* The receiver holds the beginning of the file, for every file length, however many packets and
\* replies are damaged, and as long as fewer deadlines and timers fire than the numbers tell
\* apart; and it holds all of it if it answers once and in time.
THEOREM ReceivedAlwaysFile == Spec => []ReceivedIsFile
<1>1. FileInv /\ [Next]_vars => FileInv'
  <2> SUFFICES ASSUME FileInv, [Next]_vars PROVE FileInv'
    OBVIOUS
  <2>1. CASE Sender \/ PortFails
    BY <2>1, SenderFile
  <2>2. CASE Receive
    BY <2>2, ReceiverFile
  <2>3. CASE TimerReply
    <3>1. LinkInv'
      BY <2>3 DEF FileInv, LinkInv, TypeInv, OneEnding, TimerReply, sender
    <3> QED
      BY <2>3, <3>1, TimerFile DEF FileInv
  <2>4. CASE StagePrints
    <3>1. /\ pc = "eotReply" /\ pc' = pc /\ idx' = idx /\ line' = line /\ late' = late /\ result' = result
          /\ got' = got /\ receiver' = receiver /\ prompt' = prompt /\ replies' = Append(replies, "text")
      BY <2>4 DEF StagePrints, sender
    <3>2. LinkInv'
      BY <3>1 DEF FileInv, LinkInv, TypeInv, OneEnding
    <3>3. replies \in Seq(Answers) /\ "text" \in Answers /\ late \in Nat /\ late <= MaxLate
      BY DEF FileInv, Values, Answers
    <3>4. Append(replies, "text") \in Seq(Answers)
      BY <3>3, AppendAt
    <3>5. Aside /\ Later
      BY <3>1, <3>3, <3>4 DEF Aside, Later
    <3> QED
      BY <3>1, <3>2, <3>5, SameLine, Leaves DEF DataPhase, FileInv
  <2>5. CASE UNCHANGED <<sender, line, replies, got, receiver, prompt, late>>
    BY <2>5 DEF FileInv, LinkInv, TypeInv, OneEnding, Values, InPlace, InOrder, Surplus, Drift, Complete,
                Missing, GivenUp, Passing, InReach, InStep, DataPhase, OnLine, Carries, Packet, BlockNumber, sender
  <2>6. RequestStop \/ UNCHANGED vars => UNCHANGED <<sender, line, replies, got, receiver, prompt, late>>
    BY DEF RequestStop, vars
  <2> QED
    BY <2>1, <2>2, <2>3, <2>4, <2>5, <2>6 DEF Next
<1>2. FileInv => ReceivedIsFile
  BY DEF FileInv, InPlace, InStep, ReceivedIsFile
<1> QED
  BY <1>1, <1>2, InitiallyFile, PTL DEF Spec

(***************************************************************************)
(* The caller: a RAM U-Boot on a device that changes its stage by itself.  *)
(* The stage is known from the text that was heard (Journey); STOP waits   *)
(* where nobody has heard of the stage yet (HandOver), the last of them    *)
(* by its prompt (Prompted); and only the right images lead to a U-Boot    *)
(* (Loaded).                                                               *)
(***************************************************************************)
CONSTANTS Escapes, Breaks, MaxResets
VARIABLES place, preferred, phase, tail, lastX, warm, sent, wish, mode, keys, text, losses

Boot == INSTANCE RamBoot WITH pc <- place, line <- text, stop <- wish, faults <- losses

Markers == SoCs \cup {"press", "C", "fipStage", "banner", "menu", "prompt", "erase", "kernel"}

BootTypes ==
  /\ text \in Seq(Markers) /\ taken \in Seq({"romX", "bl2X"} \X {"preloader", "fip"})
  /\ device.soc \in SoCs /\ cHits \in 0..3 /\ resets \in Nat

Unheard == "fipStage" \notin tail \cup ToSet(text)

\* From the power-on the host and the device go through the stages together, and until the
\* preloader runs there is no text that the host could take for its.
Journey ==
  device.early = "off" /\ resets = 0 =>
    \/ /\ place \in {"receiver1", "preloader"} /\ dev \in {"off", "rom", "romX"}
       /\ taken = <<>> /\ Unheard
    \/ place \in {"receiver2", "fip"} /\ dev \in {"bl2", "bl2X", "dead"} /\ RightImage
    \/ place \in {"prompt", "geometry", "done"} /\ RightImage

\* STOP waits in the second receiver's wait, and where it does not wait nothing was given,
\* or the next stage was heard.
HandOver ==
  /\ place \in {"receiver1", "preloader"} => taken = <<>>
  /\ place = "receiver2" => mode = "blocked"
  /\ place = "fip" /\ taken # <<>> => cHits = 3
  /\ place \in {"receiver2", "fip"} /\ taken # <<>> => Last(taken)[2] # "fip"
  /\ NoStopInHandOver

\* Without a restart a prompt that is due or was heard is that of the device.
Unprompted == "prompt" \notin ToSet(text)
Prompted ==
  /\ Unprompted \/ resets # 0 \/ dev = "prompt"
  /\ place = "geometry" => resets # 0 \/ dev = "prompt"

\* Without a restart only the image for this SoC has brought the device to a U-Boot.
Loaded ==
  /\ resets = 0 /\ dev \in {"uboot", "menu", "prompt", "erasing", "linux"} =>
       /\ place \in {"prompt", "geometry", "done"}
       /\ taken # <<>> /\ Last(taken) = <<"bl2X", "fip">> /\ profile = device.soc
  /\ outcome = "success" => dev = "prompt" /\ device.nandOk

RamInv ==
  /\ BootTypes /\ Journey /\ HandOver /\ Prompted /\ Loaded
  /\ outcome \in {"success", "cancelled"} => place = "done"

LEMMA Short ==
  ASSUME NEW S, NEW x \in S, NEW y \in S, NEW z \in S
  PROVE  /\ <<>> \in Seq(S) /\ <<x>> \in Seq(S)
         /\ <<x, y>> \in Seq(S) /\ <<x, y, z>> \in Seq(S)
OBVIOUS

LEMMA TextType == ASSUME device.soc \in SoCs, NEW s PROVE Boot!Text(s) \in Seq(Markers)
<1>1. /\ device.soc \in Markers /\ "press" \in Markers /\ "C" \in Markers /\ "fipStage" \in Markers
      /\ "banner" \in Markers /\ "menu" \in Markers /\ "prompt" \in Markers
      /\ "erase" \in Markers /\ "kernel" \in Markers
  BY DEF Markers
<1>2. /\ <<"press">> \in Seq(Markers) /\ <<"C", "C", "C">> \in Seq(Markers)
      /\ <<"menu">> \in Seq(Markers) /\ <<"prompt">> \in Seq(Markers)
      /\ <<"erase">> \in Seq(Markers) /\ <<"kernel">> \in Seq(Markers) /\ <<>> \in Seq(Markers)
      /\ <<device.soc, "fipStage", "press">> \in Seq(Markers)
      /\ <<device.soc, "banner">> \in Seq(Markers)
  BY <1>1, Short
<1> QED
  BY <1>2 DEF Boot!Text

LEMMA Joined ==
  ASSUME NEW S, NEW a \in Seq(S), NEW b \in Seq(S)
  PROVE  a \o b \in Seq(S) /\ ToSet(a \o b) \subseteq ToSet(a) \cup ToSet(b)
<1>1. a \o b \in Seq(S) /\ Len(a \o b) = Len(a) + Len(b)
  OBVIOUS
<1>2. /\ \A i \in 1..Len(a) : (a \o b)[i] = a[i]
      /\ \A i \in 1..Len(b) : (a \o b)[Len(a) + i] = b[i]
  OBVIOUS
<1>3. ToSet(a \o b) \subseteq ToSet(a) \cup ToSet(b)
  <2> SUFFICES ASSUME NEW i \in 1..(Len(a) + Len(b)) PROVE (a \o b)[i] \in ToSet(a) \cup ToSet(b)
    BY <1>1 DEF ToSet
  <2>1. CASE i <= Len(a)
    BY <1>2, <2>1 DEF ToSet
  <2>2. CASE i > Len(a)
    <3>1. i - Len(a) \in 1..Len(b) /\ i = Len(a) + (i - Len(a))
      BY <2>2
    <3> QED
      BY <1>2, <3>1 DEF ToSet
  <2> QED
    BY <2>1, <2>2
<1> QED
  BY <1>1, <1>3

LEMMA Dropped ==
  ASSUME NEW S, NEW s \in Seq(S), NEW i \in DOMAIN s
  PROVE  RemoveAt(s, i) \in Seq(S) /\ ToSet(RemoveAt(s, i)) \subseteq ToSet(s)
<1>1. SubSeq(s, 1, i - 1) \in Seq(S) /\ SubSeq(s, i + 1, Len(s)) \in Seq(S)
  OBVIOUS
<1>2. ToSet(SubSeq(s, 1, i - 1)) \subseteq ToSet(s) /\ ToSet(SubSeq(s, i + 1, Len(s))) \subseteq ToSet(s)
  BY DEF ToSet
<1> QED
  <2> DEFINE a == SubSeq(s, 1, i - 1)
             b == SubSeq(s, i + 1, Len(s))
  <2>1. RemoveAt(s, i) = a \o b
    BY DEF RemoveAt
  <2>2. a \o b \in Seq(S) /\ ToSet(a \o b) \subseteq ToSet(a) \cup ToSet(b)
    BY <1>1, Joined
  <2> QED
    BY <1>2, <2>1, <2>2

LEMMA Rest ==
  ASSUME NEW S, NEW s \in Seq(S), NEW n \in 0..Len(s)
  PROVE  /\ SubSeq(s, n + 1, Len(s)) \in Seq(S) /\ SubSeq(s, 1, n) \in Seq(S)
         /\ ToSet(SubSeq(s, n + 1, Len(s))) \subseteq ToSet(s)
         /\ ToSet(SubSeq(s, 1, n)) \subseteq ToSet(s)
<1>1. SubSeq(s, n + 1, Len(s)) \in Seq(S) /\ SubSeq(s, 1, n) \in Seq(S)
  OBVIOUS
<1> QED
  BY <1>1 DEF ToSet

\* Only the preloader prints its marker, and only U-Boot its prompt.
LEMMA OthersSilent ==
  ASSUME device.soc \in SoCs, NEW s, s # "bl2"
  PROVE  "fipStage" \notin ToSet(Boot!Text(s))
<1>1. /\ ToSet(<<"press">>) = {"press"} /\ ToSet(<<"menu">>) = {"menu"}
      /\ ToSet(<<"prompt">>) = {"prompt"} /\ ToSet(<<"erase">>) = {"erase"}
      /\ ToSet(<<"kernel">>) = {"kernel"} /\ ToSet(<<"C", "C", "C">>) = {"C"}
      /\ ToSet(<<device.soc, "banner">>) = {device.soc, "banner"}
      /\ ToSet(<<>>) = {}
  BY DEF ToSet
<1>2. device.soc # "fipStage"
  BY DEF SoCs
<1> QED
  BY <1>1, <1>2 DEF Boot!Text

LEMMA NoPromptElsewhere ==
  ASSUME device.soc \in SoCs, NEW s, s # "prompt"
  PROVE  "prompt" \notin ToSet(Boot!Text(s))
<1>1. /\ ToSet(<<"press">>) = {"press"} /\ ToSet(<<"menu">>) = {"menu"}
      /\ ToSet(<<"erase">>) = {"erase"}
      /\ ToSet(<<"kernel">>) = {"kernel"} /\ ToSet(<<"C", "C", "C">>) = {"C"}
      /\ ToSet(<<device.soc, "banner">>) = {device.soc, "banner"}
      /\ ToSet(<<device.soc, "fipStage", "press">>) = {device.soc, "fipStage", "press"}
      /\ ToSet(<<>>) = {}
  BY DEF ToSet
<1>2. device.soc # "prompt"
  BY DEF SoCs
<1> QED
  BY <1>1, <1>2 DEF Boot!Text

LEMMA BootInitially == Boot!Init => RamInv
<1> SUFFICES ASSUME Boot!Init PROVE RamInv
  OBVIOUS
<1>1. /\ place = "receiver1" /\ outcome = "running" /\ tail = {} /\ cHits = 0 /\ mode = "now"
      /\ device.soc \in SoCs /\ dev = device.early /\ dev \in {"off", "bl2", "bl2X"}
      /\ taken = <<>> /\ resets = 0 /\ (dev = "off" => text = <<>>)
  BY DEF Boot!Init, Boot!SoCs, SoCs
<1>2. text \in Seq(Markers)
  <2>1. text = <<>> \/ text = Boot!Text(dev)
    BY DEF Boot!Init
  <2> QED
    <3>1. CASE text = <<>>
      BY <3>1
    <3>2. CASE text = Boot!Text(dev)
      BY <1>1, <3>2, TextType
    <3> QED
      BY <2>1, <3>1, <3>2
<1>3. BootTypes
  BY <1>1, <1>2 DEF BootTypes
<1>4. Journey
  BY <1>1 DEF Journey, Unheard, ToSet
<1>5. HandOver
  BY <1>1 DEF HandOver, NoStopInHandOver
<1>6. Loaded
  BY <1>1 DEF Loaded
<1>7. Prompted
  <2>1. text = <<>> \/ text = Boot!Text(dev)
    BY DEF Boot!Init
  <2>2. "prompt" \notin ToSet(<<>>)
    BY DEF ToSet
  <2>3. "prompt" \notin ToSet(Boot!Text(dev))
    BY <1>1, NoPromptElsewhere
  <2> QED
    BY <1>1, <2>1, <2>2, <2>3 DEF Prompted, Unprompted
<1> QED
  BY <1>1, <1>3, <1>4, <1>5, <1>6, <1>7 DEF RamInv

(***************************************************************************)
(* Steps of the device, the line and the clock.                            *)
(***************************************************************************)
Moves ==
  \/ dev' = dev
  \/ dev = "off" /\ dev' = "rom"
  \/ dev = "rom" /\ dev' = "romX"
  \/ dev = "bl2" /\ dev' = "bl2X"
  \/ dev \in {"uboot", "menu", "erasing"} /\ dev' \in {"menu", "prompt", "erasing", "linux"}

\* The host stays where it is, and nothing it hears is a new marker of the preloader.
Elsewhere ==
  /\ UNCHANGED <<place, outcome, profile, cHits, mode, tail, device, taken, resets>>
  /\ Moves /\ text' \in Seq(Markers) /\ (Unheard => Unheard')
  /\ dev' = "prompt" \/ (Unprompted => Unprompted')

LEMMA ElsewhereKeeps ==
  ASSUME RamInv, Elsewhere
  PROVE  RamInv'
<1> USE DEF Elsewhere, Moves
<1>1. BootTypes'
  BY DEF RamInv, BootTypes
<1>2. RightImage' = RightImage /\ \A a, b : Given(a, b)' = Given(a, b)
  BY DEF RightImage, Given
<1>3. Journey'
  BY <1>2 DEF RamInv, Journey
<1>4. HandOver'
  BY DEF RamInv, HandOver, NoStopInHandOver
<1>5. Loaded'
  BY DEF RamInv, Loaded
<1>6. Prompted'
  BY DEF RamInv, Prompted
<1> QED
  BY <1>1, <1>3, <1>4, <1>5, <1>6 DEF RamInv

LEMMA ReachedText ==
  ASSUME BootTypes, NEW s, Boot!Reach(s), UNCHANGED <<tail, device>>
  PROVE  /\ text' \in Seq(Markers) /\ (s # "bl2" /\ Unheard => Unheard')
         /\ s = "prompt" \/ (Unprompted => Unprompted')
<1>1. text' = text \o Boot!Text(s) /\ Boot!Text(s) \in Seq(Markers)
  BY TextType DEF BootTypes, Boot!Reach
<1>2. text' \in Seq(Markers) /\ ToSet(text') \subseteq ToSet(text) \cup ToSet(Boot!Text(s))
  BY <1>1, Joined DEF BootTypes
<1> QED
  BY <1>2, OthersSilent, NoPromptElsewhere DEF BootTypes, Unheard, Unprompted

LEMMA DeviceElsewhere ==
  ASSUME RamInv, Boot!Device \/ Boot!Autoboot
  PROVE  Elsewhere
<1> USE DEF RamInv
<1>1. UNCHANGED <<place, outcome, profile, cHits, mode, tail, device, taken, resets>>
  BY DEF Boot!Device, Boot!Autoboot, Boot!PowerOn, Boot!StartReceiver, Boot!PrintC, Boot!DropKey,
     Boot!ShowMenu, Boot!Interrupted, Boot!host
<1>2. ASSUME NEW s, Boot!Reach(s), s # "bl2"
      PROVE  /\ dev' = s /\ text' \in Seq(Markers) /\ (Unheard => Unheard')
             /\ dev' = "prompt" \/ (Unprompted => Unprompted')
  BY <1>1, <1>2, ReachedText DEF Boot!Reach
<1>3. CASE Boot!PowerOn
  BY <1>1, <1>2, <1>3 DEF Boot!PowerOn, Elsewhere, Moves
<1>4. CASE Boot!StartReceiver
  BY <1>1, <1>2, <1>4 DEF Boot!StartReceiver, Elsewhere, Moves
<1>5. CASE Boot!PrintC
  <2>1. dev' = dev /\ text' = <<"C", "C", "C">>
    BY <1>5 DEF Boot!PrintC
  <2>2. text' \in Seq(Markers) /\ "fipStage" \notin ToSet(text') /\ "prompt" \notin ToSet(text')
    <3>1. <<"C", "C", "C">> \in Seq(Markers)
      BY Short DEF Markers
    <3> QED
      BY <2>1, <3>1 DEF ToSet
  <2> QED
    BY <1>1, <2>1, <2>2 DEF Elsewhere, Moves, Unheard, Unprompted
<1>6. CASE Boot!DropKey
  BY <1>1, <1>6 DEF Boot!DropKey, Elsewhere, Moves, Unheard, Unprompted, BootTypes
<1>7. CASE Boot!ShowMenu
  BY <1>1, <1>2, <1>7 DEF Boot!ShowMenu, Elsewhere, Moves
<1>8. CASE Boot!Interrupted
  BY <1>1, <1>2, <1>8 DEF Boot!Interrupted, Elsewhere, Moves
<1>9. CASE Boot!Autoboot
  BY <1>1, <1>2, <1>9 DEF Boot!Autoboot, Elsewhere, Moves
<1> QED
  BY <1>3, <1>4, <1>5, <1>6, <1>7, <1>8, <1>9 DEF Boot!Device

LEMMA LineElsewhere ==
  ASSUME RamInv,
         \/ Boot!LoseText \/ Boot!PrintMore \/ Boot!PacketStartsReceiver \/ Boot!PressStop
         \/ Boot!Ticks \/ Boot!Ended \/ UNCHANGED Boot!vars
  PROVE  Elsewhere
<1> USE DEF RamInv
<1>1. UNCHANGED <<place, outcome, profile, cHits, mode, tail, device, taken, resets>>
  BY DEF Boot!LoseText, Boot!PrintMore, Boot!PacketStartsReceiver, Boot!PressStop, Boot!Ticks,
     Boot!Ended, Boot!vars, Boot!host, Boot!board
<1>2. CASE Boot!LoseText
  <2>1. PICK i \in DOMAIN text : text' = RemoveAt(text, i)
    BY <1>2 DEF Boot!LoseText, Boot!RemoveAt, RemoveAt
  <2>2. text' \in Seq(Markers) /\ ToSet(text') \subseteq ToSet(text)
    BY <2>1, Dropped DEF BootTypes
  <2>3. dev' = dev
    BY <1>2 DEF Boot!LoseText
  <2> QED
    BY <1>1, <2>2, <2>3 DEF Elsewhere, Moves, Unheard, Unprompted
<1>3. CASE Boot!PrintMore
  <2>1. dev' = dev /\ text' = Boot!Text(dev) /\ dev \notin {"bl2", "prompt"}
    BY <1>3 DEF Boot!PrintMore
  <2>2. text' \in Seq(Markers) /\ "fipStage" \notin ToSet(text') /\ "prompt" \notin ToSet(text')
    BY <2>1, TextType, OthersSilent, NoPromptElsewhere DEF BootTypes
  <2> QED
    BY <1>1, <2>1, <2>2 DEF Elsewhere, Moves, Unheard, Unprompted
<1>4. CASE Boot!PacketStartsReceiver
  <2>1. text' = <<>> /\ ToSet(<<>>) = {}
    BY <1>4 DEF Boot!PacketStartsReceiver, ToSet
  <2> QED
    BY <1>1, <1>4, <2>1 DEF Boot!PacketStartsReceiver, Elsewhere, Moves, Unheard, Unprompted
<1>5. CASE UNCHANGED <<dev, text>>
  BY <1>1, <1>5 DEF Elsewhere, Moves, Unheard, Unprompted, BootTypes
<1>6. Boot!PressStop \/ Boot!Ticks \/ Boot!Ended \/ UNCHANGED Boot!vars => UNCHANGED <<dev, text>>
  BY DEF Boot!PressStop, Boot!Ticks, Boot!Ended, Boot!vars, Boot!board
<1> QED
  BY <1>2, <1>3, <1>4, <1>5, <1>6

\* After a restart little is promised, and nothing has been given.
LEMMA PowerCycleKeeps ==
  ASSUME RamInv, Boot!PowerCycle
  PROVE  RamInv'
<1>1. /\ UNCHANGED <<place, outcome, profile, cHits, mode, tail, device>> /\ place # "done"
      /\ taken' = <<>> /\ resets' = resets + 1 /\ resets' # 0
  BY DEF Boot!PowerCycle, Boot!host, RamInv, BootTypes
<1>2. text' \in Seq(Markers)
  BY <1>1, ReachedText DEF Boot!PowerCycle, RamInv
<1>4. BootTypes'
  BY <1>1, <1>2 DEF RamInv, BootTypes
<1> QED
  BY <1>1, <1>4 DEF RamInv, Journey, HandOver, NoStopInHandOver, Prompted, Loaded

(***************************************************************************)
(* Steps of the host.                                                      *)
(***************************************************************************)
DeviceSame == UNCHANGED <<dev, device, taken, resets>> /\ (Unprompted => Unprompted')

LEMMA FailureKeeps ==
  ASSUME RamInv, DeviceSame, BootTypes', place # "done", place' = "done", outcome' \in {"failed", "timeout"},
         UNCHANGED profile
  PROVE  RamInv'
<1>1. RightImage' = RightImage
  BY DEF DeviceSame, RightImage, Given
<1>2. RightImage
  BY DEF RamInv, Journey, RightImage, Given
<1> QED
  BY <1>1, <1>2 DEF RamInv, DeviceSame, Journey, HandOver, NoStopInHandOver, Prompted, Loaded

\* Within the wait for the prompt, and from it to the check of the geometry.
LEMMA PromptKeeps ==
  ASSUME RamInv, DeviceSame, BootTypes', place = "prompt", place' \in {"prompt", "geometry"},
         place' = "geometry" => ~Unprompted, UNCHANGED <<outcome, profile>>
  PROVE  RamInv'
<1>1. RightImage' = RightImage
  BY DEF DeviceSame, RightImage, Given
<1> QED
  BY <1>1 DEF RamInv, DeviceSame, Journey, HandOver, NoStopInHandOver, Prompted, Loaded

\* A receiver's wait that is not over.
LEMMA WaitingKeeps ==
  ASSUME RamInv, DeviceSame, BootTypes', place \in {"receiver1", "receiver2"}, Unheard => Unheard',
         UNCHANGED <<place, outcome, profile, mode>>
  PROVE  RamInv'
<1>1. RightImage' = RightImage 
  BY DEF DeviceSame, RightImage, Given
<1> QED
  BY <1>1 DEF RamInv, DeviceSame, Journey, HandOver, NoStopInHandOver, Prompted, Loaded

LEMMA FirstKeeps ==
  ASSUME RamInv, DeviceSame, BootTypes', place = "receiver1", place' \in {"preloader", "fip"},
         UNCHANGED outcome, Unheard => place' = "preloader" /\ Unheard'
  PROVE  RamInv'
<1>1. taken' = <<>>
  BY DEF RamInv, HandOver, DeviceSame
<1> QED
  BY <1>1 DEF RamInv, DeviceSame, Journey, HandOver, NoStopInHandOver, Prompted, Loaded

LEMMA SecondKeeps ==
  ASSUME RamInv, DeviceSame, BootTypes', place = "receiver2", place' = "fip", cHits' = 3,
         UNCHANGED <<outcome, profile>>
  PROVE  RamInv'
<1>1. RightImage' = RightImage 
  BY DEF DeviceSame, RightImage, Given
<1> QED
  BY <1>1 DEF RamInv, DeviceSame, Journey, HandOver, NoStopInHandOver, Prompted, Loaded

LEMMA WaitReceiverKeeps ==
  ASSUME RamInv, Boot!WaitReceiver
  PROVE  RamInv'
<1>1. PICK n \in DOMAIN text :
        /\ text' = SubSeq(text, n + 1, Len(text)) /\ tail' = Boot!Heard(n)
        /\ cHits' \in Boot!Counts(n)
        /\ IF cHits' < 3 THEN UNCHANGED <<place, outcome, profile, phase, mode>>
           ELSE IF place = "receiver1" THEN Boot!FirstProven(Boot!Heard(n)) /\ UNCHANGED mode
           ELSE Boot!SecondProven(Boot!Heard(n)) /\ UNCHANGED <<profile, phase>>
  BY DEF Boot!WaitReceiver, Boot!Read
<1>2. UNCHANGED <<dev, device, taken, resets>> /\ place \in {"receiver1", "receiver2"}
  BY DEF Boot!WaitReceiver
<1>3. text \in Seq(Markers) /\ n \in 1..Len(text) /\ cHits' \in 0..3
  BY <1>1 DEF RamInv, BootTypes, Boot!Counts
<1>4. text' \in Seq(Markers) /\ ToSet(text') \subseteq ToSet(text)
  BY <1>1, <1>3, Rest
<1>A. DeviceSame
  BY <1>2, <1>4 DEF DeviceSame, Unprompted
<1>5. Boot!Heard(n) \subseteq tail \cup ToSet(text)
  BY <1>3 DEF Boot!Heard, ToSet
<1>6. Unheard => Unheard' /\ "fipStage" \notin Boot!Heard(n)
  BY <1>1, <1>4, <1>5 DEF Unheard
<1>7. BootTypes'
  BY <1>1, <1>2, <1>3, <1>4 DEF RamInv, BootTypes, DeviceSame
<1>8. CASE cHits' < 3
  BY <1>1, <1>2, <1>6, <1>7, <1>8, <1>A, WaitingKeeps
<1>9. CASE ~(cHits' < 3) /\ place = "receiver1"
  <2>1. Boot!FirstProven(Boot!Heard(n))
    BY <1>1, <1>9
  <2>2. \/ place' = "done" /\ outcome' = "failed" /\ UNCHANGED profile
        \/ /\ UNCHANGED outcome
           /\ place' = IF Boot!PhaseIn(Boot!Heard(n)) = "preloader" THEN "preloader" ELSE "fip"
    BY <2>1 DEF Boot!FirstProven, Boot!End
  <2>3. "fipStage" \notin Boot!Heard(n) => Boot!PhaseIn(Boot!Heard(n)) = "preloader"
    BY DEF Boot!PhaseIn, Boot!FipMarks
  <2> QED
    BY <1>2, <1>A, <1>6, <1>7, <1>9, <2>2, <2>3, FailureKeeps, FirstKeeps
<1>10. CASE ~(cHits' < 3) /\ place = "receiver2"
  <2>1. Boot!SecondProven(Boot!Heard(n)) /\ UNCHANGED profile
    BY <1>1, <1>10
  <2>2. \/ place' = "done" /\ outcome' = "failed"
        \/ place' = "fip" /\ UNCHANGED outcome
    BY <2>1 DEF Boot!SecondProven, Boot!End
  <2>3. cHits' = 3
    BY <1>1, <1>3, <1>10
  <2> QED
    BY <1>2, <1>A, <1>7, <1>10, <2>1, <2>2, <2>3, FailureKeeps, SecondKeeps
<1> QED
  BY <1>2, <1>8, <1>9, <1>10

\* STOP: where it does not wait, no stage runs that has not been heard.
LEMMA StopWaitKeeps ==
  ASSUME RamInv, Boot!StopWait
  PROVE  RamInv'
<1>1. /\ DeviceSame /\ place \in {"receiver1", "receiver2", "preloader", "fip"} /\ mode = "now"
      /\ place' = "done" /\ outcome' = "cancelled" /\ UNCHANGED <<profile, cHits, text, tail>>
  BY DEF Boot!StopWait, Boot!End, DeviceSame, Boot!board, Unprompted
<1>2. RightImage' = RightImage
  BY <1>1 DEF DeviceSame, RightImage, Given
<1>3. RightImage
  BY <1>1 DEF RamInv, Journey, RightImage, Given
<1>4. taken # <<>> => cHits = 3 /\ Last(taken)[2] # "fip"
  BY <1>1 DEF RamInv, HandOver
<1>5. HandOver'
  BY <1>1, <1>4 DEF DeviceSame, HandOver, NoStopInHandOver
<1> QED
  BY <1>1, <1>2, <1>3, <1>5 DEF RamInv, BootTypes, DeviceSame, Journey, Prompted, Loaded

LEMMA GivenMore ==
  ASSUME BootTypes, NEW stage \in {"romX", "bl2X"}, NEW image \in {"preloader", "fip"},
         taken' = Append(taken, <<stage, image>>)
  PROVE  /\ taken' \in Seq({"romX", "bl2X"} \X {"preloader", "fip"}) /\ taken' # <<>>
         /\ Last(taken') = <<stage, image>>
         /\ \A a, b : Given(a, b)' <=> Given(a, b) \/ (a = stage /\ b = image)
<1>1. /\ taken \in Seq({"romX", "bl2X"} \X {"preloader", "fip"})
      /\ <<stage, image>> \in {"romX", "bl2X"} \X {"preloader", "fip"}
  BY DEF BootTypes
<1>2. /\ taken' \in Seq({"romX", "bl2X"} \X {"preloader", "fip"}) /\ Len(taken') = Len(taken) + 1
      /\ taken'[Len(taken) + 1] = <<stage, image>>
      /\ \A i \in 1..Len(taken) : taken'[i] = taken[i]
  BY <1>1
<1>3. ASSUME NEW a, NEW b
      PROVE  Given(a, b)' <=> Given(a, b) \/ (a = stage /\ b = image)
  <2>1. Given(a, b)' => Given(a, b) \/ (a = stage /\ b = image)
    BY <1>1, <1>2 DEF Given
  <2>2. Given(a, b) => Given(a, b)'
    BY <1>1, <1>2 DEF Given
  <2>3. a = stage /\ b = image => Given(a, b)'
    BY <1>1, <1>2 DEF Given
  <2> QED
    BY <2>1, <2>2, <2>3
<1> QED
  BY <1>1, <1>2, <1>3 DEF Last

LEMMA DeliveredKeeps ==
  ASSUME RamInv, Boot!Delivered
  PROVE  RamInv'
<1> DEFINE next == IF profile = device.soc THEN Boot!Next2(dev, Boot!Image) ELSE "dead"
<1>1. /\ place \in {"preloader", "fip"} /\ dev \in {"romX", "bl2X"}
      /\ taken' = Append(taken, <<dev, Boot!Image>>) /\ mode' = "blocked"
      /\ UNCHANGED <<outcome, profile, device, resets>>
  BY DEF Boot!Delivered
<1>2. PICK n \in 0..Len(Boot!Text(next)) :
        /\ dev' = next
        /\ text' = SubSeq(Boot!Text(next), 1, n) \o SubSeq(Boot!Text(next), n + 1, Len(Boot!Text(next)))
        /\ place' = (IF place = "preloader" THEN "receiver2" ELSE "prompt") /\ cHits' = 0
  BY DEF Boot!Delivered, Boot!Continue, Boot!Wait
<1>3. /\ Boot!Image = place
      /\ dev' \in {"bl2", "uboot", "dead"}
      /\ dev' = "bl2" => place = "preloader"
      /\ dev' = "uboot" => dev = "bl2X" /\ place = "fip" /\ profile = device.soc
  BY <1>1, <1>2 DEF Boot!Image, Boot!Next2
<1>4. text' \in Seq(Markers) /\ Unprompted'
  <2>1. Boot!Text(next) \in Seq(Markers) /\ "prompt" \notin ToSet(Boot!Text(next))
    BY <1>2, <1>3, TextType, NoPromptElsewhere DEF RamInv, BootTypes
  <2>2. /\ SubSeq(Boot!Text(next), 1, n) \in Seq(Markers)
        /\ SubSeq(Boot!Text(next), n + 1, Len(Boot!Text(next))) \in Seq(Markers)
        /\ ToSet(SubSeq(Boot!Text(next), 1, n)) \subseteq ToSet(Boot!Text(next))
        /\ ToSet(SubSeq(Boot!Text(next), n + 1, Len(Boot!Text(next)))) \subseteq ToSet(Boot!Text(next))
    BY <1>2, <2>1, Rest
  <2> QED
    BY <1>2, <2>1, <2>2, Joined DEF Unprompted
<1>5. /\ taken' \in Seq({"romX", "bl2X"} \X {"preloader", "fip"}) /\ taken' # <<>>
      /\ Last(taken') = <<dev, place>>
      /\ \A a, b : Given(a, b)' <=> Given(a, b) \/ (a = dev /\ b = place)
  BY <1>1, <1>3, GivenMore DEF RamInv
<1>6. BootTypes'
  BY <1>1, <1>2, <1>4, <1>5 DEF RamInv, BootTypes
<1>7. Journey'
  <2> SUFFICES ASSUME device.early = "off", resets = 0 PROVE Journey'
    BY <1>1 DEF Journey
  <2>1. CASE place = "preloader"
    <3>1. dev = "romX" /\ taken = <<>>
      BY <1>1, <2>1 DEF RamInv, Journey
    <3>2. ~Given("romX", "fip") /\ ~Given("bl2X", "preloader")
      BY <3>1 DEF Given
    <3>3. RightImage'
      BY <1>5, <2>1, <3>1, <3>2 DEF RightImage
    <3> QED
      BY <1>2, <1>3, <2>1, <3>3 DEF Journey
  <2>2. CASE place = "fip"
    <3>1. dev = "bl2X" /\ RightImage
      BY <1>1, <2>2 DEF RamInv, Journey
    <3>2. RightImage'
      BY <1>5, <2>2, <3>1 DEF RightImage
    <3> QED
      BY <1>2, <2>2, <3>2 DEF Journey
  <2> QED
    BY <1>1, <2>1, <2>2
<1>8. HandOver'
  <2>1. Last(taken')[2] = place
    BY <1>5
  <2>2. outcome' # "cancelled"
    BY <1>1 DEF RamInv
  <2> QED
    BY <1>1, <1>2, <2>1, <2>2 DEF HandOver, NoStopInHandOver
<1>9. Loaded'
  BY <1>1, <1>2, <1>3, <1>5 DEF RamInv, Loaded
<1> QED
  BY <1>1, <1>2, <1>4, <1>6, <1>7, <1>8, <1>9 DEF RamInv, Prompted

LEMMA JudgeKeeps ==
  ASSUME RamInv, DeviceSame, BootTypes', place = "prompt", NEW heard, NEW last \in ToSet(text),
         Boot!Judge(heard, last), UNCHANGED profile
  PROVE  RamInv'
<1>1. \/ place' = "geometry" /\ last = "prompt" /\ UNCHANGED outcome
      \/ place' = "done" /\ outcome' = "failed"
      \/ UNCHANGED <<place, outcome>>
  BY DEF Boot!Judge, Boot!End
<1> QED
  BY <1>1, FailureKeeps, PromptKeeps DEF Unprompted

LEMMA PromptStepKeeps ==
  ASSUME RamInv, Boot!WaitPrompt
  PROVE  RamInv'
<1>1. /\ UNCHANGED <<dev, device, taken, resets>> /\ place = "prompt"
      /\ UNCHANGED <<profile, cHits>>
  BY DEF Boot!WaitPrompt
<1>2. PICK n \in DOMAIN text :
        /\ IF text[n] = "prompt" THEN text' = <<>> ELSE text' = SubSeq(text, n + 1, Len(text))
        /\ Boot!Judge(Boot!Heard(n), text[n])
  BY DEF Boot!WaitPrompt, Boot!Read
<1>3. text' \in Seq(Markers) /\ ToSet(text') \subseteq ToSet(text)
  <2>1. CASE text' = <<>>
    BY <2>1 DEF ToSet
  <2>2. CASE text' = SubSeq(text, n + 1, Len(text))
    <3>1. text \in Seq(Markers) /\ n \in 0..Len(text)
      BY DEF RamInv, BootTypes
    <3> QED
      BY <2>2, <3>1, Rest
  <2> QED
    BY <1>2, <2>1, <2>2
<1>4. DeviceSame /\ BootTypes' /\ text[n] \in ToSet(text)
  BY <1>1, <1>2, <1>3 DEF RamInv, BootTypes, DeviceSame, Unprompted, ToSet
<1> QED
  BY <1>1, <1>2, <1>4, JudgeKeeps

LEMMA EndKeeps ==
  ASSUME RamInv, Boot!NotDelivered \/ Boot!Timeout \/ Boot!CheckGeometry
  PROVE  RamInv'
<1>1. DeviceSame /\ UNCHANGED <<profile, cHits, text>> /\ place # "done" /\ place' = "done"
  BY DEF Boot!NotDelivered, Boot!Timeout, Boot!CheckGeometry, Boot!End, DeviceSame,
     Boot!board, Unprompted
<1>2. BootTypes'
  BY <1>1 DEF RamInv, BootTypes, DeviceSame
<1>3. CASE outcome' \in {"failed", "timeout"}
  BY <1>1, <1>2, <1>3, FailureKeeps
<1>4. CASE outcome' \in {"success", "cancelled"} /\ place = "geometry"
  <2>1. RightImage' = RightImage
    BY <1>1 DEF DeviceSame, RightImage, Given
  <2>2. outcome' = "success" => dev = "prompt" /\ device.nandOk
    BY <1>4 DEF Boot!NotDelivered, Boot!Timeout, Boot!CheckGeometry, Boot!End
  <2>3. resets = 0 => dev = "prompt" /\ Last(taken) = <<"bl2X", "fip">>
    BY <1>4 DEF RamInv, Prompted, Loaded
  <2>4. HandOver'
    BY <1>1, <2>3 DEF DeviceSame, HandOver, NoStopInHandOver
  <2> QED
    BY <1>1, <1>2, <1>4, <2>1, <2>2, <2>4 DEF RamInv, DeviceSame, Journey, Prompted, Loaded
<1>5. \/ outcome' \in {"failed", "timeout"}
      \/ outcome' \in {"success", "cancelled"} /\ place = "geometry"
  BY DEF Boot!NotDelivered, Boot!Timeout, Boot!CheckGeometry, Boot!End
<1> QED
  BY <1>3, <1>4, <1>5

LEMMA RamSteps == Boot!Spec => []RamInv
<1>1. RamInv /\ [Boot!Next]_(Boot!vars) => RamInv'
  <2> SUFFICES ASSUME RamInv, [Boot!Next]_(Boot!vars) PROVE RamInv'
    OBVIOUS
  <2>1. CASE Boot!Device \/ Boot!Autoboot
    BY <2>1, DeviceElsewhere, ElsewhereKeeps
  <2>2. CASE \/ Boot!LoseText \/ Boot!PrintMore \/ Boot!PacketStartsReceiver \/ Boot!PressStop
             \/ Boot!Ticks \/ Boot!Ended \/ UNCHANGED Boot!vars
    BY <2>2, LineElsewhere, ElsewhereKeeps
  <2>3. CASE Boot!Host
    BY <2>2, <2>3, WaitReceiverKeeps, DeliveredKeeps, PromptStepKeeps, StopWaitKeeps, EndKeeps DEF Boot!Host
  <2> QED
    BY <2>1, <2>2, <2>3, PowerCycleKeeps DEF Boot!Next
<1> QED
  BY <1>1, BootInitially, PTL DEF Boot!Spec

\* The right image for each stage, whatever text is lost, if the operation sees the device
\* from its power-on.
THEOREM StagesGetTheirImage == Boot!Spec => []RightImage
<1>1. RamInv => RightImage
  BY DEF RamInv, Journey, RightImage, Given
<1> QED
  BY <1>1, RamSteps, PTL

\* STOP ends no operation between an acknowledged image and the first that is heard of the
\* stage it starts; what it may end after the FIP has the prompt of its U-Boot.
THEOREM StopWaitsForStage == Boot!Spec => []NoStopInHandOver
<1>1. RamInv => NoStopInHandOver
  BY DEF RamInv, HandOver, NoStopInHandOver
<1> QED
  BY <1>1, RamSteps, PTL

\* Success is the U-Boot that was loaded, unless the device was restarted.
THEOREM SuccessIsLoaded == Boot!Spec => []SuccessIsRamUBoot
<1>1. RamInv => SuccessIsRamUBoot
  BY DEF RamInv, Loaded, SuccessIsRamUBoot
<1> QED
  BY <1>1, RamSteps, PTL
================================================================================
