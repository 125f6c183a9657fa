----------------------------- MODULE TftpTransfer -----------------------------
(***************************************************************************)
(* One file into the router's RAM over TFTP (tftpLoadKnownLocal, main.go): *)
(* every attempt starts a server goroutine of its own on the one port,     *)
(* gives U-Boot the tftpboot command, waits for the goroutine whatever     *)
(* came of the command, and proves the RAM by its hash.  Packets are lost  *)
(* (never received), duplicated, delayed past the attempt they belong to,  *)
(* and reordered; a damaged one reaches the RAM.                           *)
(***************************************************************************)
EXTENDS Integers, FiniteSets

CONSTANTS
  NumBlocks,    \* DATA packets of the file, the short last one included
  Attempts,     \* of the whole load
  OackTries,    \* how often the server sends the option answer
  DataTries,    \* how often it sends a DATA packet
  ClientTries,  \* how often U-Boot repeats its last packet
  MaxFaults     \* bound: duplicated and damaged packets, failing listens, muddled answers

ASSUME TftpAssumption ==
  /\ NumBlocks \in Nat \ {0} /\ Attempts \in Nat \ {0} /\ OackTries \in Nat \ {0}
  /\ DataTries \in Nat \ {0} /\ ClientTries \in Nat /\ MaxFaults \in Nat

VARIABLES
  attempt, step,            \* the caller: its attempt, what it does next
  outcome,                  \* "running" | "ok" | "failed"
  cancel,                   \* attempts whose cancel channel is closed
  server,                   \* one goroutine per attempt
  client,                   \* U-Boot's tftpboot of each attempt: a UDP port of its own
  up, down,                 \* packets to the server, and to U-Boot
  ram,                      \* the blocks in the router's RAM that are the file's
  faults

caller == <<attempt, step, outcome, cancel>>
vars == <<caller, server, client, up, down, ram, faults>>

Tries == 1..Attempts
Blocks == 1..NumBlocks
\* What a packet to the server carries: a request, an ERROR, or the number of the ACKed block.
RRQ == -1
ERROR == -2

Serving == {"listen", "rrq", "read"}
Over == {"sent", "closed"}      \* done is sent before the deferred Close runs

Init ==
  /\ attempt = 1 /\ step = "start" /\ outcome = "running" /\ cancel = {}
  /\ server = [n \in Tries |->
       [pc |-> "none", peer |-> 0, block |-> 0, tries |-> 0, failed |-> FALSE]]
  /\ client = [n \in Tries |-> [state |-> "idle", have |-> -1, tries |-> 0]]
  /\ up = {} /\ down = {} /\ ram = {} /\ faults = 0

Fault == faults < MaxFaults /\ faults' = faults + 1
NoFault == UNCHANGED faults

\* Packet p of up is received, for good or with a copy still on its way.
Received(p) == \/ up' = up \ {p} /\ NoFault
               \/ UNCHANGED up /\ Fault

(***************************************************************************)
(* The server goroutine of attempt n.                                      *)
(***************************************************************************)
Finish(n, bad) == server' = [server EXCEPT ![n].pc = "sent", ![n].failed = bad]

PortFree == \A n \in Tries : server[n].pc \notin {"rrq", "read", "sent"}

Listen(n) ==
  /\ server[n].pc = "listen"
  /\ \/ PortFree /\ server' = [server EXCEPT ![n].pc = "rrq"] /\ NoFault
     \/ ~PortFree /\ Finish(n, TRUE) /\ NoFault
     \/ Finish(n, TRUE) /\ Fault
  /\ UNCHANGED <<caller, client, up, down, ram>>

Limit(b) == IF b = 0 THEN OackTries ELSE DataTries

\* A round of a retry loop up to its read: the cancel channel, the count, the packet.
Round(n, to, b, t) ==
  IF n \in cancel \/ t > Limit(b)
  THEN Finish(n, TRUE) /\ UNCHANGED down
  ELSE /\ server' = [server EXCEPT ![n] =
            [pc |-> "read", peer |-> to, block |-> b, tries |-> t, failed |-> FALSE]]
       /\ down' = IF client[to].state = "loading"
                  THEN down \cup {[to |-> to, block |-> b]}
                  ELSE down

\* The first request wins, whichever tftpboot it comes from; without options DATA 1 is next.
TakeRequest(n) ==
  /\ server[n].pc = "rrq" /\ n \notin cancel
  /\ \E p \in up :
       /\ Received(p)
       /\ \/ p.ack = RRQ /\ \E first \in {0, 1} : Round(n, p.from, first, 1)
          \/ p.ack # RRQ /\ UNCHANGED <<server, down>>
  /\ UNCHANGED <<caller, client, ram>>

NoRequest(n) ==
  /\ server[n].pc = "rrq" /\ Finish(n, TRUE)
  /\ UNCHANGED <<caller, client, up, down, ram, faults>>

\* Mutant: a read that times out does not use up a try.
AgainUncounted(n) == Round(n, server[n].peer, server[n].block, server[n].tries)

Again(n) == Round(n, server[n].peer, server[n].block, server[n].tries + 1)

Acked(n) ==
  IF server[n].block = NumBlocks
  THEN Finish(n, FALSE) /\ UNCHANGED down
  ELSE Round(n, server[n].peer, server[n].block + 1, 1)

\* Mutant: any ACK of the peer will do.
ServerReadAnyAck(n) ==
  /\ server[n].pc = "read"
  /\ \E p \in up :
       /\ Received(p)
       /\ \/ p.from = server[n].peer /\ p.ack >= 0 /\ Acked(n)
          \/ (p.from # server[n].peer \/ p.ack < 0) /\ Again(n)
  /\ UNCHANGED <<caller, client, ram>>

\* Whatever is read costs a try; an ERROR counts only once DATA is being sent.
ServerRead(n) ==
  /\ server[n].pc = "read"
  /\ \E p \in up :
       LET mine == p.from = server[n].peer
           acks == mine /\ p.ack = server[n].block
           gives == mine /\ p.ack = ERROR /\ server[n].block > 0 IN
       /\ Received(p)
       /\ acks => Acked(n)
       /\ gives => Finish(n, TRUE) /\ UNCHANGED down
       /\ ~acks /\ ~gives => Again(n)
  /\ UNCHANGED <<caller, client, ram>>

ServerReadTimeout(n) ==
  /\ server[n].pc = "read" /\ Again(n)
  /\ UNCHANGED <<caller, client, up, ram, faults>>

\* The socket or the file fails.
ServerFails(n) ==
  /\ server[n].pc \in {"rrq", "read"} /\ Finish(n, TRUE) /\ Fault
  /\ UNCHANGED <<caller, client, up, down, ram>>

ServerClose(n) ==
  /\ server[n].pc = "sent" /\ server' = [server EXCEPT ![n].pc = "closed"]
  /\ UNCHANGED <<caller, client, up, down, ram, faults>>

Server(n) ==
  \/ Listen(n) \/ TakeRequest(n) \/ NoRequest(n)
  \/ ServerRead(n) \/ ServerReadTimeout(n) \/ ServerFails(n) \/ ServerClose(n)

(***************************************************************************)
(* U-Boot's tftpboot of attempt n.                                         *)
(***************************************************************************)
ToServer(n, a) == up' = up \cup {[from |-> n, ack |-> a]}
NotFor(n) == {p \in down : p.to # n}      \* a port nobody listens on drops its packets
LastSent(c) == IF c.have = -1 THEN RRQ ELSE c.have

InTurn(c, b) == b = c.have + 1 \/ (c.have = -1 /\ b = 1)

ClientTakes(n) ==
  /\ client[n].state = "loading"
  /\ \E p \in down :
       /\ p.to = n
       /\ \/ /\ InTurn(client[n], p.block)
             /\ client' = [client EXCEPT ![n] =
                  [state |-> IF p.block = NumBlocks THEN "done" ELSE "loading",
                   have |-> p.block, tries |-> 0]]
             /\ down' = IF p.block = NumBlocks THEN NotFor(n) ELSE down \ {p}
             /\ ToServer(n, p.block)
             /\ \/ NoFault /\ ram' = ram \cup ({p.block} \cap Blocks)
                \/ Fault /\ ram' = ram \ {p.block}
          \/ /\ ~InTurn(client[n], p.block)
             /\ down' = down \ {p}
             /\ UNCHANGED <<client, ram>> /\ NoFault
             /\ \/ p.block = client[n].have /\ ToServer(n, p.block)
                \/ UNCHANGED up
  /\ UNCHANGED <<caller, server>>

ClientRepeats(n) ==
  /\ client[n].state = "loading" /\ client[n].tries < ClientTries
  /\ client' = [client EXCEPT ![n].tries = @ + 1]
  /\ ToServer(n, LastSent(client[n]))
  /\ UNCHANGED <<caller, server, down, ram, faults>>

ClientGivesUp(n) ==
  /\ client[n].state = "loading" /\ client[n].tries = ClientTries
  /\ client' = [client EXCEPT ![n].state = "failed"]
  /\ ToServer(n, ERROR) \/ UNCHANGED up
  /\ down' = NotFor(n)
  /\ UNCHANGED <<caller, server, ram, faults>>

Client(n) == ClientTakes(n) \/ ClientRepeats(n) \/ ClientGivesUp(n)

(***************************************************************************)
(* The caller.                                                             *)
(***************************************************************************)
Start ==
  /\ step = "start"
  /\ server' = [server EXCEPT ![attempt].pc = "listen"]
  /\ step' = "ready"
  /\ UNCHANGED <<attempt, outcome, cancel, client, up, down, ram, faults>>

TryAgainOrFail ==
  \/ /\ attempt < Attempts
     /\ attempt' = attempt + 1 /\ step' = "start" /\ UNCHANGED outcome
  \/ /\ attempt = Attempts
     /\ outcome' = "failed" /\ step' = "end" /\ UNCHANGED attempt

\* The answer on "ready": the command is given to U-Boot, or the attempt is over.
Ready ==
  /\ step = "ready" /\ server[attempt].pc # "listen"
  /\ \/ /\ server[attempt].pc \notin Over
        /\ step' = "command" /\ client' = [client EXCEPT ![attempt].state = "loading"]
        /\ ToServer(attempt, RRQ) /\ UNCHANGED <<attempt, outcome>>
     \/ server[attempt].pc \in Over /\ TryAgainOrFail /\ UNCHANGED <<client, up>>
  /\ UNCHANGED <<cancel, server, down, ram, faults>>

CommandOk ==
  /\ step = "command" /\ client[attempt].state = "done"
  /\ step' = "join"
  /\ UNCHANGED <<attempt, outcome, cancel, server, client, up, down, ram, faults>>

CommandError ==
  /\ step = "command"
  /\ (client[attempt].state = "failed" /\ NoFault) \/ Fault
  /\ step' = "joinAfterError" /\ cancel' = cancel \cup {attempt}
  /\ UNCHANGED <<attempt, outcome, server, client, up, down, ram>>

\* <-done, without a cancel: the server ends by its own tries.
Join ==
  /\ step = "join" /\ server[attempt].pc \in Over
  /\ \/ ~server[attempt].failed /\ step' = "verify" /\ UNCHANGED <<attempt, outcome>>
     \/ server[attempt].failed /\ TryAgainOrFail
  /\ UNCHANGED <<cancel, server, client, up, down, ram, faults>>

\* Mutant: close(cancel) is taken for the end of the goroutine.
CancelIsEnough ==
  /\ step = "joinAfterError"
  /\ \/ attempt < Attempts /\ step' = "resync" /\ UNCHANGED <<attempt, outcome>>
     \/ attempt = Attempts /\ TryAgainOrFail
  /\ UNCHANGED <<cancel, server, client, up, down, ram, faults>>

JoinAfterError ==
  /\ step = "joinAfterError" /\ server[attempt].pc \in Over
  /\ \/ attempt < Attempts /\ step' = "resync" /\ UNCHANGED <<attempt, outcome>>
     \/ attempt = Attempts /\ TryAgainOrFail
  /\ UNCHANGED <<cancel, server, client, up, down, ram, faults>>

\* Ctrl-C until the prompt is back, and the network variables once more.
Resync ==
  /\ step = "resync"
  /\ client' = [client EXCEPT ![attempt].state = "failed"] /\ down' = NotFor(attempt)
  /\ \/ TryAgainOrFail /\ NoFault
     \/ Fault /\ outcome' = "failed" /\ step' = "end" /\ UNCHANGED attempt
  /\ UNCHANGED <<cancel, server, up, ram>>

VerifyRAM ==
  /\ step = "verify"
  /\ \/ /\ ram = Blocks /\ NoFault
        /\ outcome' = "ok" /\ step' = "end" /\ UNCHANGED attempt
     \/ ((ram # Blocks /\ NoFault) \/ Fault) /\ TryAgainOrFail
  /\ UNCHANGED <<cancel, server, client, up, down, ram>>

Caller ==
  Start \/ Ready \/ CommandOk \/ CommandError \/ Join \/ JoinAfterError \/ Resync \/ VerifyRAM

Next == Caller \/ \E n \in Tries : Server(n) \/ Client(n)

Spec == Init /\ [][Next]_vars

\* Every wait of the server, of U-Boot and of the caller has a deadline.
FairSpec ==
  /\ Spec /\ WF_vars(Caller)
  /\ \A n \in Tries : WF_vars(Server(n)) /\ WF_vars(Client(n))

-----------------------------------------------------------------------------

\* A load that reports success has put the file into the RAM, and a server that does has
\* delivered every block to the tftpboot it served, though ACKs are repeated, delayed and
\* taken from an attempt that was given up.
SuccessIsReal ==
  /\ outcome = "ok" => ram = Blocks /\ ~server[attempt].failed
  /\ \A n \in Tries :
       server[n].pc \in Over /\ ~server[n].failed => client[server[n].peer].have = NumBlocks

\* When the next attempt starts, or the load returns, no goroutine of it serves any more.
NoServerLeftBehind ==
  step \in {"start", "end"} => \A n \in Tries : server[n].pc \notin Serving

\* The load returns: nobody waits for an answer that never comes.
LoadEnds == <>(step = "end")
==============================================================================
