------------------------------ MODULE TftpProofs ------------------------------
(***************************************************************************)
(* What a finished load means, for every file length, number of attempts   *)
(* and number of repetitions, and whatever happens to the packets.         *)
(*                                                                         *)
(* An ACK on its way, however late, is for a block that U-Boot has         *)
(* (AcksAreTrue), so the last one proves the whole file; and a goroutine   *)
(* or a tftpboot is at work only in the attempt the caller is in           *)
(* (OneAttempt), so nothing overwrites what has been proven.               *)
(***************************************************************************)
EXTENDS TftpTransfer, TLAPS

Steps == {"start", "ready", "command", "join", "joinAfterError", "resync", "verify", "end"}
Numbers == 0..NumBlocks
Servers == [pc : {"none"} \cup Serving \cup Over, peer : {0} \cup Tries, block : Numbers,
            tries : Int, failed : BOOLEAN]
Clients == [state : {"idle", "loading", "done", "failed"}, have : {-1} \cup Numbers, tries : Int]

TypeOK ==
  /\ attempt \in Tries /\ step \in Steps /\ outcome \in {"running", "ok", "failed"}
  /\ server \in [Tries -> Servers] /\ client \in [Tries -> Clients]
  /\ up \subseteq [from : Tries, ack : {RRQ, ERROR} \cup Numbers]
  /\ down \subseteq [to : Tries, block : Numbers]

AcksAreTrue == \A p \in up : p.ack >= 0 => p.ack <= client[p.from].have

Succeeded(r) == r.pc \in Over /\ ~r.failed

SuccessIsDelivery ==
  \A n \in Tries :
    /\ server[n].pc = "read" => server[n].peer \in Tries
    /\ Succeeded(server[n]) => server[n].peer \in Tries /\ client[server[n].peer].have = NumBlocks

OneAttempt ==
  /\ \A n \in Tries : n > attempt => server[n].pc = "none" /\ client[n].state = "idle"
  /\ step = "start" => server[attempt].pc = "none"
  /\ step \in {"start", "ready"} => client[attempt].state = "idle"
  /\ \A n \in Tries : server[n].pc \in Serving =>
       n = attempt /\ step \in {"ready", "command", "join", "joinAfterError"}
  /\ \A n \in Tries : client[n].state = "loading" =>
       \/ n = attempt /\ step \in {"command", "joinAfterError", "resync"}
       \/ outcome = "failed"
  /\ step \in {"join", "verify"} => client[attempt].state = "done"
  /\ outcome # "running" => step = "end"
  /\ step = "verify" \/ outcome = "ok" => Succeeded(server[attempt])
  /\ step = "resync" => server[attempt].pc \in Over

TftpInv == TypeOK /\ AcksAreTrue /\ SuccessIsDelivery /\ OneAttempt /\ (outcome = "ok" => ram = Blocks)

LEMMA Initially == Init => TftpInv
<1> SUFFICES ASSUME Init PROVE TftpInv
  OBVIOUS
<1>1. TypeOK
  <2>1. 1 \in Tries /\ 0 \in Numbers
    BY TftpAssumption DEF Tries, Numbers
  <2>2. server \in [Tries -> Servers]
    BY <2>1 DEF Init, Servers
  <2>3. client \in [Tries -> Clients]
    BY DEF Init, Clients
  <2> QED
    BY <2>1, <2>2, <2>3 DEF Init, TypeOK, Steps
<1>2. AcksAreTrue /\ SuccessIsDelivery /\ OneAttempt
  <2>1. \A n \in Tries : server[n].pc = "none" /\ client[n].state = "idle"
    BY DEF Init
  <2>2. attempt \in Tries
    BY <1>1 DEF TypeOK
  <2> QED
    BY <2>1, <2>2 DEF Init, AcksAreTrue, SuccessIsDelivery, OneAttempt, Succeeded, Over, Serving
<1> QED
  BY <1>1, <1>2 DEF Init, TftpInv

(***************************************************************************)
(* The server goroutine.                                                   *)
(***************************************************************************)
\* A goroutine goes from one state to a later one, and reports success only of a whole file.
ServerMoves(n, r) ==
  /\ server' = [server EXCEPT ![n] = r]
  /\ r \in Servers /\ r.pc # "none" /\ server[n].pc # "none"
  /\ r.pc \in Serving => server[n].pc \in Serving
  /\ server[n].pc \in Over => r.pc \in Over /\ r.failed = server[n].failed /\ r.peer = server[n].peer
  /\ r.pc = "read" => r.peer \in Tries
  /\ Succeeded(r) => r.peer \in Tries /\ client[r.peer].have = NumBlocks

LEMMA ServerFrame ==
  ASSUME TftpInv, NEW n \in Tries, NEW r, ServerMoves(n, r), UNCHANGED <<caller, client, ram>>,
         up' \subseteq up, down' \subseteq [to : Tries, block : Numbers]
  PROVE  TftpInv'
<1>1. \A m \in Tries : server'[m] = IF m = n THEN r ELSE server[m]
  BY DEF ServerMoves, TftpInv, TypeOK
<1>2. TypeOK'
  BY DEF ServerMoves, TftpInv, TypeOK, caller
<1>3. AcksAreTrue'
  BY DEF TftpInv, AcksAreTrue
<1>4. SuccessIsDelivery'
  BY <1>1 DEF ServerMoves, TftpInv, SuccessIsDelivery
<1>5. OneAttempt'
  BY <1>1 DEF ServerMoves, TftpInv, TypeOK, OneAttempt, Succeeded, caller
<1> QED
  BY <1>2, <1>3, <1>4, <1>5 DEF TftpInv, caller

\* A goroutine that fails.
LEMMA FailureMoves ==
  ASSUME TftpInv, NEW n \in Tries, server[n].pc \in Serving, Finish(n, TRUE)
  PROVE  \E r : ServerMoves(n, r)
<1> DEFINE r == [server[n] EXCEPT !.pc = "sent", !.failed = TRUE]
<1>1. server[n] \in Servers
  BY DEF TftpInv, TypeOK
<1>2. r \in Servers /\ r.pc = "sent" /\ r.failed = TRUE
  BY <1>1 DEF Servers, Over
<1>3. server' = [server EXCEPT ![n] = r]
  BY <1>1 DEF Finish, Servers
<1> QED
  BY <1>2, <1>3 DEF ServerMoves, Serving, Over, Succeeded

\* A round of a retry loop.
LEMMA RoundMoves ==
  ASSUME TftpInv, NEW n \in Tries, server[n].pc \in Serving,
         NEW to \in Tries, NEW b \in Numbers, NEW t \in Int, Round(n, to, b, t)
  PROVE  (\E r : ServerMoves(n, r)) /\ down' \subseteq [to : Tries, block : Numbers]
<1>1. CASE Finish(n, TRUE) /\ UNCHANGED down
  BY <1>1, FailureMoves DEF TftpInv, TypeOK
<1>2. CASE ~(n \in cancel \/ t > Limit(b))
  <2> DEFINE r == [pc |-> "read", peer |-> to, block |-> b, tries |-> t, failed |-> FALSE]
  <2>1. ServerMoves(n, r)
    BY <1>2 DEF Round, ServerMoves, Servers, Serving, Over, Succeeded
  <2>2. down' \subseteq [to : Tries, block : Numbers]
    BY <1>2 DEF Round, TftpInv, TypeOK
  <2> QED
    BY <2>1, <2>2
<1> QED
  BY <1>1, <1>2 DEF Round

LEMMA AgainMoves ==
  ASSUME TftpInv, NEW n \in Tries, server[n].pc = "read", Again(n)
  PROVE  (\E r : ServerMoves(n, r)) /\ down' \subseteq [to : Tries, block : Numbers]
<1>1. /\ server[n].pc \in Serving /\ server[n].peer \in Tries /\ server[n].block \in Numbers
      /\ server[n].tries + 1 \in Int
  BY DEF TftpInv, TypeOK, SuccessIsDelivery, Servers, Serving
<1> QED
  BY <1>1, RoundMoves DEF Again

\* The ACK of the block in hand: the next one, or success.
LEMMA AckMoves ==
  ASSUME TftpInv, NEW n \in Tries, server[n].pc = "read", Acked(n),
         NEW p \in up, p.from = server[n].peer, p.ack = server[n].block
  PROVE  (\E r : ServerMoves(n, r)) /\ down' \subseteq [to : Tries, block : Numbers]
<1>1. /\ server[n] \in Servers /\ server[n].pc \in Serving /\ server[n].peer \in Tries
      /\ server[n].block \in Numbers
  BY DEF TftpInv, TypeOK, SuccessIsDelivery, Servers, Serving
<1>2. CASE server[n].block = NumBlocks
  <2> DEFINE r == [server[n] EXCEPT !.pc = "sent", !.failed = FALSE]
  <2>1. r \in Servers /\ r.pc = "sent" /\ r.peer = server[n].peer
    BY <1>1 DEF Servers, Over
  <2>2. server' = [server EXCEPT ![n] = r] /\ UNCHANGED down
    BY <1>1, <1>2 DEF Acked, Finish, Servers
  <2>3. client[p.from].have = NumBlocks
    <3>1. client[p.from] \in Clients /\ NumBlocks \in Nat
      BY <1>1, TftpAssumption DEF TftpInv, TypeOK
    <3>2. NumBlocks <= client[p.from].have
      BY <1>2, <3>1 DEF TftpInv, AcksAreTrue
    <3> QED
      BY <3>1, <3>2 DEF Clients, Numbers
  <2> QED
    BY <1>1, <2>1, <2>2, <2>3 DEF ServerMoves, Serving, Over, TftpInv, TypeOK
<1>3. CASE server[n].block # NumBlocks
  <2>1. server[n].block + 1 \in Numbers
    BY <1>1, <1>3, TftpAssumption DEF Numbers
  <2> QED
    BY <1>1, <1>3, <2>1, RoundMoves DEF Acked
<1> QED
  BY <1>2, <1>3

LEMMA ServerKeeps ==
  ASSUME TftpInv, NEW n \in Tries, Server(n)
  PROVE  TftpInv'
<1>0. down \subseteq [to : Tries, block : Numbers]
  BY DEF TftpInv, TypeOK
<1>1. CASE Listen(n)
  <2>1. CASE Finish(n, TRUE)
    BY <1>0, <1>1, <2>1, FailureMoves, ServerFrame DEF Listen, Serving
  <2>2. CASE server' = [server EXCEPT ![n].pc = "rrq"]
    <3> DEFINE r == [server[n] EXCEPT !.pc = "rrq"]
    <3>1. server[n] \in Servers
      BY DEF TftpInv, TypeOK
    <3>2. r \in Servers /\ r.pc = "rrq" /\ server' = [server EXCEPT ![n] = r]
      BY <2>2, <3>1 DEF Servers, Serving
    <3>3. ServerMoves(n, r)
      BY <1>1, <3>2 DEF Listen, ServerMoves, Serving, Over, Succeeded
    <3> QED
      BY <1>0, <1>1, <3>3, ServerFrame DEF Listen
  <2> QED
    BY <1>1, <2>1, <2>2 DEF Listen
<1>2. CASE TakeRequest(n)
  <2>1. UNCHANGED <<caller, client, ram>> /\ up' \subseteq up /\ server[n].pc \in Serving
    BY <1>2 DEF TakeRequest, Received, Serving
  <2>2. PICK p \in up : \/ p.ack = RRQ /\ \E first \in {0, 1} : Round(n, p.from, first, 1)
                        \/ UNCHANGED <<server, down>>
    BY <1>2 DEF TakeRequest
  <2>3. CASE UNCHANGED <<server, down>>
    <3>1. server[n] \in Servers /\ server' = [server EXCEPT ![n] = server[n]]
      BY <2>3 DEF TftpInv, TypeOK
    <3>2. ServerMoves(n, server[n])
      BY <2>1, <3>1 DEF ServerMoves, Serving, Over, TftpInv, SuccessIsDelivery
    <3> QED
      BY <1>0, <2>1, <2>3, <3>2, ServerFrame
  <2>4. ASSUME NEW first \in {0, 1}, Round(n, p.from, first, 1) PROVE TftpInv'
    <3>1. p.from \in Tries /\ first \in Numbers
      BY TftpAssumption DEF TftpInv, TypeOK, Numbers
    <3> QED
      BY <2>1, <2>4, <3>1, RoundMoves, ServerFrame
  <2> QED
    BY <2>2, <2>3, <2>4
<1>3. CASE NoRequest(n) \/ ServerFails(n)
  BY <1>0, <1>3, FailureMoves, ServerFrame DEF NoRequest, ServerFails, Serving
<1>4. CASE ServerRead(n)
  <2>1. UNCHANGED <<caller, client, ram>> /\ up' \subseteq up /\ server[n].pc = "read"
    BY <1>4 DEF ServerRead, Received
  <2>2. PICK p \in up : \/ p.from = server[n].peer /\ p.ack = server[n].block /\ Acked(n)
                        \/ Finish(n, TRUE) /\ UNCHANGED down
                        \/ Again(n)
    BY <1>4 DEF ServerRead
  <2>3. (\E r : ServerMoves(n, r)) /\ down' \subseteq [to : Tries, block : Numbers]
    BY <1>0, <2>1, <2>2, AckMoves, AgainMoves, FailureMoves DEF Serving
  <2> QED
    BY <2>1, <2>3, ServerFrame
<1>5. CASE ServerReadTimeout(n)
  BY <1>5, AgainMoves, ServerFrame DEF ServerReadTimeout
<1>6. CASE ServerClose(n)
  <2> DEFINE r == [server[n] EXCEPT !.pc = "closed"]
  <2>1. server[n] \in Servers
    BY DEF TftpInv, TypeOK
  <2>2. /\ r \in Servers /\ r.pc = "closed" /\ r.failed = server[n].failed /\ r.peer = server[n].peer
        /\ server' = [server EXCEPT ![n] = r]
    BY <1>6, <2>1 DEF ServerClose, Servers, Over
  <2>3. ServerMoves(n, r)
    BY <1>6, <2>2 DEF ServerClose, ServerMoves, Serving, Over, Succeeded, TftpInv, SuccessIsDelivery
  <2> QED
    BY <1>0, <1>6, <2>3, ServerFrame DEF ServerClose
<1> QED
  BY <1>1, <1>2, <1>3, <1>4, <1>5, <1>6 DEF Server

(***************************************************************************)
(* U-Boot's tftpboot.  What it has only grows, so ACKs stay true.          *)
(***************************************************************************)
ClientMoves(n, r) ==
  /\ client' = [client EXCEPT ![n] = r]
  /\ r \in Clients /\ client[n].have <= r.have
  /\ r.state = "loading" => client[n].state = "loading"
  /\ client[n].state = "loading"

LEMMA ClientFrame ==
  ASSUME TftpInv, NEW n \in Tries, NEW r, ClientMoves(n, r), UNCHANGED <<caller, server>>,
         down' \subseteq down,
         \A p \in up' \ up : p \in [from : {n}, ack : {RRQ, ERROR} \cup Numbers] /\ p.ack <= r.have
  PROVE  TftpInv'
<1>1. \A m \in Tries : client'[m] = IF m = n THEN r ELSE client[m]
  BY DEF ClientMoves, TftpInv, TypeOK
<1>2. TypeOK'
  BY DEF ClientMoves, TftpInv, TypeOK, caller
<1>3. \A m \in Tries : client[m] \in Clients
  BY DEF TftpInv, TypeOK
<1>4. AcksAreTrue'
  <2> SUFFICES ASSUME NEW p \in up', p.ack >= 0 PROVE p.ack <= client'[p.from].have
    BY DEF AcksAreTrue
  <2>1. CASE p \in up
    <3>1. p.ack <= client[p.from].have /\ p.from \in Tries /\ p.ack \in Int
      BY <2>1, TftpAssumption DEF TftpInv, AcksAreTrue, TypeOK, RRQ, ERROR, Numbers
    <3>2. client[p.from].have \in Int /\ r.have \in Int
      BY <1>3, <3>1, TftpAssumption DEF ClientMoves, Clients, Numbers
    <3>3. client[p.from].have <= client'[p.from].have
      BY <1>1, <3>1, <3>2 DEF ClientMoves
    <3> QED
      BY <1>1, <3>1, <3>2, <3>3
  <2>2. CASE p \notin up
    BY <1>1, <2>2
  <2> QED
    BY <2>1, <2>2
<1>5. SuccessIsDelivery'
  <2> SUFFICES ASSUME NEW m \in Tries, Succeeded(server[m]) PROVE client'[server[m].peer].have = NumBlocks
    BY DEF SuccessIsDelivery, TftpInv, Succeeded
  <2>1. server[m].peer \in Tries /\ client[server[m].peer].have = NumBlocks
    BY DEF TftpInv, SuccessIsDelivery
  <2>2. r.have \in {-1} \cup Numbers /\ client[n].have <= r.have
    BY DEF ClientMoves, Clients
  <2> QED
    BY <1>1, <2>1, <2>2, TftpAssumption DEF Numbers
<1>6. OneAttempt'
  BY <1>1 DEF ClientMoves, TftpInv, TypeOK, OneAttempt, Succeeded, caller
<1>7. outcome' = "ok" => ram' = Blocks
  BY DEF TftpInv, OneAttempt, ClientMoves, caller
<1> QED
  BY <1>2, <1>4, <1>5, <1>6, <1>7 DEF TftpInv

LEMMA ClientKeeps ==
  ASSUME TftpInv, NEW n \in Tries, Client(n)
  PROVE  TftpInv'
<1>1. /\ client[n] \in Clients /\ client[n].have \in {-1} \cup Numbers /\ NumBlocks \in Nat
      /\ client[n].tries \in Int
  BY TftpAssumption DEF TftpInv, TypeOK, Clients
<1>2. CASE ClientTakes(n)
  <2>1. PICK p \in down :
          /\ p.to = n
          /\ \/ /\ InTurn(client[n], p.block)
                /\ client' = [client EXCEPT ![n] =
                     [state |-> IF p.block = NumBlocks THEN "done" ELSE "loading",
                      have |-> p.block, tries |-> 0]]
                /\ down' \subseteq down /\ ToServer(n, p.block)
             \/ /\ UNCHANGED client /\ down' \subseteq down
                /\ (p.block = client[n].have /\ ToServer(n, p.block)) \/ UNCHANGED up
    BY <1>2 DEF ClientTakes, NotFor
  <2>2. p.block \in Numbers
    BY DEF TftpInv, TypeOK
  <2>3. UNCHANGED <<caller, server>> /\ client[n].state = "loading"
    BY <1>2 DEF ClientTakes
  <2>4. CASE /\ InTurn(client[n], p.block)
             /\ client' = [client EXCEPT ![n] =
                  [state |-> IF p.block = NumBlocks THEN "done" ELSE "loading",
                   have |-> p.block, tries |-> 0]]
             /\ down' \subseteq down /\ ToServer(n, p.block)
    <3> DEFINE r == [state |-> IF p.block = NumBlocks THEN "done" ELSE "loading",
                     have |-> p.block, tries |-> 0]
    <3>1. client[n].have <= p.block
      BY <1>1, <2>2, <2>4 DEF InTurn, Numbers
    <3>2. ClientMoves(n, r)
      BY <2>2, <2>3, <2>4, <3>1 DEF ClientMoves, Clients
    <3>3. \A x \in up' \ up : x \in [from : {n}, ack : {RRQ, ERROR} \cup Numbers] /\ x.ack <= r.have
      BY <1>1, <2>2, <2>4 DEF ToServer, Numbers
    <3> QED
      BY <2>3, <2>4, <3>2, <3>3, ClientFrame
  <2>5. CASE /\ UNCHANGED client /\ down' \subseteq down
             /\ (p.block = client[n].have /\ ToServer(n, p.block)) \/ UNCHANGED up
    <3>1. ClientMoves(n, client[n])
      BY <1>1, <2>3, <2>5 DEF ClientMoves, TftpInv, TypeOK, Numbers
    <3>2. \A x \in up' \ up :
            x \in [from : {n}, ack : {RRQ, ERROR} \cup Numbers] /\ x.ack <= client[n].have
      BY <1>1, <2>2, <2>5 DEF ToServer, Numbers
    <3> QED
      BY <2>3, <2>5, <3>1, <3>2, ClientFrame
  <2> QED
    BY <2>1, <2>4, <2>5
<1>3. CASE ClientRepeats(n)
  <2> DEFINE r == [client[n] EXCEPT !.tries = @ + 1]
  <2>1. ClientMoves(n, r) /\ r.have = client[n].have
    BY <1>1, <1>3 DEF ClientRepeats, ClientMoves, Clients, Numbers
  <2>2. \A x \in up' \ up : x \in [from : {n}, ack : {RRQ, ERROR} \cup Numbers] /\ x.ack <= r.have
    BY <1>1, <1>3, <2>1 DEF ClientRepeats, ToServer, LastSent, RRQ, Numbers
  <2> QED
    BY <1>3, <2>1, <2>2, ClientFrame DEF ClientRepeats
<1>4. CASE ClientGivesUp(n)
  <2> DEFINE r == [client[n] EXCEPT !.state = "failed"]
  <2>1. ClientMoves(n, r) /\ r.have = client[n].have
    BY <1>1, <1>4 DEF ClientGivesUp, ClientMoves, Clients, Numbers
  <2>2. \A x \in up' \ up : x \in [from : {n}, ack : {RRQ, ERROR} \cup Numbers] /\ x.ack <= r.have
    BY <1>1, <1>4, <2>1 DEF ClientGivesUp, ToServer, ERROR, Numbers
  <2> QED
    BY <1>4, <2>1, <2>2, ClientFrame DEF ClientGivesUp, NotFor
<1> QED
  BY <1>2, <1>3, <1>4 DEF Client

(***************************************************************************)
(* The caller.                                                             *)
(***************************************************************************)
\* Where the attempt is over in every respect, the next one starts or the load fails.
LEMMA NextAttempt ==
  ASSUME TftpInv, TryAgainOrFail, UNCHANGED server, step # "end",
         \A n \in Tries : server[n].pc \notin Serving,
         \A n \in Tries : n > attempt => client'[n].state = "idle",
         \A n \in Tries : client'[n].state # "loading" \/ outcome' = "failed"
  PROVE  /\ OneAttempt' /\ attempt' \in Tries /\ step' \in Steps
         /\ outcome' \in {"running", "failed"}
<1>1. attempt \in Nat /\ 1 <= attempt /\ attempt <= Attempts /\ Attempts \in Nat /\ outcome = "running"
  BY TftpAssumption DEF TftpInv, TypeOK, OneAttempt, Tries
<1>2. CASE attempt < Attempts /\ attempt' = attempt + 1 /\ step' = "start" /\ UNCHANGED outcome
  BY <1>1, <1>2 DEF OneAttempt, TftpInv, TypeOK, Tries, Steps, Serving
<1>3. CASE outcome' = "failed" /\ step' = "end" /\ UNCHANGED attempt
  BY <1>1, <1>3 DEF OneAttempt, TftpInv, TypeOK, Tries, Steps
<1> QED
  BY <1>2, <1>3 DEF TryAgainOrFail

\* The parts of the invariant that a step of the caller leaves to be looked at.
LEMMA CallerFrame ==
  ASSUME TftpInv, OneAttempt', attempt' \in Tries, step' \in Steps,
         outcome' \in {"running", "ok", "failed"}, outcome' = "ok" => ram' = Blocks,
         UNCHANGED server, down' \subseteq down, up' \subseteq up \cup {[from |-> attempt, ack |-> RRQ]},
         \/ UNCHANGED client
         \/ \E s \in {"loading", "failed"} : client' = [client EXCEPT ![attempt].state = s]
  PROVE  TftpInv'
<1>1. \A n \in Tries : client'[n].have = client[n].have
  BY DEF TftpInv, TypeOK, Clients
<1>2. client' \in [Tries -> Clients]
  BY DEF TftpInv, TypeOK, Clients
<1>3. TypeOK'
  BY <1>2 DEF TftpInv, TypeOK
<1>4. AcksAreTrue'
  BY <1>1 DEF TftpInv, TypeOK, AcksAreTrue, RRQ
<1>5. SuccessIsDelivery'
  BY <1>1 DEF TftpInv, TypeOK, SuccessIsDelivery
<1> QED
  BY <1>3, <1>4, <1>5 DEF TftpInv

LEMMA StartKeeps ==
  ASSUME TftpInv, Start
  PROVE  TftpInv'
<1> DEFINE r == [server[attempt] EXCEPT !.pc = "listen"]
<1>0. attempt \in Tries /\ server[attempt] \in Servers
  BY DEF TftpInv, TypeOK
<1>1. /\ r \in Servers /\ r.pc = "listen"
      /\ \A n \in Tries : server'[n] = IF n = attempt THEN r ELSE server[n]
  BY <1>0 DEF Start, Servers, Serving, TftpInv, TypeOK
<1>2. TypeOK'
  BY <1>1 DEF Start, TftpInv, TypeOK, Steps
<1>3. AcksAreTrue' /\ SuccessIsDelivery'
  BY <1>1 DEF Start, TftpInv, AcksAreTrue, SuccessIsDelivery, Succeeded, Over
<1>4. OneAttempt'
  BY <1>1 DEF Start, TftpInv, TypeOK, OneAttempt, Serving, Over, Succeeded, Tries
<1> QED
  BY <1>2, <1>3, <1>4 DEF Start, TftpInv

LEMMA CallerKeeps ==
  ASSUME TftpInv, Caller
  PROVE  TftpInv'
<1>0. attempt \in Tries /\ client[attempt] \in Clients
  BY DEF TftpInv, TypeOK
\* With the caller's own goroutine over, none is at work; and no other tftpboot is.
<1>a. ASSUME server[attempt].pc \in Over PROVE \A n \in Tries : server[n].pc \notin Serving
  BY <1>a DEF TftpInv, OneAttempt, Over, Serving
<1>b. step # "end" => \A n \in Tries \ {attempt} : client[n].state # "loading"
  BY DEF TftpInv, OneAttempt
<1>c. \A n \in Tries : n > attempt => client[n].state = "idle" /\ n # attempt
  BY <1>0 DEF TftpInv, OneAttempt, Tries
<1>1. CASE Start
  BY <1>1, StartKeeps
<1>2. CASE Ready
  <2>1. client[attempt].state = "idle" /\ outcome = "running"
    BY <1>2 DEF Ready, TftpInv, OneAttempt
  <2>2. CASE step' = "command"
    <3>1. client' = [client EXCEPT ![attempt].state = "loading"] /\ UNCHANGED <<attempt, outcome, server>>
      BY <1>2, <2>2 DEF Ready, TryAgainOrFail
    <3>2. \A n \in Tries : client'[n].state = IF n = attempt THEN "loading" ELSE client[n].state
      BY <1>0, <3>1 DEF TftpInv, TypeOK, Clients
    <3>3. OneAttempt'
      BY <1>0, <1>2, <2>1, <2>2, <3>1, <3>2 DEF Ready, TftpInv, OneAttempt, Tries
    <3> QED
      BY <1>0, <1>2, <2>1, <2>2, <3>1, <3>3, CallerFrame DEF Ready, ToServer, Steps
  <2>3. CASE server[attempt].pc \in Over /\ TryAgainOrFail /\ UNCHANGED <<client, up>>
    <3>1. /\ OneAttempt' /\ attempt' \in Tries /\ step' \in Steps
          /\ outcome' \in {"running", "failed"}
      BY <1>2, <1>a, <1>b, <1>c, <2>1, <2>3, NextAttempt DEF Ready
    <3> QED
      BY <1>2, <2>3, <3>1, CallerFrame DEF Ready
  <2> QED
    BY <1>2, <2>2, <2>3 DEF Ready
<1>3. CASE CommandOk
  <2>1. OneAttempt'
    BY <1>3 DEF CommandOk, TftpInv, OneAttempt
  <2> QED
    BY <1>0, <1>3, <2>1, CallerFrame DEF CommandOk, Steps, TftpInv, TypeOK
<1>4. CASE CommandError
  <2>1. OneAttempt'
    BY <1>4 DEF CommandError, TftpInv, OneAttempt
  <2> QED
    BY <1>0, <1>4, <2>1, CallerFrame DEF CommandError, Steps, TftpInv, TypeOK
<1>5. CASE Join
  <2>1. client[attempt].state = "done" /\ server[attempt].pc \in Over
    BY <1>5 DEF Join, TftpInv, OneAttempt
  <2>2. CASE ~server[attempt].failed /\ step' = "verify" /\ UNCHANGED <<attempt, outcome>>
    <3>1. OneAttempt'
      BY <1>5, <2>1, <2>2, <1>a DEF Join, TftpInv, OneAttempt, Succeeded
    <3> QED
      BY <1>0, <1>5, <2>2, <3>1, CallerFrame DEF Join, Steps, TftpInv, TypeOK
  <2>3. CASE TryAgainOrFail
    <3>1. /\ OneAttempt' /\ attempt' \in Tries /\ step' \in Steps
          /\ outcome' \in {"running", "failed"}
      BY <1>5, <1>a, <1>b, <1>c, <2>1, <2>3, NextAttempt DEF Join
    <3> QED
      BY <1>5, <3>1, CallerFrame DEF Join
  <2> QED
    BY <1>5, <2>2, <2>3 DEF Join
<1>6. CASE JoinAfterError
  <2>1. CASE step' = "resync" /\ UNCHANGED <<attempt, outcome>>
    <3>1. OneAttempt'
      BY <1>6, <1>a, <2>1 DEF JoinAfterError, TftpInv, OneAttempt
    <3> QED
      BY <1>0, <1>6, <2>1, <3>1, CallerFrame DEF JoinAfterError, Steps, TftpInv, TypeOK
  <2>2. CASE attempt = Attempts /\ TryAgainOrFail
    <3>0. outcome' = "failed"
      BY <1>0, <2>2, TftpAssumption DEF TryAgainOrFail
    <3>1. /\ OneAttempt' /\ attempt' \in Tries /\ step' \in Steps
          /\ outcome' \in {"running", "failed"}
      BY <1>6, <1>a, <1>c, <2>2, <3>0, NextAttempt DEF JoinAfterError
    <3> QED
      BY <1>6, <3>1, CallerFrame DEF JoinAfterError
  <2> QED
    BY <1>6, <2>1, <2>2 DEF JoinAfterError
<1>7. CASE Resync
  <2>1. server[attempt].pc \in Over /\ outcome = "running"
    BY <1>7 DEF Resync, TftpInv, OneAttempt
  <2>2. \A n \in Tries : client'[n].state = IF n = attempt THEN "failed" ELSE client[n].state
    BY <1>0, <1>7 DEF Resync, TftpInv, TypeOK, Clients
  <2>3. CASE TryAgainOrFail
    <3>1. /\ OneAttempt' /\ attempt' \in Tries /\ step' \in Steps
          /\ outcome' \in {"running", "failed"}
      BY <1>7, <1>a, <1>b, <1>c, <2>1, <2>2, <2>3, NextAttempt DEF Resync
    <3> QED
      BY <1>7, <3>1, CallerFrame DEF Resync, NotFor
  <2>4. CASE outcome' = "failed" /\ step' = "end" /\ UNCHANGED attempt
    <3>1. OneAttempt'
      BY <1>7, <1>a, <1>c, <2>1, <2>2, <2>4 DEF Resync, TftpInv, OneAttempt, Serving
    <3> QED
      BY <1>0, <1>7, <2>4, <3>1, CallerFrame DEF Resync, NotFor, Steps
  <2> QED
    BY <1>7, <2>3, <2>4 DEF Resync
<1>8. CASE VerifyRAM
  <2>1. Succeeded(server[attempt]) /\ client[attempt].state = "done"
    BY <1>8 DEF VerifyRAM, TftpInv, OneAttempt
  <2>2. CASE ram = Blocks /\ outcome' = "ok" /\ step' = "end" /\ UNCHANGED attempt
    <3>1. OneAttempt'
      BY <1>8, <1>a, <1>b, <2>1, <2>2 DEF VerifyRAM, TftpInv, OneAttempt, Succeeded
    <3> QED
      BY <1>0, <1>8, <2>2, <3>1, CallerFrame DEF VerifyRAM, Steps
  <2>3. CASE TryAgainOrFail
    <3>1. /\ OneAttempt' /\ attempt' \in Tries /\ step' \in Steps
          /\ outcome' \in {"running", "failed"}
      BY <1>8, <1>a, <1>b, <1>c, <2>1, <2>3, NextAttempt DEF VerifyRAM, Succeeded
    <3> QED
      BY <1>8, <3>1, CallerFrame DEF VerifyRAM
  <2> QED
    BY <1>8, <2>2, <2>3 DEF VerifyRAM
<1> QED
  BY <1>1, <1>2, <1>3, <1>4, <1>5, <1>6, <1>7, <1>8 DEF Caller

LEMMA StepKeeps == TftpInv /\ [Next]_vars => TftpInv'
<1> SUFFICES ASSUME TftpInv, [Next]_vars PROVE TftpInv'
  OBVIOUS
<1>1. CASE UNCHANGED vars
  BY <1>1 DEF vars, caller, TftpInv, TypeOK, AcksAreTrue, SuccessIsDelivery, OneAttempt, Succeeded
<1> QED
  BY <1>1, CallerKeeps, ServerKeeps, ClientKeeps DEF Next

\* A load that reports success has the file in the RAM, and a goroutine that does has delivered
\* every block, for every length and every fate of the packets.
THEOREM LoadIsReal == Spec => []SuccessIsReal
<1>1. TftpInv => SuccessIsReal
  BY DEF TftpInv, OneAttempt, SuccessIsDelivery, SuccessIsReal, Succeeded
<1> QED
  BY <1>1, Initially, StepKeeps, PTL DEF Spec

\* No goroutine of an earlier attempt serves when the next one starts or the load returns.
THEOREM ServersAreJoined == Spec => []NoServerLeftBehind
<1>1. TftpInv => NoServerLeftBehind
  BY DEF TftpInv, OneAttempt, NoServerLeftBehind
<1> QED
  BY <1>1, Initially, StepKeeps, PTL DEF Spec
==============================================================================
