--------------------------- MODULE WsTransferProofs ---------------------------
(***************************************************************************)
(* What the Ethernet console's transfers report and leave behind, for any  *)
(* length, wrap and patience, whatever happens to datagrams, frames and    *)
(* answers.                                                                *)
(*                                                                         *)
(* The operation and its receiver meet twice: at the result, which the     *)
(* receiver sends when it writes no more, and at the partial file.  So the *)
(* operation looks at the file only after the result is there (Goroutine), *)
(* and what it then finds stays as it is to the end (Saved).               *)
(*                                                                         *)
(* The second half is about the terminal the transfers are started from.   *)
(***************************************************************************)
EXTENDS WsTransfer, TerminalScreen, SequenceTheorems, FiniteSetTheorems, WellFoundedInduction, TLAPS

Typing == {"hash1", "put", "hash2", "loadx", "settle", "hashRam"}
Without == {"choose", "hash1", "loadx", "send", "settle", "hashRam", "begin", "chunk"}
Proven == {"check", "hash2", "rename"}
Places == Typing \cup Without \cup Proven \cup {"join", "giveUp", "done"}

Versions == {"before", "changed", "file", "damaged"}
Words == Versions \cup {"hello", "prompt", "ready", "sent", "error"}

TypeInv ==
  /\ pc \in Places /\ reading \in BOOLEAN /\ diskFails \in BOOLEAN /\ locks \in BOOLEAN
  /\ con \in Seq(Words) /\ out \in Seq(Words) /\ ram \in Versions
  /\ off \in 0..Blocks
  /\ recv \in {"off", "wrq", "data", "linger", "finished", "gone"}

Order ==
  /\ reading => pc \in Typing
  /\ outcome # "running" => pc = "done"

Goroutine ==
  /\ files \subseteq {"partial"} \/ outcome = "saved"
  /\ "partial" \in files => recv \notin {"off", "wrq"}
  /\ result # "none" => recv \in {"finished", "gone"}
  /\ pc \in Without \/ (pc = "put" /\ ~reading) => recv = "off"
  /\ pc \in Proven => recv \in {"finished", "gone"}
  /\ pc = "done" => /\ recv \in {"off", "finished", "gone"}
                    /\ "partial" \in files => outcome = "failed" /\ (diskFails \/ locks)

Saved ==
  /\ pc \in {"hash2", "rename"} => content = Image(expected)
  /\ pc = "rename" => expected \in Digests(out)
  /\ outcome = "saved" => files = {"out"} /\ content = Image(expected) /\ expected \in Digests(out)

Sent ==
  /\ "file" \in ToSet(con) \cup ToSet(out) => ram = "file"
  /\ ram \in {"file", "damaged"} => pc \in {"settle", "hashRam", "done"}
  /\ outcome = "sent" => ram = "file"

Uploading ==
  /\ pc \in {"choose", "begin"} => off = 0
  /\ pc = "chunk" /\ off = Blocks => upload = [by |-> "us", chunks |-> Blocks]
  /\ outcome = "uploaded" => upload = [by |-> "us", chunks |-> Blocks]

WsInv == TypeInv /\ Order /\ Goroutine /\ Saved /\ Sent /\ Uploading

(***************************************************************************)
(* What is read and printed.                                               *)
(***************************************************************************)
LEMMA Joined ==
  ASSUME NEW s \in Seq(Words), NEW t \in Seq(Words)
  PROVE  s \o t \in Seq(Words) /\ ToSet(s \o t) \subseteq ToSet(s) \cup ToSet(t)
<1>1. s \o t \in Seq(Words) /\ Len(s \o t) = Len(s) + Len(t)
  OBVIOUS
<1>2. \A i \in 1..Len(s) : (s \o t)[i] = s[i]
  OBVIOUS
<1>3. \A i \in (Len(s) + 1)..(Len(s) + Len(t)) : (s \o t)[i] = t[i - Len(s)]
  OBVIOUS
<1>4. ASSUME NEW i \in 1..(Len(s) + Len(t))
      PROVE  (s \o t)[i] \in ToSet(s) \cup ToSet(t)
  <2>1. CASE i <= Len(s)
    BY <1>2, <2>1 DEF ToSet
  <2>2. CASE i > Len(s)
    <3>1. i - Len(s) \in 1..Len(t)
      BY <2>2
    <3> QED
      BY <1>3, <2>2, <3>1 DEF ToSet
  <2> QED
    BY <2>1, <2>2
<1> QED
  BY <1>1, <1>4 DEF ToSet

LEMMA Part ==
  ASSUME NEW s \in Seq(Words), NEW m \in 1..(Len(s) + 1), NEW n \in 0..Len(s)
  PROVE  SubSeq(s, m, n) \in Seq(Words) /\ ToSet(SubSeq(s, m, n)) \subseteq ToSet(s)
<1>1. /\ SubSeq(s, m, n) \in Seq(Words)
      /\ Len(SubSeq(s, m, n)) = IF m <= n THEN n - m + 1 ELSE 0
      /\ \A i \in 1..Len(SubSeq(s, m, n)) : SubSeq(s, m, n)[i] = s[m + i - 1]
  OBVIOUS
<1>2. \A i \in 1..Len(SubSeq(s, m, n)) : m + i - 1 \in 1..Len(s)
  BY <1>1
<1> QED
  BY <1>1, <1>2 DEF ToSet

LEMMA Nothing == ToSet(<<>>) = {} /\ <<>> \in Seq(Words)
BY DEF ToSet

LEMMA One ==
  ASSUME NEW a \in Words
  PROVE  <<a>> \in Seq(Words) /\ ToSet(<<a>>) = {a}
<1> DEFINE s == <<a>>
<1>1. s \in Seq(Words) /\ DOMAIN s = {1} /\ s[1] = a
  OBVIOUS
<1> HIDE DEF s
<1>2. ToSet(s) = {a}
  BY <1>1 DEF ToSet
<1> QED
  BY <1>1, <1>2 DEF s

LEMMA Two ==
  ASSUME NEW a \in Words, NEW b \in Words
  PROVE  <<a, b>> \in Seq(Words) /\ ToSet(<<a, b>>) = {a, b}
<1> DEFINE s == <<a, b>>
<1>1. s \in Seq(Words) /\ DOMAIN s = {1, 2} /\ s[1] = a /\ s[2] = b
  OBVIOUS
<1> HIDE DEF s
<1>2. ToSet(s) = {a, b}
  BY <1>1 DEF ToSet
<1> QED
  BY <1>1, <1>2 DEF s

(***************************************************************************)
(* UrsusBoot and the network: nothing of theirs but the text matters.      *)
(***************************************************************************)
Still == UNCHANGED <<host, disk, recv, result, ram, upload>>

LEMMA PrintingKeeps ==
  ASSUME WsInv, Still, NEW t \in Seq(Words), "file" \in ToSet(t) => ram = "file",
         con' = con \/ con' = con \o t
  PROVE  WsInv'
<1>1. con' \in Seq(Words) /\ ToSet(con') \subseteq ToSet(con) \cup ToSet(t)
  BY Joined DEF WsInv, TypeInv
<1>2. Sent'
  BY <1>1 DEF WsInv, Sent, Still, host
<1>3. TypeInv' /\ Order' /\ Uploading'
  BY <1>1 DEF WsInv, TypeInv, Order, Uploading, Still, host, disk
<1>4. Goroutine' /\ Saved'
  BY DEF WsInv, Goroutine, Saved, Still, host, disk, Image, Digests
<1> QED
  BY <1>2, <1>3, <1>4 DEF WsInv

LEMMA StillKeeps ==
  ASSUME WsInv, Still, UNCHANGED con
  PROVE  WsInv'
BY Nothing, PrintingKeeps

LEMMA UrsusKeeps ==
  ASSUME WsInv, Ursus
  PROVE  WsInv'
<1>1. CASE Hash
  <2>1. <<ram, "prompt">> \in Seq(Words) /\ ToSet(<<ram, "prompt">>) = {ram, "prompt"}
    BY Two DEF WsInv, TypeInv, Words
  <2> QED
    BY <1>1, <2>1, PrintingKeeps DEF Hash, Prints, Still, receiver
<1>2. CASE OtherCommands
  <2>1. PICK a \in {"ready", "prompt"} : Prints(<<a>>)
    BY <1>2 DEF OtherCommands
  <2>2. <<a>> \in Seq(Words) /\ ToSet(<<a>>) = {a}
    BY One DEF Words
  <2> QED
    BY <1>2, <2>1, <2>2, PrintingKeeps DEF OtherCommands, Prints, Still, receiver
<1>3. CASE StartPut
  BY <1>3, StillKeeps DEF StartPut, Still, receiver
<1>4. CASE Acked
  <2>1. <<"sent", "prompt">> \in Seq(Words) /\ ToSet(<<"sent", "prompt">>) = {"sent", "prompt"}
    BY Two DEF Words
  <2> QED
    BY <1>4, <2>1, PrintingKeeps DEF Acked, Prints, Still, receiver
<1>5. CASE PutTimeout
  <2>1. <<"error", "prompt">> \in Seq(Words) /\ ToSet(<<"error", "prompt">>) = {"error", "prompt"}
    BY Two DEF Words
  <2> QED
    BY <1>5, <2>1, PrintingKeeps DEF PutTimeout, Prints, Still, receiver
<1>6. CASE PutRepeatsInTime
  BY <1>6, StillKeeps DEF PutRepeatsInTime, Still, receiver
<1>7. CASE NobodyThere
  BY <1>7, StillKeeps DEF NobodyThere, Still, receiver, ursus
<1> QED
  BY <1>1, <1>2, <1>3, <1>4, <1>5, <1>6, <1>7 DEF Ursus

LEMMA RamChangesKeeps ==
  ASSUME WsInv, RamChanges
  PROVE  WsInv'
BY DEF RamChanges, WsInv, TypeInv, Versions, Order, Goroutine, Saved, Sent, Uploading, host,
       disk, receiver, net,
       Image, Digests

(***************************************************************************)
(* The receiver writes only before it sends its result.                    *)
(***************************************************************************)
LEMMA ReceiverKeeps ==
  ASSUME WsInv, Receiver
  PROVE  WsInv'
<1> DEFINE Rest == UNCHANGED <<host, con, ram, upload, diskFails, locks>>
<1>1. ASSUME Rest, recv \in {"wrq", "data", "linger"}, UNCHANGED <<files, content>>,
             \/ recv' = recv /\ result' = result
             \/ recv' = "finished"
      PROVE  WsInv'
  BY <1>1 DEF WsInv, TypeInv, Order, Goroutine, Saved, Sent, Uploading, host, Image, Digests
<1>2. ASSUME Rest, recv \in {"wrq", "data", "linger"}, recv' \in {"data", "linger"}, UNCHANGED result,
             files' = files \cup {"partial"} \/ (recv = "data" /\ files' = files)
      PROVE  WsInv'
  <2>1. pc \notin Without \cup Proven \cup {"done"} /\ outcome = "running" /\ ~(pc = "put" /\ ~reading)
    BY <1>2 DEF WsInv, Order, Goroutine
  <2>2. result = "none" /\ files \subseteq {"partial"}
    BY <1>2, <2>1 DEF WsInv, Goroutine
  <2>3. Goroutine'
    BY <1>2, <2>1, <2>2 DEF Goroutine, host
  <2>4. Saved'
    BY <1>2, <2>1 DEF Saved, host, Proven
  <2> QED
    BY <1>2, <2>3, <2>4 DEF WsInv, TypeInv, Order, Sent, Uploading, host
<1>3. CASE CancelReceiver
  BY <1>1, <1>3 DEF CancelReceiver, Receiving, Finish, disk, ursus
<1>4. CASE TakeRequest
  BY <1>1, <1>2, <1>4 DEF TakeRequest, Finish, disk, ursus, receiver
<1>5. CASE TakeData
  <2>1. CASE UNCHANGED <<receiver, disk>>
    BY <1>1, <1>5, <2>1 DEF TakeData, disk, ursus, receiver
  <2>2. CASE Store(Head(up))
    BY <1>1, <1>2, <1>5, <2>2 DEF TakeData, Store, Finish, disk, ursus
  <2> QED
    BY <1>5, <2>1, <2>2 DEF TakeData, Repeated
<1>6. CASE Silence
  BY <1>1, <1>6 DEF Silence, Receiving, Finish, disk, ursus
<1>7. CASE Linger
  BY <1>1, <1>7 DEF Linger, Finish, disk, ursus
<1>8. CASE CloseFile
  BY <1>8
  DEF CloseFile, WsInv, TypeInv, Order, Goroutine, Saved, Sent, Uploading, host, disk, ursus,
      Image, Digests
<1>9. CASE Unread
  BY <1>9, StillKeeps DEF Unread, Still, receiver, ursus
<1> QED
  BY <1>3, <1>4, <1>5, <1>6, <1>7, <1>8, <1>9 DEF Receiver

(***************************************************************************)
(* The operation.                                                          *)
(***************************************************************************)
\* The operation ends without a report: what it leaves is as it should be.
LEMMA FailKeeps ==
  ASSUME WsInv, Fail, reading' = FALSE, pc # "done",
         pc \in Without \cup Proven \/ result # "none",
         \/ Discard
         \/ UNCHANGED disk /\ (diskFails \/ locks \/ "partial" \notin files),
         con' \in Seq(Words), ToSet(con') \subseteq ToSet(con),
         out' \in Seq(Words), ToSet(out') \subseteq ToSet(out) \cup ToSet(con),
         off' \in 0..Blocks, UNCHANGED <<recv, result, ram>>
  PROVE  WsInv'
<1>1. pc' = "done" /\ outcome' = "failed"
  BY DEF Fail, Done
<1>2. /\ files' \subseteq files /\ diskFails' = diskFails /\ locks' = locks
      /\ "partial" \in files' => diskFails \/ locks
  BY DEF Discard, FileLocked, disk
<1>3. recv \in {"off", "finished", "gone"}
  BY DEF WsInv, Goroutine
<1>4. Goroutine'
  <2>1. files' \subseteq {"partial"} \/ outcome = "saved"
    BY <1>2 DEF WsInv, Goroutine
  <2>2. outcome # "saved"
    BY DEF WsInv, Order
  <2> QED
    BY <1>1, <1>2, <1>3, <2>1, <2>2 DEF WsInv, Goroutine, Without, Proven
<1> QED
  BY <1>1, <1>2, <1>4 DEF WsInv, TypeInv, Places, Order, Saved, Sent, Uploading

\* What is read of the console is part of what it printed.
LEMMA ReadText ==
  ASSUME WsInv, NEW n \in DOMAIN con
  PROVE  LET text == out \o SubSeq(con, 1, n)
             rest == SubSeq(con, n + 1, Len(con))
         IN /\ text \in Seq(Words) /\ ToSet(text) \subseteq ToSet(out) \cup ToSet(con)
            /\ rest \in Seq(Words) /\ ToSet(rest) \subseteq ToSet(con)
<1>1. con \in Seq(Words) /\ out \in Seq(Words) /\ n \in 1..Len(con) /\ Len(con) \in Nat
  BY DEF WsInv, TypeInv
<1>2. /\ SubSeq(con, 1, n) \in Seq(Words) /\ ToSet(SubSeq(con, 1, n)) \subseteq ToSet(con)
      /\ SubSeq(con, n + 1, Len(con)) \in Seq(Words) /\ ToSet(SubSeq(con, n + 1, Len(con))) \subseteq ToSet(con)
  <2>1. 1 \in 1..(Len(con) + 1) /\ n + 1 \in 1..(Len(con) + 1) /\ n \in 0..Len(con) /\ Len(con) \in 0..Len(con)
    BY <1>1
  <2> QED
    BY <1>1, <2>1, Part
<1>3. ASSUME NEW s \in Seq(Words), ToSet(s) \subseteq ToSet(con)
      PROVE  out \o s \in Seq(Words) /\ ToSet(out \o s) \subseteq ToSet(out) \cup ToSet(con)
  BY <1>1, <1>3, Joined
<1> QED
  BY <1>2, <1>3

LEMMA CommandEndsKeeps ==
  ASSUME WsInv, reading, reading' = FALSE, NEW text \in Seq(Words), CommandEnds(text), out' = text,
         ToSet(text) \subseteq ToSet(out) \cup ToSet(con),
         con' \in Seq(Words), ToSet(con') \subseteq ToSet(con), UNCHANGED <<off, recv, result, ram, upload>>
  PROVE  WsInv'
<1> USE DEF Typing, Without, Proven, Places
<1>0. pc \in Typing /\ outcome = "running"
  BY DEF WsInv, Order
<1>1. /\ pc \in Without => recv = "off" /\ "partial" \notin files
      /\ files \subseteq {"partial"}
  BY <1>0 DEF WsInv, Goroutine
<1>2. "file" \in ToSet(con') \cup ToSet(out') => ram' = "file"
  BY DEF WsInv, Sent
<1>3. CASE Fail /\ (Discard \/ (UNCHANGED disk /\ pc # "hash2")) /\ pc # "put"
  <2>1. pc \in Without \cup Proven /\ pc # "done"
    BY <1>0, <1>3
  <2>2. Discard \/ (UNCHANGED disk /\ (diskFails \/ locks \/ "partial" \notin files))
    BY <1>0, <1>1, <1>3
  <2>3. /\ out' \in Seq(Words) /\ ToSet(out') \subseteq ToSet(out) \cup ToSet(con)
        /\ off' \in 0..Blocks /\ UNCHANGED <<recv, result, ram>>
    BY DEF WsInv, TypeInv
  <2> HIDE DEF Typing, Without, Proven, Places
  <2> QED
    BY <1>3, <2>1, <2>2, <2>3, FailKeeps
<1>4. ASSUME NEW to, Goto(to), UNCHANGED disk,
             \/ pc = "loadx" /\ to = "send"
             \/ pc = "settle" /\ to = "hashRam"
             \/ pc = "hash1" /\ to = "put"
             \/ pc = "put" /\ to = "join"
      PROVE  WsInv'
  BY <1>0, <1>1, <1>2, <1>4
  DEF Goto, disk, WsInv, TypeInv, Order, Goroutine, Saved, Sent, Uploading
<1>5. CASE pc \in {"loadx", "settle"}
  <2>1. CASE pc = "loadx"
    <3>1. UNCHANGED disk /\ Goto("send")
      BY <2>1 DEF CommandEnds
    <3> QED
      BY <1>4, <2>1, <3>1
  <2>2. CASE pc = "settle"
    <3>1. UNCHANGED disk /\ Goto("hashRam")
      BY <2>2 DEF CommandEnds
    <3> QED
      BY <1>4, <2>2, <3>1
  <2> QED
    BY <1>5, <2>1, <2>2
<1>6. CASE pc = "hashRam"
  <2>1. CASE Fail
    BY <1>3, <1>6, <2>1 DEF CommandEnds
  <2>2. CASE "file" \in Digests(text) /\ Done("sent")
    <3>1. ram = "file"
      BY <1>2, <2>2 DEF Digests, ToSet
    <3> QED
      BY <1>0, <1>1, <1>2, <1>6, <2>2, <3>1
      DEF CommandEnds, Done, disk, WsInv, TypeInv, Order, Goroutine, Saved, Sent, Uploading
  <2> QED
    BY <1>6, <2>1, <2>2 DEF CommandEnds, ReceivedIs
<1>7. CASE pc = "hash1"
  <2>1. UNCHANGED disk /\ (Fail \/ Goto("put"))
    BY <1>7 DEF CommandEnds
  <2>2. CASE Fail
    BY <1>3, <1>7, <2>1, <2>2
  <2>3. CASE Goto("put")
    BY <1>4, <1>7, <2>1, <2>3
  <2> QED
    BY <2>1, <2>2, <2>3
<1>8. CASE pc = "put"
  BY <1>4, <1>8 DEF CommandEnds
<1>9. CASE pc = "hash2"
  <2>1. CASE Fail /\ Discard
    BY <1>3, <1>9, <2>1
  <2>2. CASE expected \in Digests(text) /\ Goto("rename") /\ UNCHANGED disk
    <3>1. UNCHANGED expected
      BY <1>9 DEF CommandEnds
    <3> QED
      BY <1>0, <1>1, <1>2, <1>9, <2>2, <3>1
      DEF Goto, disk, WsInv, TypeInv, Order, Goroutine, Saved, Sent, Uploading, Image, Digests
  <2> QED
    BY <1>9, <2>1, <2>2 DEF CommandEnds, RangeUnchanged
<1> QED
  BY <1>0, <1>5, <1>6, <1>7, <1>8, <1>9

LEMMA ReadConsoleKeeps ==
  ASSUME WsInv, ReadConsole
  PROVE  WsInv'
<1>1. PICK n \in DOMAIN con :
        LET text == out \o SubSeq(con, 1, n) IN
        /\ con' = SubSeq(con, n + 1, Len(con)) /\ out' = text
        /\ IF Over(text) THEN reading' = FALSE /\ CommandEnds(text)
           ELSE UNCHANGED <<reading, pc, outcome, expected, disk, cancel>>
  BY DEF ReadConsole
<1>2. /\ out' \in Seq(Words) /\ ToSet(out') \subseteq ToSet(out) \cup ToSet(con)
      /\ con' \in Seq(Words) /\ ToSet(con') \subseteq ToSet(con)
  BY <1>1, ReadText
<1>3. reading /\ UNCHANGED <<off, recv, result, ram, upload>>
  BY DEF ReadConsole, receiver
<1>4. CASE reading' = FALSE /\ CommandEnds(out')
  BY <1>2, <1>3, <1>4, CommandEndsKeeps
<1>5. CASE UNCHANGED <<reading, pc, outcome, expected, disk>>
  <2>1. pc \in Typing /\ outcome = "running"
    BY <1>3 DEF WsInv, Order, Typing
  <2> QED
    BY <1>2, <1>3, <1>5, <2>1
    DEF Typing, disk, WsInv, TypeInv, Order, Goroutine, Saved, Sent, Uploading, Image
<1> QED
  BY <1>1, <1>4, <1>5

LEMMA ReadFailsKeeps ==
  ASSUME WsInv, ReadFails
  PROVE  WsInv'
<1> USE DEF Typing, Without, Proven, Places
<1>0. pc \in Typing /\ outcome = "running"
  BY DEF ReadFails, WsInv, Order
<1>1. /\ reading /\ reading' = FALSE /\ CommandFails
      /\ UNCHANGED <<out, off, recv, result, ram, upload, content, diskFails, locks>>
  BY DEF ReadFails, CommandFails, GiveUp, Discard, disk, receiver
<1>2. con' \in Seq(Words) /\ ToSet(con') \subseteq ToSet(con)
  <2>1. PICK n \in 0..Len(con) : con' = SubSeq(con, n + 1, Len(con))
    BY DEF ReadFails
  <2>2. con \in Seq(Words) /\ Len(con) \in Nat
    BY DEF WsInv, TypeInv
  <2>3. n + 1 \in 1..(Len(con) + 1) /\ Len(con) \in 0..Len(con)
    BY <2>2
  <2> QED
    BY <2>1, <2>2, <2>3, Part
<1>3. /\ out' \in Seq(Words) /\ ToSet(out') \subseteq ToSet(out) \cup ToSet(con)
      /\ off' \in 0..Blocks /\ UNCHANGED <<recv, result, ram>>
  BY <1>1 DEF WsInv, TypeInv
<1>4. CASE pc = "put"
  BY <1>0, <1>1, <1>2, <1>4
  DEF CommandFails, GiveUp, Goto, disk, WsInv, TypeInv, Order, Goroutine, Saved, Sent,
      Uploading
<1>5. CASE pc = "settle"
  BY <1>0, <1>1, <1>2, <1>5
  DEF CommandFails, Goto, disk, WsInv, TypeInv, Order, Goroutine, Saved, Sent, Uploading
<1>6. CASE pc \in {"hash1", "hash2", "loadx", "hashRam"}
  <2>1. Fail /\ (Discard \/ (UNCHANGED disk /\ pc # "hash2"))
    BY <1>1, <1>6 DEF CommandFails
  <2>2. Discard \/ (UNCHANGED disk /\ (diskFails \/ locks \/ "partial" \notin files))
    BY <1>6, <2>1 DEF WsInv, Goroutine
  <2>3. pc \in Without \cup Proven /\ pc # "done"
    BY <1>6
  <2> HIDE DEF Typing, Without, Proven, Places
  <2> QED
    BY <1>1, <1>2, <1>3, <2>1, <2>2, <2>3, FailKeeps
<1> QED
  BY <1>0, <1>4, <1>5, <1>6

\* The steps that leave the console as it is, but for the prompt after an XMODEM transfer.
LEMMA StepsKeep ==
  ASSUME WsInv,
         \/ Choose \/ TypeCommand \/ JoinAfterError \/ Join \/ CheckFile \/ Rename
         \/ SendFile \/ Begin \/ SendChunk \/ Uploaded \/ OtherUser
  PROVE  WsInv'
<1> USE DEF Typing, Without, Proven, Places
<1>0. UNCHANGED <<con, reading, out, off>> /\ Fail /\ UNCHANGED <<recv, result, ram>> =>
        /\ con' \in Seq(Words) /\ ToSet(con') \subseteq ToSet(con)
        /\ out' \in Seq(Words) /\ ToSet(out') \subseteq ToSet(out) \cup ToSet(con) /\ off' \in 0..Blocks
  BY DEF WsInv, TypeInv
<1>1. ASSUME UNCHANGED <<con, reading, out, off, recv, result, ram>>, Fail,
             pc \in {"join", "giveUp", "check", "rename", "send", "begin", "chunk"},
             pc \in {"join", "giveUp"} => result # "none",
             \/ Discard
             \/ UNCHANGED disk /\ (diskFails \/ locks \/ pc \in Without)
      PROVE  WsInv'
  <2>1. pc \in Without \cup Proven \/ result # "none"
    BY <1>1
  <2>2. Discard \/ (UNCHANGED disk /\ (diskFails \/ locks \/ "partial" \notin files))
    BY <1>1 DEF WsInv, Goroutine
  <2>3. pc # "done" /\ reading' = FALSE
    BY <1>1 DEF WsInv, Order, TypeInv
  <2> HIDE DEF Typing, Without, Proven, Places
  <2> QED
    BY <1>0, <1>1, <2>1, <2>2, <2>3, FailKeeps
<1>2. CASE Choose
  BY <1>2
  DEF Choose, Goto, Done, WsInv, TypeInv, Order, Goroutine, Saved, Sent, Uploading, disk,
      receiver, ursus, Image, Digests
<1>3. CASE TypeCommand
  <2>1. pc \in Typing /\ ~reading /\ outcome = "running" /\ out' = <<>> /\ reading' = TRUE
    BY <1>3 DEF TypeCommand, WsInv, Order
  <2>2. UNCHANGED <<pc, expected, outcome, off, files, content, diskFails, locks, result, con, ram, upload>>
    BY <1>3 DEF TypeCommand, disk
  <2>3. recv' = IF pc = "put" THEN "wrq" ELSE recv
    BY <1>3 DEF TypeCommand
  <2> QED
    BY <2>1, <2>2, <2>3, Nothing
    DEF WsInv, TypeInv, Order, Goroutine, Saved, Sent, Uploading, Image
<1>4. CASE JoinAfterError
  BY <1>1, <1>4 DEF JoinAfterError, receiver, ursus
<1>5. CASE Join
  <2>1. CASE Fail /\ Discard
    BY <1>1, <1>5, <2>1 DEF Join, receiver, ursus
  <2>2. CASE Goto("check") /\ UNCHANGED disk
    BY <1>5, <2>2
    DEF Join, Goto, WsInv, TypeInv, Order, Goroutine, Saved, Sent, Uploading, disk, receiver,
        ursus, Image, Digests
  <2> QED
    BY <1>5, <2>1, <2>2 DEF Join
<1>6. CASE CheckFile
  <2>1. CASE Fail /\ (Discard \/ (diskFails /\ UNCHANGED disk))
    BY <1>1, <1>6, <2>1 DEF CheckFile, receiver, ursus
  <2>2. CASE content = Image(expected) /\ Goto("hash2") /\ UNCHANGED disk
    BY <1>6, <2>2
    DEF CheckFile, Goto, WsInv, TypeInv, Order, Goroutine, Saved, Sent, Uploading, disk,
        receiver, ursus, Image, Digests
  <2> QED
    BY <1>6, <2>1, <2>2 DEF CheckFile
<1>7. CASE Rename
  <2>1. CASE (FileLocked \/ diskFails) /\ Fail /\ UNCHANGED disk
    BY <1>1, <1>7, <2>1 DEF FileLocked, Rename, receiver, ursus
  <2>2. CASE files' = {"out"} /\ UNCHANGED <<content, diskFails, locks>> /\ Done("saved")
    BY <1>7, <2>2
    DEF Rename, Done, WsInv, TypeInv, Order, Goroutine, Saved, Sent, Uploading, receiver,
        ursus, Image, Digests
  <2> QED
    BY <1>7, <2>1, <2>2 DEF Rename
<1>8. CASE Uploaded
  BY <1>8
  DEF Uploaded, Done, WsInv, TypeInv, Order, Goroutine, Saved, Sent, Uploading, disk,
      receiver, ursus, Image, Digests
<1>9. CASE OtherUser
  BY <1>9
  DEF OtherUser, host, WsInv, TypeInv, Order, Goroutine, Saved, Sent, Uploading, disk,
      receiver, Image, Digests
<1>10. CASE Begin
  <2>1. CASE Fail
    BY <1>1, <1>10, <2>1 DEF Begin, receiver
  <2>2. CASE Goto("chunk")
    BY <1>10, <2>2, WsAssumption
    DEF Begin, Goto, WsInv, TypeInv, Order, Goroutine, Saved, Sent, Uploading, disk, receiver,
        Image, Digests
  <2> QED
    BY <1>10, <2>1, <2>2 DEF Begin, Answered, Unanswered
<1>11. CASE SendChunk
  <2>1. CASE Fail /\ UNCHANGED off
    BY <1>1, <1>11, <2>1 DEF SendChunk, receiver
  <2>2. CASE ChunkFits /\ off' = off + 1 /\ Goto("chunk")
    BY <1>11, <2>2, WsAssumption
    DEF SendChunk, ChunkFits, Goto, WsInv, TypeInv, Order, Goroutine, Saved, Sent, Uploading,
        disk, receiver, Image, Digests
  <2> QED
    BY <1>11, <2>1, <2>2 DEF SendChunk, Answered, Unanswered
<1>12. CASE SendFile
  <2>1. con' \in Seq(Words) /\ ToSet(con') \subseteq ToSet(con) \cup {"prompt"}
    <3>1. <<"prompt">> \in Seq(Words) /\ ToSet(<<"prompt">>) = {"prompt"}
      BY One DEF Words
    <3> QED
      BY <1>12, <3>1, Joined DEF SendFile, Prints, WsInv, TypeInv
  <2>2. "file" \notin ToSet(con) \cup ToSet(out)
    BY <1>12 DEF SendFile, WsInv, Sent
  <2>3. /\ pc = "send" /\ ram' \in {"file", "damaged"}
        /\ UNCHANGED <<reading, out, expected, off, disk, recv, result, upload>>
    BY <1>12 DEF SendFile, receiver
  <2>4. pc' \in {"settle", "done"} /\ outcome' \in {"running", "failed"} /\ (outcome' = "failed" => pc' = "done")
    BY <1>12 DEF SendFile, Goto, Done, Fail, WsInv, Order
  <2>5. recv = "off" /\ "partial" \notin files /\ files \subseteq {"partial"}
    BY <2>3 DEF WsInv, Goroutine, Order
  <2> QED
    BY <2>1, <2>2, <2>3, <2>4, <2>5
    DEF WsInv, TypeInv, Versions, Order, Goroutine, Saved, Sent, Uploading, disk
<1> QED
  BY <1>2, <1>3, <1>4, <1>5, <1>6, <1>7, <1>8, <1>9, <1>10, <1>11, <1>12

(***************************************************************************)
(* The theorems.                                                           *)
(***************************************************************************)
LEMMA Initially ==
  ASSUME Init
  PROVE  WsInv
<1>1. con \in Seq(Words) /\ ToSet(con) \subseteq {"hello", "prompt"}
  <2>1. <<"hello">> \in Seq(Words) /\ ToSet(<<"hello">>) = {"hello"}
    BY One DEF Words
  <2>2. <<"hello", "prompt">> \in Seq(Words) /\ ToSet(<<"hello", "prompt">>) = {"hello", "prompt"}
    BY Two DEF Words
  <2> QED
    BY <2>1, <2>2 DEF Init
<1>2. out \in Seq(Words) /\ ToSet(out) = {} /\ 0 \in 0..Blocks
  BY Nothing, WsAssumption DEF Init
<1>3. TypeInv /\ Sent
  BY <1>1, <1>2 DEF Init, TypeInv, Places, Without, Versions, Sent
<1>4. Order /\ Goroutine /\ Saved /\ Uploading
  BY WsAssumption DEF Init, Order, Goroutine, Proven, Saved, Uploading
<1> QED
  BY <1>3, <1>4 DEF WsInv

LEMMA WsNext ==
  ASSUME WsInv, [Next]_vars
  PROVE  WsInv'
<1>1. CASE Operation
  BY <1>1, StepsKeep, ReadConsoleKeeps DEF Operation
<1>2. CASE UNCHANGED vars
  BY <1>2, StillKeeps DEF vars, Still, receiver, ursus
<1>3. CASE Network
  BY <1>3, StillKeeps DEF Network, Still, receiver, ursus
<1> QED
  BY <1>1, <1>2, <1>3, ReceiverKeeps, UrsusKeeps, RamChangesKeeps, StepsKeep, ReadFailsKeeps
  DEF Next, Ended

\* A file reported as saved is the range as it was before and after the transfer, and one
\* reported as sent is what UrsusBoot holds.
THEOREM ReportsAreTrue == Spec => []DoneMeansMoved
<1>1. WsInv => DoneMeansMoved
  BY DEF WsInv, Saved, Sent, Uploading, DoneMeansMoved
<1> QED
  BY <1>1, Initially, WsNext, PTL DEF Spec

\* However the operation ends, no goroutine of it writes any more, and the partial file is
\* left only by a failed one, on a disk that failed or that locks open files.
THEOREM NothingStays == Spec => []NothingLeft
<1>1. WsInv => NothingLeft
  BY DEF WsInv, Goroutine, NothingLeft
<1> QED
  BY <1>1, Initially, WsNext, PTL DEF Spec

-----------------------------------------------------------------------------
(***************************************************************************)
(* The terminal.  Between the device and the operator's eyes everything    *)
(* goes through one operator, DeviceOutput: it cuts what came into pieces  *)
(* at the sequences of fullscreen programs, prints each piece through the  *)
(* pager and moves the bars behind it.  So this part comes first: what is  *)
(* printed is behind what was kept before, nothing missing (Delivered).    *)
(***************************************************************************)
Item == [id : Nat, is : Printable]
Items == Seq(Item)
Numbers == Seq(Nat)
Screens ==
  [shown : Numbers, pending : Items, pager : BOOLEAN, waiting : BOOLEAN, lines : Nat,
   probe : BOOLEAN, bars : {"none", "on", "off"}, suspended : BOOLEAN,
   mode : {"none", "alt", "soft"}, hidden : BOOLEAN, idle : BOOLEAN]

\* What the screen and the pager hold together, in order.
Kept(s) == s.shown \o Ids(s.pending)
\* What the pager holds is behind its prompt.
Settled(s) == s.pending # <<>> => s.pager /\ s.waiting
\* The bars step aside for a fullscreen program and for nothing else.
Owned(s) == s.bars = "on" => (s.suspended <=> s.mode # "none")
\* What printing and what drawing leave alone.
SameBars(s, t) == t.bars = s.bars /\ t.suspended = s.suspended /\ t.mode = s.mode /\ t.hidden = s.hidden
SameText(s, t) == t.shown = s.shown /\ t.pending = s.pending /\ t.pager = s.pager /\ t.waiting = s.waiting

\* chromeParser's acts, pieces and states.
Acts == {"none", "suspend", "resume", "clear", "refresh"}
Piece == [data : Items, act : Acts]
Parsers ==
  [mode : {"none", "alt", "soft"}, hidden : BOOLEAN, pieces : Seq(Piece), cur : Items]

\* What Parse makes of a parser: a longer text in hand, another mode.
More(p, it) == [p EXCEPT !.cur = Append(@, it)]
Label(p, mode, hidden) == [p EXCEPT !.mode = mode, !.hidden = hidden]

\* Whether the screen is a fullscreen program's, before an act of the parser and after it.
Moves(act, a, b) ==
  /\ act = "suspend" => b
  /\ act \in {"resume", "clear"} => ~b
  /\ act \in {"none", "refresh"} => b = a

\* The bars are away if a fullscreen program has the screen.
Away(s, a) == s.bars = "on" => (s.suspended <=> a)

\* The parser has cut the first n items into its pieces and what it has in hand.
CutBy(p, items, n, a, pos, away) ==
  /\ pos[0] = 0 /\ away[0] = a /\ away[Len(p.pieces)] = (p.mode # "none")
  /\ p.cur = SubSeq(items, pos[Len(p.pieces)] + 1, n)
  /\ \A k \in 1..Len(p.pieces) :
       /\ pos[k - 1] <= pos[k]
       /\ p.pieces[k].data = SubSeq(items, pos[k - 1] + 1, pos[k])
       /\ Moves(p.pieces[k].act, away[k - 1], away[k])

WellCut(p, items, n, a) ==
  /\ p \in Parsers /\ n \in 0..Len(items)
  /\ \E pos \in [0..Len(p.pieces) -> 0..n], away \in [0..Len(p.pieces) -> BOOLEAN] :
       CutBy(p, items, n, a, pos, away)

\* A set of naturals that is not empty has a least element.
LEMMA Least ==
  ASSUME NEW T, T \subseteq Nat, T # {}
  PROVE  \E x \in T : \A y \in T : x <= y
<1>1. IsWellFoundedOn(OpToRel(<, Nat), Nat)
  BY NatLessThanWellFounded
<1>2. PICK x \in T : \A y \in T : <<y, x>> \notin OpToRel(<, Nat)
  BY <1>1, WFMin, Zenon
<1>3. ASSUME NEW y \in T PROVE x <= y
  <2>1. <<y, x>> \in Nat \X Nat /\ <<y, x>> \notin OpToRel(<, Nat)
    BY <1>2
  <2> QED
    BY <2>1 DEF OpToRel
<1> QED
  BY <1>3

\* Induction over the naturals, for a set that is defined by a formula.
LEMMA Induction ==
  ASSUME NEW S, 0 \in S, \A n \in Nat : n \in S => n + 1 \in S
  PROVE  Nat \subseteq S
<1> SUFFICES ASSUME Nat \ S # {} PROVE FALSE
  OBVIOUS
<1>1. PICK x \in Nat \ S : \A y \in Nat \ S : x <= y
  BY Least
<1>2. x # 0 /\ x - 1 \in Nat
  BY <1>1
<1>3. x - 1 \in S
  BY <1>1, <1>2
<1> QED
  BY <1>1, <1>2, <1>3

\* Recursion along steps: the function that starts at base and goes on by step.
Steps(n, T) == [(1..n) \X T -> T]
IsRun(f, n, T, base, step) ==
  f \in [0..n -> T] /\ f[0] = base /\ \A i \in 1..n : f[i] = step[<<i, f[i - 1]>>]

\* A function may be defined by recursion along a sequence of steps.
LEMMA Recursion ==
  ASSUME NEW n \in Nat, NEW T, NEW base \in T, NEW step \in Steps(n, T)
  PROVE  \E f : IsRun(f, n, T, base, step)
<1>0. step \in [(1..n) \X T -> T]
  BY DEF Steps
<1> DEFINE Good(m) == \E f \in [0..m -> T] :
             f[0] = base /\ \A i \in 1..m : f[i] = step[<<i, f[i - 1]>>]
           S == {m \in Nat : m <= n => Good(m)}
<1>1. 0 \in S
  <2> DEFINE g == [i \in 0..0 |-> base]
  <2>1. g \in [0..0 -> T] /\ g[0] = base /\ 1..0 = {}
    OBVIOUS
  <2> HIDE DEF g
  <2>2. Good(0)
    BY <2>1
  <2> QED
    BY <2>2
<1>2. ASSUME NEW m \in Nat, m \in S
      PROVE  m + 1 \in S
  <2> SUFFICES ASSUME m + 1 <= n PROVE Good(m + 1)
    OBVIOUS
  <2>1. PICK f \in [0..m -> T] : f[0] = base /\ \A i \in 1..m : f[i] = step[<<i, f[i - 1]>>]
    BY <1>2
  <2>2. f[m] \in T /\ m + 1 \in 1..n
    BY <2>1
  <2>3. PICK x \in T : x = step[<<m + 1, f[m]>>]
    BY <1>0, <2>2
  <2> DEFINE g == [i \in 0..m + 1 |-> IF i <= m THEN f[i] ELSE x]
  <2>4. g \in [0..m + 1 -> T]
    BY <2>1, <2>3
  <2>5. g[0] = base
    BY <2>1
  <2>6. ASSUME NEW i \in 1..m + 1 PROVE g[i] = step[<<i, g[i - 1]>>]
    <3>1. i - 1 \in 0..m /\ g[i - 1] = f[i - 1]
      BY <2>6
    <3>2. CASE i <= m
      BY <2>1, <3>1, <3>2
    <3>3. CASE i = m + 1
      <4>1. g[i] = x /\ i - 1 = m
        BY <3>3
      <4>2. g[i - 1] = f[m] /\ <<i, g[i - 1]>> = <<m + 1, f[m]>>
        BY <3>1, <3>3, <4>1
      <4> HIDE DEF g
      <4> QED
        BY <2>3, <4>1, <4>2
    <3> QED
      BY <3>2, <3>3
  <2> HIDE DEF g
  <2> QED
    BY <2>4, <2>5, <2>6
<1> HIDE DEF S
<1>3. n \in S
  BY <1>1, <1>2, Induction
<1> QED
  BY <1>3 DEF S, IsRun

\* The numbers of two texts, one behind the other, are those of the first and then those of the second.
LEMMA Numbered ==
  ASSUME NEW a \in Seq(Item), NEW b \in Seq(Item)
  PROVE  /\ Ids(a) \in Seq(Nat) /\ Len(Ids(a)) = Len(a)
         /\ Ids(a \o b) = Ids(a) \o Ids(b)
         /\ a = <<>> <=> Ids(a) = <<>>
         /\ Ids(<<>>) = <<>>
<1>1. ASSUME NEW c \in Seq(Item)
      PROVE  Ids(c) \in Seq(Nat) /\ Len(Ids(c)) = Len(c) /\ \A i \in 1..Len(c) : Ids(c)[i] = c[i].id
  <2>1. Len(c) \in Nat /\ DOMAIN c = 1..Len(c) /\ \A i \in 1..Len(c) : c[i].id \in Nat
    <3>1. \A i \in 1..Len(c) : c[i] \in Item
      BY <1>1, ElementOfSeq
    <3> QED
      BY <1>1, <3>1, LenProperties DEF Item
  <2>2. Ids(c) \in [1..Len(c) -> Nat] /\ \A i \in 1..Len(c) : Ids(c)[i] = c[i].id
    BY <2>1 DEF Ids
  <2>3. Ids(c) \in Seq(Nat)
    <3>1. Ids(c) \in UNION {[1..n -> Nat] : n \in Nat}
      BY <2>1, <2>2
    <3> QED
      BY <3>1, SeqDef
  <2>4. DOMAIN Ids(c) = 1..Len(Ids(c)) /\ DOMAIN Ids(c) = 1..Len(c) /\ Len(Ids(c)) \in Nat
    BY <2>2, <2>3, LenProperties
  <2> QED
    BY <2>1, <2>2, <2>3, <2>4
<1>2. a \o b \in Seq(Item) /\ Len(a \o b) = Len(a) + Len(b)
  OBVIOUS
<1>3. Ids(a) \o Ids(b) \in Seq(Nat) /\ Len(Ids(a) \o Ids(b)) = Len(a) + Len(b)
  BY <1>1
<1>4. ASSUME NEW i \in 1..Len(a) + Len(b)
      PROVE  Ids(a \o b)[i] = (Ids(a) \o Ids(b))[i]
  <2>1. (Ids(a) \o Ids(b))[i] = IF i <= Len(a) THEN Ids(a)[i] ELSE Ids(b)[i - Len(a)]
    BY <1>1, ConcatProperties
  <2>2. (a \o b)[i] = IF i <= Len(a) THEN a[i] ELSE b[i - Len(a)]
    BY ConcatProperties
  <2> QED
    <3>1. Ids(a \o b)[i] = (a \o b)[i].id
      BY <1>1, <1>2
    <3>2. i <= Len(a) => Ids(a)[i] = a[i].id
      BY <1>1
    <3>3. ~(i <= Len(a)) => i - Len(a) \in 1..Len(b) /\ Ids(b)[i - Len(a)] = b[i - Len(a)].id
      BY <1>1, LenProperties
    <3> QED
      BY <2>1, <2>2, <3>1, <3>2, <3>3
<1>5. Ids(a \o b) = Ids(a) \o Ids(b)
  BY <1>1, <1>2, <1>3, <1>4, SeqEqual
<1> QED
  <2>1. <<>> \in Seq(Item)
    OBVIOUS
  <2> QED
    BY <1>1, <1>5, <2>1, EmptySeq

\* Three sequences are put together in one way only.
LEMMA Regrouped ==
  ASSUME NEW a \in Seq(Nat), NEW b \in Seq(Nat), NEW c \in Seq(Nat)
  PROVE  (a \o b) \o c = a \o (b \o c)
  BY ConcatAssociative

\* The lines of a text can be counted.
LEMMA Counted ==
  ASSUME NEW items \in Seq(Item)
  PROVE  Lines(items) \in Nat
<1>1. IsFiniteSet(1..Len(items))
  BY FS_Interval
<1>2. {i \in DOMAIN items : items[i].is = "line"} \subseteq 1..Len(items)
  OBVIOUS
<1> QED
  BY <1>1, <1>2, FS_Subset, FS_CardinalityType DEF Lines

\* Write adds a text to what the screen shows.
LEMMA Writing ==
  ASSUME NEW s \in Screens, NEW items \in Items
  PROVE  /\ Write(s, items) \in Screens
         /\ Write(s, items) = [s EXCEPT !.shown = s.shown \o Ids(items)]
         /\ s.shown \o Ids(items) \in Numbers
<1>1. s.shown \in Seq(Nat) /\ Ids(items) \in Seq(Nat)
  BY Numbered DEF Screens, Items, Numbers
<1>2. s.shown \o Ids(items) \in Numbers
  BY <1>1, ConcatProperties DEF Numbers
<1> QED
  BY <1>2 DEF Write, Screens

\* All of the pending text is written.
LEMMA Emptied ==
  ASSUME NEW s \in Screens, NEW t \in Screens,
         t.shown = s.shown \o Ids(s.pending), t.pending = <<>>
  PROVE  Kept(t) = Kept(s)
<1>1. s.pending \in Seq(Item) /\ t.shown \in Seq(Nat)
  BY DEF Screens, Items, Numbers
<1>2. Ids(t.pending) = <<>>
  BY <1>1, Numbered
<1>3. t.shown \o <<>> = t.shown
  BY <1>1, ConcatEmptySeq
<1> QED
  BY <1>2, <1>3 DEF Kept

\* The empty sequence is a text and a sequence of numbers.
LEMMA NoItems == <<>> \in Items /\ <<>> \in Numbers
  BY EmptySeq DEF Items, Numbers

\* Switching the pager off puts on the screen what it held.
LEMMA Switched ==
  ASSUME NEW s \in Screens
  PROVE  /\ PagerOff(s) \in Screens /\ SameBars(s, PagerOff(s))
         /\ Kept(PagerOff(s)) = Kept(s) /\ PagerOff(s).pending = <<>> /\ ~PagerOff(s).pager
<1> DEFINE t == PagerOff(s)
<1>1. PICK x \in Numbers : x = s.shown \o Ids(s.pending)
  BY Writing DEF Screens
<1>2. t = [[s EXCEPT !.shown = x] EXCEPT !.pending = <<>>, !.pager = FALSE, !.waiting = FALSE]
  BY <1>1 DEF PagerOff, Write, Screens
<1> HIDE DEF t
<1>3. t \in Screens /\ SameBars(s, t) /\ t.pending = <<>> /\ ~t.pager /\ t.shown = x
  BY <1>2, NoItems DEF Screens, SameBars
<1>4. Kept(t) = Kept(s)
  BY <1>1, <1>3, Emptied
<1> QED
  BY <1>3, <1>4 DEF t

\* Flush moves what the pager holds to the screen up to the end of the page; what is
\* left then stands behind the pager's prompt.
LEMMA Flushed ==
  ASSUME NEW s \in Screens, s.pager \/ s.pending = <<>>
  PROVE  /\ Flush(s) \in Screens /\ SameBars(s, Flush(s)) /\ Settled(Flush(s))
         /\ Kept(Flush(s)) = Kept(s)
<1>0. /\ s.pending \in Items /\ s.shown \in Numbers /\ s.lines \in Nat
      /\ s.pending \in Seq(Item) /\ s.shown \in Seq(Nat)
  BY DEF Screens, Items, Numbers
<1>1. CASE ~s.pager \/ s.waiting \/ s.pending = <<>>
  BY <1>1 DEF Flush, SameBars, Settled
<1>2. CASE ~(~s.pager \/ s.waiting \/ s.pending = <<>>)
  <2> DEFINE room == IF Page > s.lines THEN Page - s.lines ELSE 1
             end  == PageEnd(s.pending, room)
  <2>1. room \in Nat /\ Lines(s.pending) \in Nat
    BY <1>0, ScreenAssumption, Counted
  <2>2. end \subseteq 1..Len(s.pending)
    BY <1>0 DEF PageEnd
  <2> HIDE DEF room, end
  <2>3. CASE end = {}
    <3> DEFINE t == [Write(s, s.pending) EXCEPT !.pending = <<>>, !.lines = @ + Lines(s.pending)]
    <3>0. PICK x \in Numbers, l \in Nat :
            x = s.shown \o Ids(s.pending) /\ l = s.lines + Lines(s.pending)
      <4>1. s.shown \o Ids(s.pending) \in Numbers
        BY <1>0, Writing
      <4>2. s.lines + Lines(s.pending) \in Nat
        BY <1>0, <2>1
      <4> QED
        BY <4>1, <4>2, Zenon
    <3>1. Flush(s) = t
      BY <1>2, <2>3 DEF Flush, room, end
    <3>2. t = [[s EXCEPT !.shown = x] EXCEPT !.pending = <<>>, !.lines = l]
      BY <3>0 DEF Write, Screens
    <3> HIDE DEF t
    <3>3. /\ t \in Screens /\ SameBars(s, t) /\ Settled(t) /\ t.pending = <<>>
          /\ t.shown = s.shown \o Ids(s.pending)
      BY <3>0, <3>2, NoItems DEF Screens, SameBars, Settled
    <3>4. Kept(t) = Kept(s)
      BY <3>3, Emptied
    <3> QED
      BY <3>1, <3>3, <3>4
  <2>4. CASE end # {}
    <3>1. PICK i \in 1..Len(s.pending) : i = CHOOSE j \in end : TRUE
      BY <2>2, <2>4
    <3> DEFINE a == SubSeq(s.pending, 1, i)
               b == SubSeq(s.pending, i + 1, Len(s.pending))
               t == [Write(s, a) EXCEPT !.pending = b, !.lines = @ + room, !.waiting = TRUE]
    <3>2. Flush(s) = t
      BY <1>2, <2>4, <3>1 DEF Flush, room, end
    <3>3. a \in Items /\ b \in Items /\ a \o b = s.pending
      <4>1. a \in Seq(Item) /\ b \in Seq(Item)
        <5>1. /\ 1 \in Int /\ i \in Int /\ i + 1 \in Int /\ Len(s.pending) \in Int
              /\ \A k \in 1..i : s.pending[k] \in Item
              /\ \A k \in i + 1..Len(s.pending) : s.pending[k] \in Item
          BY <1>0, ElementOfSeq
        <5> QED
          BY <5>1, SubSeqProperties
      <4>2. a \o b = SubSeq(s.pending, 1, Len(s.pending))
        <5>1. /\ 1 \in 1..Len(s.pending) + 1 /\ i \in 1 - 1..Len(s.pending)
              /\ Len(s.pending) \in i..Len(s.pending)
          BY <1>0
        <5> QED
          BY <1>0, <5>1, ConcatAdjacentSubSeq
      <4> QED
        BY <1>0, <4>1, <4>2, SubSeqFull DEF Items
    <3> HIDE DEF a, b
    <3>4. PICK x \in Numbers, l \in Nat : x = s.shown \o Ids(a) /\ l = s.lines + room
      <4>1. s.shown \o Ids(a) \in Numbers
        BY <3>3, Writing
      <4>2. s.lines + room \in Nat
        BY <1>0, <2>1
      <4> QED
        BY <4>1, <4>2, Zenon
    <3>5. t = [[s EXCEPT !.shown = x] EXCEPT !.pending = b, !.lines = l, !.waiting = TRUE]
      BY <3>4 DEF Write, Screens
    <3> HIDE DEF t
    <3>6. /\ t \in Screens /\ SameBars(s, t) /\ t.pending = b /\ t.waiting /\ t.pager
          /\ t.shown = s.shown \o Ids(a)
      BY <1>2, <3>3, <3>4, <3>5 DEF Screens, SameBars
    <3>7. Kept(t) = Kept(s)
      <4>1. Ids(a) \in Seq(Nat) /\ Ids(b) \in Seq(Nat) /\ Ids(s.pending) = Ids(a) \o Ids(b)
        BY <3>3, Numbered DEF Items
      <4>2. (s.shown \o Ids(a)) \o Ids(b) = s.shown \o (Ids(a) \o Ids(b))
        BY <1>0, <4>1, Regrouped, Zenon
      <4> QED
        BY <3>6, <4>1, <4>2 DEF Kept
    <3> QED
      BY <3>2, <3>6, <3>7 DEF Settled
  <2> QED
    BY <2>3, <2>4
<1> QED
  BY <1>1, <1>2

\* Ctrl+P loses nothing, whether it switches the pager on or off.
LEMMA Toggled ==
  ASSUME NEW s \in Screens, Settled(s)
  PROVE  LET t == TogglePager(s) IN
         t \in Screens /\ SameBars(s, t) /\ Settled(t) /\ Kept(t) = Kept(s)
<1>1. CASE s.pager
  <2>1. PICK t \in Screens : t = PagerOff(s)
    BY Switched
  <2>2. TogglePager(s) = [t EXCEPT !.lines = 0]
    BY <1>1, <2>1 DEF TogglePager
  <2>3. SameBars(s, t) /\ t.pending = <<>> /\ Kept(t) = Kept(s)
    BY <2>1, Switched
  <2>4. PICK u \in Screens : u = [t EXCEPT !.lines = 0]
    BY DEF Screens
  <2>5. SameBars(t, u) /\ u.pending = t.pending /\ u.shown = t.shown
    BY <2>4 DEF Screens, SameBars
  <2> QED
    BY <2>2, <2>3, <2>4, <2>5 DEF SameBars, Settled, Kept
<1>2. CASE ~s.pager
  BY <1>2 DEF TogglePager, Screens, SameBars, Settled, Kept
<1> QED
  BY <1>1, <1>2

\* A further page loses nothing.
LEMMA Continued ==
  ASSUME NEW s \in Screens, Settled(s)
  PROVE  LET t == PagerContinue(s) IN
         t \in Screens /\ SameBars(s, t) /\ Settled(t) /\ Kept(t) = Kept(s)
<1>1. CASE s.pager
  <2>1. PICK r \in Screens : r = [s EXCEPT !.waiting = FALSE, !.lines = 0]
    BY DEF Screens
  <2>2. r.pager /\ SameBars(s, r) /\ Kept(r) = Kept(s)
    BY <1>1, <2>1 DEF Screens, SameBars, Kept
  <2>3. PagerContinue(s) = Flush(r)
    BY <1>1, <2>1 DEF PagerContinue
  <2> QED
    BY <2>2, <2>3, Flushed DEF SameBars
<1>2. CASE ~s.pager
  BY <1>2 DEF PagerContinue, SameBars
<1> QED
  BY <1>1, <1>2

\* Output puts its text behind what was kept, on the screen or in the pager.
LEMMA Printed ==
  ASSUME NEW s \in Screens, Settled(s), NEW items \in Items, NEW keeps \in BOOLEAN
  PROVE  LET t == Output(s, items, keeps) IN
         /\ t \in Screens /\ SameBars(s, t) /\ Settled(t)
         /\ Kept(t) = Kept(s) \o Ids(items)
<1> DEFINE full == s.probe \/ \E i \in DOMAIN items : items[i].is \in Fullscreen
           last == items # <<>> /\ Last(items).is \in Fullscreen
           free == IF s.pager /\ full THEN [PagerOff(s) EXCEPT !.lines = 0] ELSE s
           seen == [free EXCEPT !.probe = full /\ (last \/ keeps), !.idle = TrackDeviceLine(@, items)]
           held == [seen EXCEPT !.pending = @ \o items]
<1>0. Output(s, items, keeps) = IF ~seen.pager THEN Write(seen, items)
        ELSE IF Len(held.pending) > BufferMax THEN PagerOff(held) ELSE Flush(held)
  BY Zenon DEF Output
<1>1. PICK f \in Screens : f = free
  <2>1. [PagerOff(s) EXCEPT !.lines = 0] \in Screens
    <3>1. PICK t \in Screens : t = PagerOff(s)
      BY Switched
    <3> QED
      BY <3>1 DEF Screens
  <2> QED
    BY <2>1, Zenon
<1>2. SameBars(s, f) /\ Settled(f) /\ Kept(f) = Kept(s)
  <2>1. CASE s.pager /\ full
    <3>1. PICK t \in Screens : t = PagerOff(s)
      BY Switched
    <3>2. f = [t EXCEPT !.lines = 0]
      BY <1>1, <2>1, <3>1
    <3>3. SameBars(s, t) /\ t.pending = <<>> /\ Kept(t) = Kept(s)
      BY <3>1, Switched
    <3> QED
      BY <3>2, <3>3 DEF Screens, SameBars, Settled, Kept
  <2>2. CASE ~(s.pager /\ full)
    BY <1>1, <2>2 DEF SameBars
  <2> QED
    BY <2>1, <2>2
<1>3. PICK a \in BOOLEAN, b \in BOOLEAN :
        a = (full /\ (last \/ keeps)) /\ b = TrackDeviceLine(f.idle, items)
  <2>1. (full /\ (last \/ keeps)) \in BOOLEAN
    OBVIOUS
  <2>2. TrackDeviceLine(f.idle, items) \in BOOLEAN
    BY DEF TrackDeviceLine
  <2> QED
    BY <2>1, <2>2, Zenon
<1>4. seen = [f EXCEPT !.probe = a, !.idle = b]
  <2>1. [f EXCEPT !.probe = a].idle = f.idle
    BY DEF Screens
  <2> HIDE DEF full, last, free
  <2> QED
    BY <1>1, <1>3, <2>1
<1> HIDE DEF seen
<1>5. PICK g \in Screens : g = seen
  BY <1>4 DEF Screens
<1>6. SameBars(s, g) /\ Settled(g) /\ Kept(g) = Kept(s) /\ g.shown \in Seq(Nat) /\ g.pending \in Seq(Item)
  BY <1>2, <1>4, <1>5 DEF Screens, SameBars, Settled, Kept, Items, Numbers
<1>7. Ids(items) \in Seq(Nat) /\ Ids(g.pending) \in Seq(Nat) /\ Ids(<<>>) = <<>>
  BY <1>6, Numbered DEF Items
<1>8. CASE ~g.pager
  <2>1. g.pending = <<>> /\ Output(s, items, keeps) = Write(g, items)
    BY <1>0, <1>5, <1>6, <1>8 DEF Settled
  <2>2. PICK x \in Numbers : x = g.shown \o Ids(items)
    BY Writing
  <2>3. Write(g, items) = [g EXCEPT !.shown = x]
    BY <2>2, Writing
  <2>4. Write(g, items) \in Screens /\ SameBars(g, Write(g, items)) /\ Settled(Write(g, items))
    BY <1>6, <2>3 DEF Screens, SameBars, Settled
  <2>5. Kept(Write(g, items)) = Kept(g) \o Ids(items)
    <3>1. Write(g, items).shown = x /\ Write(g, items).pending = <<>>
      BY <2>1, <2>3 DEF Screens
    <3>2. g.shown \o <<>> = g.shown /\ x \o <<>> = x
      BY <1>6, <2>2, ConcatEmptySeq DEF Numbers
    <3> QED
      BY <1>7, <2>1, <2>2, <3>1, <3>2 DEF Kept
  <2> QED
    BY <1>6, <2>1, <2>4, <2>5 DEF SameBars
<1>9. CASE g.pager
  <2>1. PICK y \in Items : y = g.pending \o items
    <3>1. g.pending \o items \in Seq(Item)
      BY <1>6, ConcatProperties DEF Items
    <3> QED
      BY <3>1 DEF Items
  <2>2. PICK h \in Screens : h = [g EXCEPT !.pending = y]
    BY DEF Screens
  <2>3. h = held
    BY <1>5, <2>1, <2>2
  <2>4. SameBars(g, h) /\ h.pager
    BY <1>9, <2>2 DEF Screens, SameBars
  <2>5. Kept(h) = Kept(g) \o Ids(items)
    <3>1. h.shown = g.shown /\ h.pending = g.pending \o items
      BY <2>1, <2>2 DEF Screens
    <3>2. Ids(g.pending \o items) = Ids(g.pending) \o Ids(items)
      BY <1>6, Numbered DEF Items
    <3>3. (g.shown \o Ids(g.pending)) \o Ids(items) = g.shown \o (Ids(g.pending) \o Ids(items))
      BY <1>6, <1>7, Regrouped, Zenon
    <3> QED
      BY <3>1, <3>2, <3>3 DEF Kept
  <2> HIDE DEF held
  <2>6. \/ Output(s, items, keeps) = PagerOff(h)
        \/ Output(s, items, keeps) = Flush(h)
    BY <1>0, <1>5, <1>9, <2>3
  <2> QED
    BY <1>6, <2>4, <2>5, <2>6, Switched, Flushed DEF SameBars, Settled
<1> QED
  BY <1>8, <1>9

\* Drawing the bars leaves the text and the parser alone.
LEMMA BarsDrawn ==
  ASSUME NEW s \in Screens, NEW fits \in BOOLEAN, NEW t \in {Refresh(s, fits), StartBars(s, fits)}
  PROVE  t \in Screens /\ SameText(s, t) /\ t.mode = s.mode
  BY DEF Refresh, StartBars, Screens, SameText

\* A refresh leaves the screen to whom it belongs.
LEMMA Refreshed ==
  ASSUME NEW s \in Screens, NEW fits \in BOOLEAN, NEW a \in BOOLEAN, Away(s, a)
  PROVE  Away(Refresh(s, fits), a)
  BY DEF Refresh, Screens, Away

\* After an act of the parser the bars know whose screen it is.
LEMMA Applied ==
  ASSUME NEW s \in Screens, NEW act \in Acts, NEW fits \in BOOLEAN
  PROVE  LET t == Apply(s, act, fits) IN
         /\ t \in Screens /\ SameText(s, t) /\ t.mode = s.mode
         /\ \A a, b \in BOOLEAN : Away(s, a) /\ Moves(act, a, b) => Away(t, b)
<1> DEFINE t == Apply(s, act, fits)
<1>1. CASE act = "suspend"
  BY <1>1 DEF Apply, Screens, SameText, Away, Moves
<1>2. CASE act = "resume" /\ s.suspended
  <2>1. PICK r \in Screens : r = [s EXCEPT !.suspended = FALSE]
    BY DEF Screens
  <2>2. t = Refresh(r, fits)
    BY <1>2, <2>1 DEF Apply
  <2>3. SameText(s, r) /\ r.mode = s.mode /\ Away(r, FALSE)
    BY <2>1 DEF Screens, SameText, Away
  <2>4. t \in Screens /\ SameText(r, t) /\ t.mode = r.mode /\ Away(t, FALSE)
    BY <2>2, <2>3, BarsDrawn, Refreshed
  <2> HIDE DEF t
  <2> QED
    BY <1>2, <2>3, <2>4 DEF SameText, Moves, t
<1>3. CASE act = "clear" /\ s.suspended
  <2>1. t = StartBars(s, fits)
    BY <1>3 DEF Apply
  <2>2. t \in Screens /\ SameText(s, t) /\ t.mode = s.mode
    BY <2>1, BarsDrawn
  <2>3. Away(t, FALSE)
    BY <2>1 DEF StartBars, Away, Screens
  <2> HIDE DEF t
  <2> QED
    BY <1>3, <2>2, <2>3 DEF Moves, t
<1>4. CASE act = "refresh"
  <2>1. t = Refresh(s, fits)
    BY <1>4 DEF Apply
  <2> QED
    BY <1>4, <2>1, BarsDrawn, Refreshed DEF Moves
<1>5. CASE act = "none" \/ (act \in {"resume", "clear"} /\ ~s.suspended)
  <2>1. t = s
    BY <1>5 DEF Apply
  <2> QED
    BY <1>5, <2>1 DEF SameText, Away, Moves
<1> QED
  BY <1>1, <1>2, <1>3, <1>4, <1>5 DEF Acts

\* A part of a sequence is that part without its last element, and the element.
LEMMA Longer ==
  ASSUME NEW s \in Seq(Item), NEW m \in 1..Len(s), NEW n \in m..Len(s)
  PROVE  SubSeq(s, m, n) = SubSeq(s, m, n - 1) \o <<s[n]>>
  BY SubSeqRecursiveSecond

\* An item is added to what is in hand.
LEMMA Extended ==
  ASSUME NEW items \in Items, NEW n \in Nat, n + 1 \in 1..Len(items), NEW a \in BOOLEAN,
         NEW p, WellCut(p, items, n, a)
  PROVE  WellCut(More(p, items[n + 1]), items, n + 1, a)
<1>0. PICK L \in Nat : L = Len(p.pieces)
  BY DEF WellCut, Parsers
<1>1. p \in Parsers /\ p.cur \in Seq(Item) /\ items \in Seq(Item) /\ items[n + 1] \in Item
  BY DEF WellCut, Parsers, Items
<1>2. PICK pos \in [0..L -> 0..n], away \in [0..L -> BOOLEAN] : CutBy(p, items, n, a, pos, away)
  BY <1>0 DEF WellCut
<1>3. PICK c \in Items : c = Append(p.cur, items[n + 1])
  BY <1>1, AppendProperties DEF Items
<1>4. PICK q \in Parsers : q = [p EXCEPT !.cur = c]
  BY <1>1 DEF Parsers
<1>5. q.pieces = p.pieces /\ q.mode = p.mode /\ q.cur = c
  BY <1>1, <1>4 DEF Parsers
<1>6. c = SubSeq(items, pos[L] + 1, n + 1)
  <2>1. pos[L] \in 0..n /\ p.cur = SubSeq(items, pos[L] + 1, n)
    BY <1>0, <1>2 DEF CutBy
  <2>2. pos[L] + 1 \in 1..Len(items) /\ n + 1 \in pos[L] + 1..Len(items)
    BY <2>1
  <2>3. SubSeq(items, pos[L] + 1, n + 1) = SubSeq(items, pos[L] + 1, n + 1 - 1) \o <<items[n + 1]>>
    <3>1. PICK l \in 1..Len(items) : l = pos[L] + 1
      BY <2>2
    <3>2. n + 1 \in l..Len(items)
      BY <2>2, <3>1
    <3>3. SubSeq(items, l, n + 1) = SubSeq(items, l, n + 1 - 1) \o <<items[n + 1]>>
      BY <1>1, <3>2, Longer
    <3> QED
      BY <3>1, <3>3
  <2>4. n + 1 - 1 = n
    OBVIOUS
  <2>5. c = p.cur \o <<items[n + 1]>>
    BY <1>1, <1>3, AppendIsConcat
  <2> QED
    BY <2>1, <2>3, <2>4, <2>5
<1>7. pos \in [0..L -> 0..n + 1] /\ CutBy(q, items, n + 1, a, pos, away)
  <2>1. pos \in [0..L -> 0..n + 1]
    <3>1. \A i \in 0..n : i \in 0..n + 1
      OBVIOUS
    <3> QED
      BY <1>2, <3>1
  <2>2. CutBy(p, items, n, a, pos, away) /\ q.pieces = p.pieces /\ q.mode = p.mode
    BY <1>2, <1>5
  <2>3. q.cur = SubSeq(items, pos[Len(q.pieces)] + 1, n + 1)
    BY <1>0, <1>5, <1>6
  <2> QED
    BY <2>1, <2>2, <2>3 DEF CutBy
<1>8. WellCut(q, items, n + 1, a)
  BY <1>0, <1>5, <1>7 DEF WellCut
<1>9. q = More(p, items[n + 1])
  BY <1>1, <1>3, <1>4 DEF More
<1> QED
  BY <1>8, <1>9

\* What is in hand becomes a piece, and the screen may change hands.
LEMMA Divided ==
  ASSUME NEW items \in Items, NEW n \in Nat, NEW a \in BOOLEAN,
         NEW p, WellCut(p, items, n, a), NEW m \in n..Len(items),
         NEW next \in Items, next = SubSeq(items, n + 1, m),
         NEW act \in Acts, NEW mode \in {"none", "alt", "soft"}, NEW hidden \in BOOLEAN,
         Moves(act, p.mode # "none", mode # "none")
  PROVE  WellCut(Label(Cut(p, act, next), mode, hidden), items, m, a)
<1>0. PICK L \in Nat : L = Len(p.pieces)
  BY DEF WellCut, Parsers
<1>1. p \in Parsers /\ n \in 0..Len(items) /\ p.pieces \in Seq(Piece)
  BY DEF WellCut, Parsers
<1>2. PICK pos \in [0..L -> 0..n], away \in [0..L -> BOOLEAN] : CutBy(p, items, n, a, pos, away)
  BY <1>0 DEF WellCut
<1>3. PICK x \in Piece : x = [data |-> p.cur, act |-> act]
  BY <1>1 DEF Piece, Parsers
<1>4. PICK ps \in Seq(Piece) : ps = Append(p.pieces, x)
  BY <1>1, AppendProperties
<1>5. PICK q \in Parsers : q = [p EXCEPT !.pieces = ps, !.cur = next, !.mode = mode, !.hidden = hidden]
  BY <1>1 DEF Parsers
<1>6. q.pieces = ps /\ q.mode = mode /\ q.cur = next
  BY <1>1, <1>5 DEF Parsers
<1>7. /\ Len(ps) = L + 1 /\ ps[L + 1] = x
      /\ \A k \in 1..L : ps[k] = p.pieces[k]
  BY <1>0, <1>1, <1>4, AppendProperties
<1> DEFINE pos2 == [k \in 0..L + 1 |-> IF k <= L THEN pos[k] ELSE n]
           away2 == [k \in 0..L + 1 |-> IF k <= L THEN away[k] ELSE mode # "none"]
<1>8. pos2 \in [0..L + 1 -> 0..m] /\ away2 \in [0..L + 1 -> BOOLEAN]
  <2>1. ASSUME NEW k \in 0..L + 1
        PROVE  (IF k <= L THEN pos[k] ELSE n) \in 0..m
    <3>1. n \in 0..m /\ \A j \in 0..n : j \in 0..m
      BY <1>1
    <3>2. k <= L => k \in 0..L
      OBVIOUS
    <3> QED
      BY <3>1, <3>2
  <2>2. ASSUME NEW k \in 0..L + 1
        PROVE  (IF k <= L THEN away[k] ELSE mode # "none") \in BOOLEAN
    <3>1. k <= L => k \in 0..L
      OBVIOUS
    <3> QED
      BY <3>1
  <2> QED
    BY <2>1, <2>2
<1>9. /\ \A k \in 0..L : pos2[k] = pos[k] /\ away2[k] = away[k]
      /\ pos2[L + 1] = n /\ away2[L + 1] = (mode # "none")
  BY <1>1
<1> HIDE DEF pos2, away2
<1>10. ASSUME NEW k \in 1..L + 1
       PROVE  /\ pos2[k - 1] <= pos2[k]
              /\ ps[k].data = SubSeq(items, pos2[k - 1] + 1, pos2[k])
              /\ Moves(ps[k].act, away2[k - 1], away2[k])
  <2>0. k <= L \/ k = L + 1
    OBVIOUS
  <2>1. CASE k <= L
    <3>1. k \in 1..L /\ k \in 0..L /\ k - 1 \in 0..L
      BY <1>1, <2>1
    <3> QED
      BY <1>0, <1>2, <1>7, <1>9, <3>1 DEF CutBy
  <2>2. CASE k = L + 1
    <3>1. L \in 0..L /\ k - 1 = L
      BY <1>1, <2>2
    <3>2. pos2[k - 1] = pos[L] /\ pos[L] \in 0..n /\ pos2[k] = n
      BY <1>2, <1>9, <2>2, <3>1
    <3>3. x.data = p.cur /\ x.act = act /\ ps[k] = x
      BY <1>3, <1>7, <2>2
    <3>4. p.cur = SubSeq(items, pos[L] + 1, n) /\ away[L] = (p.mode # "none")
      BY <1>0, <1>2 DEF CutBy
    <3>5. away2[k - 1] = (p.mode # "none") /\ away2[k] = (mode # "none")
      BY <1>9, <2>2, <3>1, <3>4
    <3> QED
      BY <3>2, <3>3, <3>4, <3>5
  <2> QED
    BY <2>0, <2>1, <2>2
<1>11. CutBy(q, items, m, a, pos2, away2)
  <2>1. pos2[0] = 0 /\ away2[0] = a
    BY <1>1, <1>2, <1>9 DEF CutBy
  <2> QED
    BY <1>0, <1>6, <1>7, <1>9, <1>10, <2>1 DEF CutBy
<1>12. WellCut(q, items, m, a)
  <2>1. m \in 0..Len(items) /\ Len(q.pieces) = L + 1
    BY <1>1, <1>6, <1>7
  <2> QED
    BY <1>8, <1>11, <2>1 DEF WellCut
<1>13. q = Label(Cut(p, act, next), mode, hidden)
  BY <1>1, <1>3, <1>4, <1>5 DEF Cut, Label, Parsers
<1> QED
  BY <1>12, <1>13

\* A cut changes neither the mode nor the cursor.
LEMMA CutTyped ==
  ASSUME NEW p \in Parsers, NEW act \in Acts, NEW next \in Items
  PROVE  /\ Cut(p, act, next) \in Parsers
         /\ Cut(p, act, next).mode = p.mode /\ Cut(p, act, next).hidden = p.hidden
<1>1. PICK x \in Piece : x = [data |-> p.cur, act |-> act]
  BY DEF Piece, Parsers
<1>2. PICK ps \in Seq(Piece) : ps = Append(p.pieces, x)
  BY AppendProperties DEF Parsers
<1>3. Cut(p, act, next) = [p EXCEPT !.pieces = ps, !.cur = next]
  BY <1>1, <1>2 DEF Cut, Parsers
<1> QED
  BY <1>3 DEF Parsers

\* A change of the mode, of the cursor or of neither is a label.
LEMMA NewMode ==
  ASSUME NEW r \in Parsers, NEW mode
  PROVE  [r EXCEPT !.mode = mode] = Label(r, mode, r.hidden)
  BY DEF Label, Parsers

\* A change of the cursor is a label.
LEMMA NewHidden ==
  ASSUME NEW r \in Parsers, NEW hidden
  PROVE  [r EXCEPT !.hidden = hidden] = Label(r, r.mode, hidden)
  BY DEF Label, Parsers

\* No change is a label.
LEMMA NothingNew ==
  ASSUME NEW r \in Parsers
  PROVE  r = Label(r, r.mode, r.hidden)
  BY DEF Label, Parsers

\* A label that stays on its side of "none" changes nothing of the cut.
LEMMA Relabeled ==
  ASSUME NEW items, NEW n, NEW a, NEW p, WellCut(p, items, n, a),
         NEW mode \in {"none", "alt", "soft"}, NEW hidden \in BOOLEAN,
         mode = p.mode \/ (mode # "none" /\ p.mode # "none")
  PROVE  WellCut(Label(p, mode, hidden), items, n, a)
<1>1. p \in Parsers
  BY DEF WellCut
<1>2. PICK q \in Parsers : q = Label(p, mode, hidden)
  BY <1>1 DEF Parsers, Label
<1>3. q.pieces = p.pieces /\ q.cur = p.cur /\ (q.mode # "none") = (p.mode # "none")
  BY <1>1, <1>2 DEF Parsers, Label
<1>4. WellCut(q, items, n, a)
  <2>1. \A pos, away : CutBy(p, items, n, a, pos, away) => CutBy(q, items, n, a, pos, away)
    BY <1>3 DEF CutBy
  <2> QED
    BY <1>3, <2>1 DEF WellCut
<1> QED
  BY <1>2, <1>4

\* What Parse may do with an item: cut before it, behind it, or not at all.
LEMMA ParseCases ==
  ASSUME NEW p \in Parsers, NEW it \in Item
  PROVE  LET Becomes(r, mode, hidden) == Parse(p, it) = Label(r, mode, hidden)
         IN \/ /\ p.mode = "none"
               /\ \E mode \in {"alt", "soft"} : Becomes(Cut(p, "suspend", <<it>>), mode, p.hidden)
            \/ /\ p.mode # "none"
               /\ \E act \in {"resume", "clear"}, hidden \in BOOLEAN :
                    Becomes(Cut(More(p, it), act, <<>>), "none", hidden)
            \/ Becomes(Cut(More(p, it), "refresh", <<>>), p.mode, p.hidden)
            \/ \E mode \in {"none", "alt", "soft"}, hidden \in BOOLEAN :
                 Becomes(More(p, it), mode, hidden) /\ (mode = p.mode \/ (mode # "none" /\ p.mode # "none"))
<1> DEFINE more == More(p, it)
<1>0. <<it>> \in Items /\ <<>> \in Items
  BY NoItems DEF Items
<1>1. more \in Parsers /\ more.mode = p.mode /\ more.hidden = p.hidden
  <2>1. PICK c \in Items : c = Append(p.cur, it)
    BY AppendProperties DEF Items, Parsers
  <2> QED
    BY <2>1 DEF More, Parsers
<1>2. p.hidden \in BOOLEAN /\ p.mode \in {"none", "alt", "soft"}
  BY DEF Parsers
<1> HIDE DEF more
<1>3. \A act \in Acts : /\ Cut(p, act, <<it>>) \in Parsers /\ Cut(p, act, <<it>>).hidden = p.hidden
                        /\ Cut(more, act, <<>>) \in Parsers
                        /\ Cut(more, act, <<>>).mode = p.mode /\ Cut(more, act, <<>>).hidden = p.hidden
  BY <1>0, <1>1, CutTyped
<1>4. CASE it.is = "alt"
  <2>1. CASE p.mode = "none"
    <3>1. Parse(p, it) = [Cut(p, "suspend", <<it>>) EXCEPT !.mode = "alt"]
      BY <1>4, <2>1 DEF Parse
    <3>2. Parse(p, it) = Label(Cut(p, "suspend", <<it>>), "alt", p.hidden)
      <4>1. PICK r \in Parsers : r = Cut(p, "suspend", <<it>>) /\ r.hidden = p.hidden
          BY <1>3 DEF Acts
        <4>2. [r EXCEPT !.mode = "alt"] = Label(r, "alt", r.hidden)
          BY NewMode
        <4> QED
          BY <3>1, <4>1, <4>2
    <3> QED
      BY <2>1, <3>2
  <2>2. CASE p.mode # "none"
    <3>1. Parse(p, it) = [more EXCEPT !.mode = "alt"]
      BY <1>4, <2>2 DEF Parse, More, more
    <3>2. Parse(p, it) = Label(more, "alt", p.hidden)
      BY <1>1, <3>1, NewMode, Zenon
    <3> QED
      BY <1>2, <2>2, <3>2 DEF more
  <2> QED
    BY <2>1, <2>2
<1>5. CASE it.is = "main" /\ p.mode = "alt"
  <2>1. Parse(p, it) = [Cut(more, "resume", <<>>) EXCEPT !.mode = "none"]
    BY <1>5 DEF Parse, More, more
  <2>2. Parse(p, it) = Label(Cut(more, "resume", <<>>), "none", p.hidden)
    <3>1. PICK r \in Parsers : r = Cut(more, "resume", <<>>) /\ r.hidden = p.hidden
        BY <1>3 DEF Acts
      <3>2. [r EXCEPT !.mode = "none"] = Label(r, "none", r.hidden)
        BY NewMode
      <3> QED
        BY <2>1, <3>1, <3>2
  <2> QED
    BY <1>2, <1>5, <2>2 DEF more
<1>6. CASE it.is = "hide" \/ (it.is = "show" /\ p.mode # "soft")
  <2>1. PICK hidden \in BOOLEAN : Parse(p, it) = [more EXCEPT !.hidden = hidden]
    BY <1>6 DEF Parse, More, more
  <2>2. Parse(p, it) = Label(more, p.mode, hidden)
    BY <1>1, <2>1, NewHidden, Zenon
  <2> QED
    BY <1>2, <2>2 DEF more
<1>7. CASE it.is = "show" /\ p.mode = "soft"
  <2>1. Parse(p, it) = Label(Cut(more, "clear", <<>>), "none", FALSE)
    BY <1>7 DEF Parse, More, Label, more
  <2> QED
    BY <1>7, <2>1 DEF more
<1>8. CASE it.is = "home" /\ p.mode = "none" /\ p.hidden
  <2>1. Parse(p, it) = [Cut(p, "suspend", <<it>>) EXCEPT !.mode = "soft"]
    BY <1>8 DEF Parse
  <2>2. Parse(p, it) = Label(Cut(p, "suspend", <<it>>), "soft", p.hidden)
    <3>1. PICK r \in Parsers : r = Cut(p, "suspend", <<it>>) /\ r.hidden = p.hidden
        BY <1>3 DEF Acts
      <3>2. [r EXCEPT !.mode = "soft"] = Label(r, "soft", r.hidden)
        BY NewMode
      <3> QED
        BY <2>1, <3>1, <3>2
  <2> QED
    BY <1>8, <2>2
<1>9. CASE it.is = "home" /\ p.mode = "none" /\ ~p.hidden
  <2>1. Parse(p, it) = Cut(more, "refresh", <<>>)
    BY <1>9 DEF Parse, More, more
  <2>2. Parse(p, it) = Label(Cut(more, "refresh", <<>>), p.mode, p.hidden)
    BY <1>3, <2>1, NothingNew, Zenon DEF Acts
  <2> QED
    BY <2>2 DEF more
<1>10. CASE \/ it.is = "main" /\ p.mode # "alt"
            \/ it.is = "home" /\ p.mode # "none"
            \/ it.is \notin {"alt", "main", "hide", "show", "home"}
  <2>1. Parse(p, it) = more
    BY <1>10 DEF Parse, More, more
  <2>2. Parse(p, it) = Label(more, p.mode, p.hidden)
    BY <1>1, <2>1, NothingNew, Zenon
  <2> QED
    BY <1>2, <2>2 DEF more
<1> QED
  BY <1>4, <1>5, <1>6, <1>7, <1>8, <1>9, <1>10

\* Parse cuts one item more.
LEMMA Parsed ==
  ASSUME NEW items \in Items, NEW n \in Nat, n + 1 \in 1..Len(items), NEW a \in BOOLEAN,
         NEW p, WellCut(p, items, n, a)
  PROVE  WellCut(Parse(p, items[n + 1]), items, n + 1, a)
<1> DEFINE it == items[n + 1]
<1>0. p \in Parsers /\ it \in Item /\ items \in Seq(Item) /\ p.hidden \in BOOLEAN
  BY ElementOfSeq DEF WellCut, Items, Parsers
<1>1. WellCut(More(p, it), items, n + 1, a)
  BY Extended
<1>2. More(p, it).mode = p.mode
  BY <1>0 DEF More, Parsers
<1>3. <<it>> = SubSeq(items, n + 1, n + 1) /\ <<it>> \in Items
  <2>1. n + 1 \in n + 1..Len(items)
    OBVIOUS
  <2>2. SubSeq(items, n + 1, n + 1) = SubSeq(items, n + 1, n + 1 - 1) \o <<items[n + 1]>>
    BY <1>0, <2>1, Longer
  <2>3. SubSeq(items, n + 1, n + 1 - 1) = <<>>
    BY SubSeqEmpty
  <2>4. <<it>> \in Seq(Item)
    BY <1>0
  <2> QED
    BY <2>2, <2>3, <2>4, ConcatEmptySeq DEF Items
<1>4. <<>> = SubSeq(items, n + 1 + 1, n + 1) /\ <<>> \in Items
  BY SubSeqEmpty, NoItems
<1>5. n + 1 \in n..Len(items) /\ n + 1 \in n + 1..Len(items) /\ n + 1 \in Nat
  OBVIOUS
<1> HIDE DEF it
<1>6. CASE /\ p.mode = "none"
           /\ \E mode \in {"alt", "soft"} :
                Parse(p, it) = Label(Cut(p, "suspend", <<it>>), mode, p.hidden)
  <2>1. PICK mode \in {"none", "alt", "soft"} :
          mode # "none" /\ Parse(p, it) = Label(Cut(p, "suspend", <<it>>), mode, p.hidden)
    BY <1>6
  <2>2. Moves("suspend", p.mode # "none", mode # "none") /\ "suspend" \in Acts
    BY <2>1 DEF Moves, Acts
  <2>3. WellCut(Label(Cut(p, "suspend", <<it>>), mode, p.hidden), items, n + 1, a)
    BY <1>0, <1>3, <1>5, <2>2, Divided
  <2> QED
    BY <2>1, <2>3 DEF it
<1>7. CASE /\ p.mode # "none"
           /\ \E act \in {"resume", "clear"}, hidden \in BOOLEAN :
                Parse(p, it) = Label(Cut(More(p, it), act, <<>>), "none", hidden)
  <2>1. PICK act \in Acts, hidden \in BOOLEAN :
          act \in {"resume", "clear"} /\ Parse(p, it) = Label(Cut(More(p, it), act, <<>>), "none", hidden)
    BY <1>7 DEF Acts
  <2>2. Moves(act, More(p, it).mode # "none", "none" # "none")
    BY <2>1 DEF Moves
  <2>3. WellCut(Label(Cut(More(p, it), act, <<>>), "none", hidden), items, n + 1, a)
    BY <1>1, <1>4, <1>5, <2>2, Divided
  <2> QED
    BY <2>1, <2>3 DEF it
<1>8. CASE Parse(p, it) = Label(Cut(More(p, it), "refresh", <<>>), p.mode, p.hidden)
  <2>1. Moves("refresh", More(p, it).mode # "none", p.mode # "none") /\ "refresh" \in Acts
    BY <1>2 DEF Moves, Acts
  <2>2. p.mode \in {"none", "alt", "soft"}
    BY <1>0 DEF Parsers
  <2>3. WellCut(Label(Cut(More(p, it), "refresh", <<>>), p.mode, p.hidden), items, n + 1, a)
    BY <1>0, <1>1, <1>4, <1>5, <2>1, <2>2, Divided
  <2> QED
    BY <1>8, <2>3 DEF it
<1>9. CASE \E mode \in {"none", "alt", "soft"}, hidden \in BOOLEAN :
             /\ Parse(p, it) = Label(More(p, it), mode, hidden)
             /\ mode = p.mode \/ (mode # "none" /\ p.mode # "none")
  BY <1>1, <1>2, <1>9, Relabeled DEF it
<1> QED
  BY <1>0, <1>6, <1>7, <1>8, <1>9, ParseCases

\* Parse makes a parser of a parser.
LEMMA ParseTyped ==
  ASSUME NEW p \in Parsers, NEW it \in Item
  PROVE  Parse(p, it) \in Parsers
<1>1. <<it>> \in Items /\ <<>> \in Items
  BY NoItems DEF Items
<1>2. More(p, it) \in Parsers
  <2>1. PICK c \in Items : c = Append(p.cur, it)
    BY AppendProperties DEF Items, Parsers
  <2> QED
    BY <2>1 DEF More, Parsers
<1>3. \A r \in Parsers, mode \in {"none", "alt", "soft"}, hidden \in BOOLEAN : Label(r, mode, hidden) \in Parsers
  BY DEF Label, Parsers
<1>4. \A act \in Acts : Cut(p, act, <<it>>) \in Parsers /\ Cut(More(p, it), act, <<>>) \in Parsers
  BY <1>1, <1>2, CutTyped
<1>5. p.mode \in {"none", "alt", "soft"} /\ p.hidden \in BOOLEAN
  BY DEF Parsers
<1>6. ASSUME NEW act \in {"suspend", "resume", "clear", "refresh"}, NEW mode \in {"none", "alt", "soft"},
             NEW hidden \in BOOLEAN
      PROVE  /\ Label(Cut(p, act, <<it>>), mode, hidden) \in Parsers
             /\ Label(Cut(More(p, it), act, <<>>), mode, hidden) \in Parsers
             /\ Label(More(p, it), mode, hidden) \in Parsers
  <2>1. act \in Acts
    BY DEF Acts
  <2> QED
    BY <1>2, <1>3, <1>4, <2>1
<1> QED
  <2>1. CASE \E mode \in {"alt", "soft"} : Parse(p, it) = Label(Cut(p, "suspend", <<it>>), mode, p.hidden)
    BY <1>5, <1>6, <2>1
  <2>2. CASE \E act \in {"resume", "clear"}, hidden \in BOOLEAN :
               Parse(p, it) = Label(Cut(More(p, it), act, <<>>), "none", hidden)
    BY <1>6, <2>2
  <2>3. CASE Parse(p, it) = Label(Cut(More(p, it), "refresh", <<>>), p.mode, p.hidden)
    BY <1>5, <1>6, <2>3
  <2>4. CASE \E mode \in {"none", "alt", "soft"}, hidden \in BOOLEAN : Parse(p, it) = Label(More(p, it), mode, hidden)
    BY <1>6, <2>4
  <2> QED
    BY <2>1, <2>2, <2>3, <2>4, ParseCases, Zenon

\* Feed cuts the whole text and has nothing in hand at the end.
LEMMA Fed ==
  ASSUME NEW s \in Screens, NEW items \in Items
  PROVE  WellCut(Feed(s, items), items, Len(items), s.mode # "none") /\ Feed(s, items).cur = <<>>
<1> DEFINE base == [mode |-> s.mode, hidden |-> s.hidden, pieces |-> <<>>, cur |-> <<>>]
           Eq(f) == f = [i \in 0..Len(items) |-> IF i = 0 THEN base ELSE Parse(f[i - 1], items[i])]
           F == CHOOSE f : Eq(f)
<1>0. Len(items) \in Nat /\ items \in Seq(Item) /\ base \in Parsers
  BY NoItems, EmptySeq DEF Items, Parsers, Screens
<1>1. Feed(s, items) = Cut(F[Len(items)], "none", <<>>)
  BY Zenon DEF Feed
<1> DEFINE n == Len(items)
           step == [z \in (1..n) \X Parsers |-> Parse(z[2], items[z[1]])]
<1>2. step \in [(1..n) \X Parsers -> Parsers]
  <2>1. ASSUME NEW z \in (1..n) \X Parsers PROVE Parse(z[2], items[z[1]]) \in Parsers
    <3>1. z[2] \in Parsers /\ z[1] \in 1..n
      OBVIOUS
    <3>2. items[z[1]] \in Item
      BY <1>0, <3>1, ElementOfSeq
    <3> QED
      BY <3>1, <3>2, ParseTyped
  <2> QED
    BY <2>1
<1>3. \A i \in 1..n, p \in Parsers : step[<<i, p>>] = Parse(p, items[i])
  OBVIOUS
<1> HIDE DEF step, base
<1>4. PICK f \in [0..n -> Parsers] : f[0] = base /\ \A i \in 1..n : f[i] = step[<<i, f[i - 1]>>]
  <2>1. step \in Steps(n, Parsers)
    BY <1>2 DEF Steps
  <2> QED
    <3>1. \E f : IsRun(f, n, Parsers, base, step)
      BY <1>0, <2>1, Recursion
    <3> QED
      BY <3>1 DEF IsRun
<1>5. \A i \in 1..n : f[i - 1] \in Parsers /\ f[i] = Parse(f[i - 1], items[i])
  <2> TAKE i \in 1..n
  <2>1. i - 1 \in 0..n
    BY <1>0
  <2> QED
    BY <1>3, <1>4, <2>1
<1>6. Eq(f)
  <2> DEFINE g == [i \in 0..n |-> IF i = 0 THEN base ELSE Parse(f[i - 1], items[i])]
  <2>1. \A i \in 0..n : f[i] = g[i]
    BY <1>0, <1>4, <1>5
  <2> QED
    BY <1>4, <2>1
<1>7. Eq(F)
  BY <1>6, Zenon
<1> HIDE DEF F
<1>8. F[0] = base /\ \A i \in 1..n : F[i] = Parse(F[i - 1], items[i])
  BY <1>0, <1>7
<1> DEFINE S == {i \in Nat : i <= n => WellCut(F[i], items, i, s.mode # "none")}
<1>9. 0 \in S
  <2>1. base.pieces = <<>> /\ base.cur = <<>> /\ base.mode = s.mode
    BY DEF base
  <2>2. SubSeq(items, 0 + 1, 0) = <<>> /\ Len(<<>>) = 0
    BY SubSeqEmpty
  <2>3. PICK a \in BOOLEAN : a = (s.mode # "none")
    OBVIOUS
  <2> DEFINE pos == [k \in 0..0 |-> 0]
             away == [k \in 0..0 |-> a]
  <2>4. pos \in [0..0 -> 0..0] /\ away \in [0..0 -> BOOLEAN] /\ pos[0] = 0 /\ away[0] = a /\ 1..0 = {}
    OBVIOUS
  <2> HIDE DEF pos, away
  <2>5. CutBy(base, items, 0, a, pos, away)
    BY <2>1, <2>2, <2>3, <2>4 DEF CutBy
  <2>6. WellCut(base, items, 0, a)
    BY <1>0, <2>1, <2>2, <2>4, <2>5 DEF WellCut
  <2> QED
    BY <1>8, <2>3, <2>6
<1>10. ASSUME NEW i \in Nat, i \in S PROVE i + 1 \in S
  <2> SUFFICES ASSUME i + 1 <= n PROVE WellCut(F[i + 1], items, i + 1, s.mode # "none")
    OBVIOUS
  <2>1. i + 1 \in 1..n /\ i + 1 - 1 = i
    OBVIOUS
  <2>2. PICK a \in BOOLEAN : a = (s.mode # "none")
    OBVIOUS
  <2>3. WellCut(F[i], items, i, a)
    BY <1>0, <1>10, <2>1, <2>2
  <2>4. WellCut(Parse(F[i], items[i + 1]), items, i + 1, a)
    BY <2>1, <2>3, Parsed
  <2> QED
    BY <1>8, <2>1, <2>2, <2>4
<1> HIDE DEF S
<1>11. n \in S
  BY <1>0, <1>9, <1>10, Induction
<1>12. WellCut(F[n], items, n, s.mode # "none")
  BY <1>0, <1>11 DEF S
<1> QED
  <2>1. PICK a \in BOOLEAN : a = (s.mode # "none")
    OBVIOUS
  <2>2. WellCut(F[n], items, n, a)
    BY <1>12, <2>1
  <2>3. F[n] \in Parsers
    BY <2>2 DEF WellCut
  <2>4. <<>> = SubSeq(items, n + 1, n) /\ <<>> \in Items /\ n \in n..Len(items) /\ "none" \in Acts
    BY <1>0, SubSeqEmpty, NoItems DEF Acts
  <2>5. Moves("none", F[n].mode # "none", F[n].mode # "none")
    BY DEF Moves
  <2>6. F[n].mode \in {"none", "alt", "soft"} /\ F[n].hidden \in BOOLEAN
    BY <2>3 DEF Parsers
  <2>7. WellCut(Label(Cut(F[n], "none", <<>>), F[n].mode, F[n].hidden), items, n, a)
    BY <1>0, <2>2, <2>4, <2>5, <2>6, Divided
  <2>8. PICK r \in Parsers : r = Cut(F[n], "none", <<>>) /\ r.mode = F[n].mode /\ r.hidden = F[n].hidden
    BY <2>3, <2>4, CutTyped
  <2>9. r = Label(r, r.mode, r.hidden)
    BY NothingNew
  <2>10. r.cur = <<>>
    BY <2>3, <2>8 DEF Cut, Parsers
  <2> QED
    BY <1>1, <2>1, <2>7, <2>8, <2>9, <2>10

\* What is printed comes behind what the screen and the pager held, whatever the bars do.
LEMMA Delivered ==
  ASSUME NEW s \in Screens, Settled(s), NEW items \in Items, NEW fits \in BOOLEAN, NEW keeps \in BOOLEAN
  PROVE  LET t == DeviceOutput(s, items, fits, keeps) IN
         /\ t \in Screens /\ Settled(t) /\ Kept(t) = Kept(s) \o Ids(items)
         /\ Owned(s) => Owned(t)
<1>1. CASE s.bars = "none"
  <2>1. DeviceOutput(s, items, fits, keeps) = Output(s, items, keeps)
    BY <1>1 DEF DeviceOutput
  <2> QED
    BY <1>1, <2>1, Printed DEF SameBars, Owned
<1>2. CASE s.bars # "none"
  <2> DEFINE p == Feed(s, items)
             base == [Refresh(s, fits) EXCEPT !.mode = p.mode, !.hidden = p.hidden]
             After(d, i) == Apply(Output(d, p.pieces[i].data, keeps), p.pieces[i].act, fits)
             Eq(f) == f = [i \in 0..Len(p.pieces) |-> IF i = 0 THEN base ELSE After(f[i - 1], i)]
             F == CHOOSE f : Eq(f)
  <2>1. DeviceOutput(s, items, fits, keeps) = F[Len(p.pieces)]
    BY <1>2, Zenon DEF DeviceOutput
  <2>2. PICK a \in BOOLEAN : a = (s.mode # "none")
    OBVIOUS
  <2>3. WellCut(p, items, Len(items), a)
    BY <2>2, Fed
  <2> HIDE DEF p
  <2>4. PICK n \in Nat : n = Len(p.pieces)
    BY <2>3 DEF WellCut, Parsers
  <2>5. PICK pos \in [0..n -> 0..Len(items)], away \in [0..n -> BOOLEAN] : CutBy(p, items, Len(items), a, pos, away)
    BY <2>3, <2>4 DEF WellCut
  <2>6. p \in Parsers /\ p.pieces \in Seq(Piece) /\ items \in Seq(Item) /\ Len(items) \in Nat
    BY <2>3 DEF WellCut, Parsers, Items
  <2> DEFINE Held == {t \in Screens : Settled(t)}
             step == [z \in (1..n) \X Held |-> After(z[2], z[1])]
  <2>7. base \in Held /\ SameText(s, base) /\ base.mode = p.mode /\ (Owned(s) => Away(base, a))
    <3>1. PICK r \in Screens : r = Refresh(s, fits)
      BY BarsDrawn
    <3>2. SameText(s, r) /\ (Owned(s) => Away(r, a))
      BY <2>2, <3>1, BarsDrawn, Refreshed DEF Owned, Away
    <3>3. base = [r EXCEPT !.mode = p.mode, !.hidden = p.hidden]
      BY <3>1
    <3>4. p.mode \in {"none", "alt", "soft"} /\ p.hidden \in BOOLEAN
      BY <2>6 DEF Parsers
    <3>5. base \in Screens /\ SameText(r, base) /\ base.mode = p.mode /\ (Away(r, a) => Away(base, a))
      BY <3>3, <3>4 DEF Screens, SameText, Away
    <3> HIDE DEF base
    <3> QED
      BY <3>2, <3>5 DEF SameText, Settled
  <2>8. ASSUME NEW i \in 1..n, NEW d \in Held
        PROVE  /\ After(d, i) \in Held /\ After(d, i).mode = d.mode
               /\ Kept(After(d, i)) = Kept(d) \o Ids(p.pieces[i].data)
               /\ Away(d, away[i - 1]) => Away(After(d, i), away[i])
    <3>1. p.pieces[i] \in Piece
      BY <2>4, <2>6, ElementOfSeq
    <3>2. p.pieces[i].data \in Items /\ p.pieces[i].act \in Acts
      BY <3>1 DEF Piece
    <3>3. PICK o \in Screens : o = Output(d, p.pieces[i].data, keeps)
      BY <3>2, Printed
    <3>4. SameBars(d, o) /\ Settled(o) /\ Kept(o) = Kept(d) \o Ids(p.pieces[i].data)
      BY <3>2, <3>3, Printed
    <3>5. PICK t \in Screens : t = Apply(o, p.pieces[i].act, fits)
      BY <3>2, Applied
    <3>6. SameText(o, t) /\ t.mode = o.mode
      BY <3>2, <3>5, Applied
    <3>7. i \in 1..Len(p.pieces) /\ i \in 0..n /\ i - 1 \in 0..n
      BY <2>4
    <3>8. Moves(p.pieces[i].act, away[i - 1], away[i]) /\ away[i - 1] \in BOOLEAN /\ away[i] \in BOOLEAN
      BY <2>5, <3>7 DEF CutBy
    <3>9. Away(o, away[i - 1]) => Away(t, away[i])
      BY <3>2, <3>5, <3>8, Applied
    <3>10. After(d, i) = t
      BY <3>3, <3>5
    <3> HIDE DEF After
    <3> QED
      BY <3>4, <3>6, <3>9, <3>10 DEF SameBars, SameText, Settled, Kept, Away
  <2> HIDE DEF base, After
  <2>9. step \in Steps(n, Held)
    <3>1. \A z \in (1..n) \X Held : After(z[2], z[1]) \in Held
      BY <2>8
    <3> QED
      BY <3>1 DEF Steps
  <2>10. \A i \in 1..n, d \in Held : step[<<i, d>>] = After(d, i)
    OBVIOUS
  <2> HIDE DEF step, Held
  <2>11. PICK f : IsRun(f, n, Held, base, step)
    BY <2>7, <2>9, Recursion
  <2>12. f \in [0..n -> Held] /\ f[0] = base /\ \A i \in 1..n : f[i] = After(f[i - 1], i)
    <3>1. \A i \in 1..n : i - 1 \in 0..n
      OBVIOUS
    <3> QED
      BY <2>10, <2>11, <3>1 DEF IsRun
  <2>13. Eq(f)
    <3> DEFINE g == [i \in 0..n |-> IF i = 0 THEN base ELSE After(f[i - 1], i)]
    <3>1. \A i \in 0..n : f[i] = g[i]
      BY <2>12
    <3>2. f = g
      BY <2>12, <3>1
    <3> QED
      BY <2>4, <3>2
  <2>14. Eq(F)
    BY <2>13, Zenon
  <2> HIDE DEF F
  <2>15. F[0] = base /\ \A i \in 1..n : F[i] = After(F[i - 1], i)
    <3>1. 0 \in 0..n /\ \A i \in 1..n : i \in 0..n /\ i # 0
      OBVIOUS
    <3> QED
      BY <2>4, <2>14, <3>1
  <2> DEFINE Text(i) == SubSeq(items, 1, pos[i])
             S == {i \in Nat : i <= n =>
                     /\ F[i] \in Held /\ F[i].mode = p.mode
                     /\ Kept(F[i]) = Kept(s) \o Ids(Text(i))
                     /\ Owned(s) => Away(F[i], away[i])}
  <2>16. Kept(s) \in Seq(Nat) /\ \A x \in Items : Ids(x) \in Seq(Nat)
    <3>1. \A x \in Items : Ids(x) \in Seq(Nat)
      BY Numbered DEF Items
    <3> QED
      BY <3>1, ConcatProperties DEF Kept, Screens, Numbers
  <2>17. 0 \in S
    <3>1. Text(0) = <<>>
      BY <2>5, SubSeqEmpty DEF CutBy
    <3>2. Ids(<<>>) = <<>>
      BY NoItems, Numbered DEF Items
    <3>3. Kept(s) \o <<>> = Kept(s)
      BY <2>16, ConcatEmptySeq
    <3>4. Kept(base) = Kept(s) /\ away[0] = a
      BY <2>5, <2>7 DEF SameText, Kept, CutBy
    <3> QED
      BY <2>7, <2>15, <3>1, <3>2, <3>3, <3>4
  <2>18. \A k \in 1..n : /\ pos[k - 1] <= pos[k]
                        /\ p.pieces[k].data = SubSeq(items, pos[k - 1] + 1, pos[k])
    BY <2>4, <2>5 DEF CutBy
  <2>19. \A k \in 1..n : p.pieces[k].data \in Items
    <3>1. \A k \in 1..n : p.pieces[k] \in Piece
      BY <2>4, <2>6, ElementOfSeq
    <3> QED
      BY <3>1 DEF Piece
  <2>20. ASSUME NEW i \in Nat, i \in S PROVE i + 1 \in S
    <3> SUFFICES ASSUME i + 1 <= n PROVE i + 1 \in S
      OBVIOUS
    <3>0. PICK k \in 1..n : k = i + 1 /\ k - 1 = i
      OBVIOUS
    <3>1. i \in 0..n /\ k \in 0..n
      BY <3>0
    <3>2. /\ F[i] \in Held /\ F[i].mode = p.mode
          /\ Kept(F[i]) = Kept(s) \o Ids(Text(i))
          /\ Owned(s) => Away(F[i], away[i])
      BY <2>20, <3>1
    <3> DEFINE data == p.pieces[k].data
    <3> HIDE DEF Text
    <3>3. /\ F[k] \in Held /\ F[k].mode = p.mode
          /\ Kept(F[k]) = Kept(F[i]) \o Ids(data)
          /\ Owned(s) => Away(F[k], away[k])
      <4>1. PICK d \in Held : d = F[i]
        BY <3>2
      <4>2. away[k - 1] = away[i]
        BY <3>0
      <4>3. /\ After(d, k) \in Held /\ After(d, k).mode = d.mode
            /\ Kept(After(d, k)) = Kept(d) \o Ids(p.pieces[k].data)
            /\ Away(d, away[k - 1]) => Away(After(d, k), away[k])
        BY <2>8
      <4>4. F[k] = After(F[k - 1], k)
        BY <2>15
      <4>5. F[k] = After(d, k)
        BY <3>0, <4>1, <4>4
      <4> QED
        BY <3>2, <4>1, <4>2, <4>3, <4>5
    <3>4. pos[i] \in 0..Len(items) /\ pos[k] \in 0..Len(items) /\ pos[i] <= pos[k]
      BY <2>5, <2>18, <3>0, <3>1
    <3>5. data = SubSeq(items, pos[i] + 1, pos[k])
      BY <2>18, <3>0
    <3>6. data \in Items
      BY <2>19
    <3>7. Text(i) \in Items
      <4>1. \A j \in 1..pos[i] : items[j] \in Item
        BY <2>6, <3>4, ElementOfSeq
      <4> QED
        BY <3>4, <4>1, SubSeqProperties DEF Items, Text
    <3>8. Text(i) \o data = Text(k)
      <4>1. PICK j \in 0..Len(items) : j = pos[i]
        BY <3>4
      <4>2. PICK m \in j..Len(items) : m = pos[k]
        BY <3>4, <4>1
      <4>3. 1 \in 1..Len(items) + 1 /\ j \in 1 - 1..Len(items)
        BY <2>6
      <4>4. SubSeq(items, 1, j) \o SubSeq(items, j + 1, m) = SubSeq(items, 1, m)
        BY <2>6, <4>3, ConcatAdjacentSubSeq
      <4> QED
        BY <3>5, <4>1, <4>2, <4>4 DEF Text
    <3> HIDE DEF data
    <3>9. Ids(Text(k)) = Ids(Text(i)) \o Ids(data)
      BY <3>6, <3>7, <3>8, Numbered DEF Items
    <3>10. (Kept(s) \o Ids(Text(i))) \o Ids(data) = Kept(s) \o (Ids(Text(i)) \o Ids(data))
      BY <2>16, <3>6, <3>7, Regrouped
    <3>11. Kept(F[k]) = Kept(s) \o Ids(Text(k))
      BY <3>2, <3>3, <3>9, <3>10
    <3> QED
      BY <3>0, <3>3, <3>11
  <2> HIDE DEF S
  <2>21. n \in S
    BY <2>17, <2>20, Induction
  <2>22. /\ F[n] \in Held /\ F[n].mode = p.mode
         /\ Kept(F[n]) = Kept(s) \o Ids(Text(n))
         /\ Owned(s) => Away(F[n], away[n])
    BY <2>21 DEF S
  <2>23. pos[n] \in 0..Len(items) /\ away[n] = (p.mode # "none") /\ p.cur = SubSeq(items, pos[n] + 1, Len(items))
    BY <2>4, <2>5 DEF CutBy
  <2>24. pos[n] = Len(items)
    <3>1. p.cur = <<>>
      BY Fed DEF p
    <3>2. PICK k \in 0..Len(items) : k = pos[n]
      BY <2>23
    <3>3. \A j \in k + 1..Len(items) : items[j] \in Item
      BY <2>6, ElementOfSeq
    <3>4. Len(SubSeq(items, k + 1, Len(items))) = IF k + 1 <= Len(items) THEN Len(items) - (k + 1) + 1 ELSE 0
      <4>1. k + 1 \in Int /\ Len(items) \in Int
        BY <2>6
      <4> QED
        BY <3>3, <4>1, SubSeqProperties
    <3>5. Len(SubSeq(items, k + 1, Len(items))) = 0
      BY <2>23, <3>1, <3>2, EmptySeq
    <3> QED
      BY <2>6, <3>2, <3>4, <3>5
  <2>25. Text(n) = items
    BY <2>6, <2>24, SubSeqFull
  <2> HIDE DEF Text
  <2> QED
    BY <2>1, <2>4, <2>22, <2>23, <2>25 DEF Held, Owned, Away
<1> QED
  BY <1>1, <1>2

\* The keyboard's handlers move the bars and leave the text as it is.
LEMMA BarsMoved ==
  ASSUME NEW s \in Screens, NEW fits \in BOOLEAN,
         NEW t \in {Refresh(s, fits), ResumeBars(s, fits), StopBars(s)}
  PROVE  t \in Screens /\ SameText(s, t) /\ (Owned(s) => Owned(t))
<1>1. CASE t = Refresh(s, fits)
  BY <1>1 DEF Refresh, Screens, SameText, Owned
<1>2. CASE t = ResumeBars(s, fits)
  <2>1. PICK r \in Screens : r = [s EXCEPT !.mode = "none", !.hidden = FALSE]
    BY DEF Screens
  <2>2. SameText(s, r) /\ r.mode = "none"
    BY <2>1 DEF Screens, SameText
  <2>3. t = IF s.suspended THEN StartBars(r, fits) ELSE s
    BY <1>2, <2>1 DEF ResumeBars
  <2>4. CASE ~s.suspended
    BY <2>3, <2>4 DEF SameText
  <2>5. CASE s.suspended
    BY <2>2, <2>3, <2>5 DEF StartBars, Screens, SameText, Owned
  <2> QED
    BY <2>4, <2>5
<1>3. CASE t = StopBars(s)
  BY <1>3 DEF StopBars, Screens, SameText, Owned
<1> QED
  BY <1>1, <1>2, <1>3

\* A screen with the same text keeps the same items.
LEMMA TextStays ==
  ASSUME NEW s, NEW t, SameText(s, t)
  PROVE  Kept(t) = Kept(s) /\ (Settled(s) => Settled(t))
BY DEF SameText, Kept, Settled

-----------------------------------------------------------------------------
(***************************************************************************)
(* The terminal's two goroutines.  Screen, reader's chunk and line are one *)
(* stream of rising numbers: printing and reading move the border between  *)
(* them, the keyboard only the one between screen and pager.               *)
(***************************************************************************)
CONSTANTS MaxOutput, MaxRead, MaxKeys
VARIABLES port, reader, rxErr, key, after, part, rest, choice, raw, quit, typed

Term == INSTANCE Terminal WITH pc <- key

\* What the device has printed, from the screen back to the line.
Stream(s, g, w) == Kept(s) \o g \o w
Rising(all) == \A i, j \in DOMAIN all : i < j => all[i] < all[j]

TextInv ==
  /\ scr \in Screens /\ Settled(scr) /\ got \in Numbers /\ wire \in Numbers
  /\ Rising(Stream(scr, got, wire))

CountInv ==
  /\ printed \in Nat /\ taken \subseteq 1..printed
  /\ ToSet(Stream(scr, got, wire)) = (1..printed) \ taken

\* The reader comes to the line with empty hands.
ReaderInv == reader = "reading" => got = <<>>

KeysInv ==
  /\ part \in Seq(Term!Keys) /\ rest \in Seq(Term!Keys)
  /\ after \in {"loop", "raw", "line", "rest"} /\ (key = "open" => part # <<>>)

\* A warning that is still fresh has not been used.
AskInv ==
  /\ warned \in BOOLEAN /\ warnings \in Nat /\ idleSent \in Nat
  /\ idleSent <= warnings /\ (warned => idleSent < warnings)

TermInv == TextInv /\ CountInv /\ Owned(scr) /\ ReaderInv /\ KeysInv /\ AskInv

\* What lies behind the operator's keys and the device's line in a step.
Lying == UNCHANGED <<got, wire, printed, taken>>
\* What a step that has nothing to do with Ctrl-C leaves alone.
Asking == UNCHANGED <<warned, warnings, idleSent>>
\* What the keyboard may do with the screen.
ScreenMoves ==
  \/ UNCHANGED scr
  \/ scr' = TogglePager(scr) \/ scr' = PagerContinue(scr) \/ scr' = StopBars(scr)
  \/ \E fits \in BOOLEAN : scr' = Refresh(scr, fits) \/ scr' = ResumeBars(scr, fits)

\* Rising numbers stay so when the first one on the line is taken away, and it is gone.
LEMMA Dropped ==
  ASSUME NEW a \in Numbers, NEW w \in Numbers, w # <<>>, Rising(a \o w)
  PROVE  /\ Rising(a \o Tail(w)) /\ Head(w) \in ToSet(a \o w)
         /\ ToSet(a \o Tail(w)) = ToSet(a \o w) \ {Head(w)}
<1>0. a \in Seq(Nat) /\ w \in Seq(Nat)
  BY DEF Numbers
<1>1. PICK l \in Nat, m \in Nat : l = Len(a) /\ m + 1 = Len(w) /\ Tail(w) \in Seq(Nat) /\ Len(Tail(w)) = m
  BY <1>0
<1> DEFINE p == a \o w
           q == a \o Tail(w)
<1>2. /\ DOMAIN p = 1..l + m + 1 /\ DOMAIN q = 1..l + m
      /\ \A i \in 1..l : p[i] = a[i] /\ q[i] = a[i]
  BY <1>0, <1>1
<1>3. \A i \in l + 1..l + m : q[i] = p[i + 1]
  <2>1. ASSUME NEW i \in l + 1..l + m PROVE q[i] = p[i + 1]
    <3>1. PICK j \in 1..m : i = l + j
      <4>1. i - l \in 1..m /\ i = l + (i - l)
        OBVIOUS
      <4> QED
        BY <4>1
    <3>2. Tail(w)[j] = w[j + 1]
      BY <1>0, <1>1, HeadTailProperties
    <3>3. q[i] = Tail(w)[j]
      BY <1>0, <1>1, <3>1, ConcatProperties
    <3>4. p[i + 1] = w[j + 1]
      BY <1>0, <1>1, <3>1, ConcatProperties
    <3> QED
      BY <3>2, <3>3, <3>4
  <2> QED
    BY <2>1
<1>4. p[l + 1] = Head(w) /\ l + 1 \in DOMAIN p
  BY <1>0, <1>1, <1>2
<1>5. \A i, j \in 1..l + m + 1 : i < j => p[i] < p[j]
  BY <1>2 DEF Rising
<1>6. \A i \in 1..l + m + 1 : p[i] \in Nat
  BY <1>0, <1>1, <1>2, ConcatProperties, ElementOfSeq
<1> HIDE DEF p, q
<1> DEFINE over(i) == IF i <= l THEN i ELSE i + 1
<1>7. \A i \in 1..l + m : q[i] = p[over(i)] /\ over(i) \in 1..l + m + 1 /\ over(i) # l + 1
  BY <1>2, <1>3
<1>8. Rising(q)
  <2>1. \A i, j \in 1..l + m : i < j => over(i) < over(j)
    OBVIOUS
  <2> HIDE DEF over
  <2> QED
    BY <1>2, <1>5, <1>7, <2>1 DEF Rising
<1>9. ToSet(q) = ToSet(p) \ {Head(w)}
  <2>1. \A j \in 1..l + m + 1 : j # l + 1 => p[j] # p[l + 1]
    BY <1>5, <1>6
  <2>2. \A j \in 1..l + m + 1 : j # l + 1 => \E i \in 1..l + m : over(i) = j
    <3>1. ASSUME NEW j \in 1..l + m + 1, j # l + 1 PROVE \E i \in 1..l + m : over(i) = j
      <4>1. CASE j <= l
        BY <3>1, <4>1
      <4>2. CASE j > l
        <5>1. j - 1 \in 1..l + m /\ over(j - 1) = j
          BY <3>1, <4>2
        <5> QED
          BY <5>1
      <4> QED
        BY <3>1, <4>1, <4>2
    <3> QED
      BY <3>1
  <2> HIDE DEF over
  <2>3. \A x \in ToSet(q) : x \in ToSet(p) /\ x # p[l + 1]
    BY <1>2, <1>7, <2>1 DEF ToSet
  <2>4. \A x \in ToSet(p) : x # p[l + 1] => x \in ToSet(q)
    <3>1. ASSUME NEW j \in 1..l + m + 1, j # l + 1 PROVE p[j] \in ToSet(q)
      <4>1. PICK i \in 1..l + m : over(i) = j
        BY <2>2, <3>1
      <4>2. q[i] = p[j] /\ i \in DOMAIN q
        BY <1>2, <1>7, <4>1
      <4> QED
        BY <4>2 DEF ToSet
    <3> QED
      BY <1>2, <3>1 DEF ToSet
  <2> QED
    BY <1>4, <2>3, <2>4
<1>10. Head(w) \in ToSet(p)
  BY <1>4 DEF ToSet
<1> QED
  BY <1>8, <1>9, <1>10 DEF p, q

\* Rising numbers stay so when the next one is added.
LEMMA Added ==
  ASSUME NEW a \in Numbers, NEW n \in Nat, Rising(a), \A x \in ToSet(a) : x <= n
  PROVE  /\ Rising(Append(a, n + 1)) /\ Append(a, n + 1) \in Numbers
         /\ ToSet(Append(a, n + 1)) = ToSet(a) \cup {n + 1}
<1>0. a \in Seq(Nat)
  BY DEF Numbers
<1>1. PICK l \in Nat : l = Len(a)
  BY <1>0
<1> DEFINE q == Append(a, n + 1)
<1>2. q \in Seq(Nat) /\ DOMAIN a = 1..l /\ DOMAIN q = 1..l + 1 /\ q[l + 1] = n + 1 /\ \A i \in 1..l : q[i] = a[i]
  BY <1>0, <1>1
<1>3. \A i \in 1..l : a[i] \in Nat /\ a[i] <= n
  BY <1>0, <1>1, <1>2, ElementOfSeq DEF ToSet
<1> HIDE DEF q
<1>4. Rising(q)
  BY <1>2, <1>3 DEF Rising
<1>5. ToSet(q) = ToSet(a) \cup {n + 1}
  <2>1. \A x \in ToSet(q) : x \in ToSet(a) \cup {n + 1}
    BY <1>2 DEF ToSet
  <2>2. \A x \in ToSet(a) \cup {n + 1} : x \in ToSet(q)
    <3>1. \A i \in 1..l : i \in 1..l + 1
      OBVIOUS
    <3>2. l + 1 \in 1..l + 1
      OBVIOUS
    <3> QED
      BY <1>2, <3>1, <3>2 DEF ToSet
  <2> QED
    BY <2>1, <2>2
<1> QED
  BY <1>2, <1>4, <1>5 DEF q, Numbers

\* What the terminal's module takes from TerminalScreen is what is proved about here.
LEMMA SameScreen ==
  /\ Term!Printable = Printable
  /\ \A s : Term!TogglePager(s) = TogglePager(s)
  /\ \A s : Term!PagerContinue(s) = PagerContinue(s)
  /\ \A s : Term!StopBars(s) = StopBars(s)
  /\ \A s, fits : Term!Refresh(s, fits) = Refresh(s, fits)
  /\ \A s, fits : Term!ResumeBars(s, fits) = ResumeBars(s, fits)
  /\ \A s, items, fits, keeps : Term!DeviceOutput(s, items, fits, keeps) = DeviceOutput(s, items, fits, keeps)
  /\ Term!SendCtrlC <=> SendCtrlC
<1>1. Term!Printable = Printable
  BY DEF Term!Printable, Printable, Term!Fullscreen, Fullscreen
<1>2. \A s, items : Term!Write(s, items) = Write(s, items)
  BY DEF Term!Write, Write, Term!Ids, Ids
<1>3. \A items, room : Term!PageEnd(items, room) = PageEnd(items, room) /\ Term!Lines(items) = Lines(items)
  BY Zenon DEF Term!PageEnd, PageEnd, Term!Lines, Lines, Term!Cardinality, Cardinality, Term!IsFiniteSet, IsFiniteSet
<1>4. \A s : Term!PagerOff(s) = PagerOff(s)
  BY <1>2 DEF Term!PagerOff, PagerOff
<1>5. \A s : Term!Flush(s) = Flush(s)
  <2>1. ASSUME NEW s PROVE Term!Flush(s) = Flush(s)
    <3>1. PICK room : room = IF Page > s.lines THEN Page - s.lines ELSE 1
      OBVIOUS
    <3>2. PICK end : end = PageEnd(s.pending, room) /\ end = Term!PageEnd(s.pending, room)
      BY <1>3
    <3>3. PICK i : i = CHOOSE j \in end : TRUE
      OBVIOUS
    <3>4. PICK all, first, behind :
            /\ all = Write(s, s.pending) /\ all = Term!Write(s, s.pending)
            /\ first = SubSeq(s.pending, 1, i) /\ behind = SubSeq(s.pending, i + 1, Len(s.pending))
      BY <1>2
    <3>5. PICK page, n :
            /\ page = Write(s, first) /\ page = Term!Write(s, first)
            /\ n = Lines(s.pending) /\ n = Term!Lines(s.pending)
      BY <1>2, <1>3
    <3> DEFINE flushed == IF ~s.pager \/ s.waiting \/ s.pending = <<>> THEN s
                          ELSE IF end = {} THEN [all EXCEPT !.pending = <<>>, !.lines = @ + n]
                          ELSE [page EXCEPT !.pending = behind, !.lines = @ + room, !.waiting = TRUE]
    <3>6. Flush(s) = flushed
      BY <3>1, <3>2, <3>3, <3>4, <3>5 DEF Flush
    <3>7. Term!Flush(s) = flushed
      BY <3>1, <3>2, <3>3, <3>4, <3>5 DEF Term!Flush
    <3> QED
      BY <3>6, <3>7
  <2> QED
    BY <2>1
<1>6. \A s : Term!TogglePager(s) = TogglePager(s)
  BY <1>4 DEF Term!TogglePager, TogglePager
<1>7. \A s : Term!PagerContinue(s) = PagerContinue(s)
  BY <1>5 DEF Term!PagerContinue, PagerContinue
<1>8. \A s : Term!StopBars(s) = StopBars(s)
  BY DEF Term!StopBars, StopBars
<1>9. \A s, fits : Term!Refresh(s, fits) = Refresh(s, fits) /\ Term!StartBars(s, fits) = StartBars(s, fits)
  BY DEF Term!Refresh, Refresh, Term!StartBars, StartBars
<1>10. \A s, fits : Term!ResumeBars(s, fits) = ResumeBars(s, fits)
  BY <1>9 DEF Term!ResumeBars, ResumeBars
<1>11. \A s, act, fits : Term!Apply(s, act, fits) = Apply(s, act, fits)
  BY <1>9 DEF Term!Apply, Apply
<1>12. \A idle, items : Term!TrackDeviceLine(idle, items) = TrackDeviceLine(idle, items)
  BY DEF Term!TrackDeviceLine, TrackDeviceLine
<1>13. \A s, items, keeps : Term!Output(s, items, keeps) = Output(s, items, keeps)
  <2>1. ASSUME NEW s, NEW items, NEW keeps PROVE Term!Output(s, items, keeps) = Output(s, items, keeps)
    <3> DEFINE full == s.probe \/ \E i \in DOMAIN items : items[i].is \in Fullscreen
               last == items # <<>> /\ Last(items).is \in Fullscreen
               free == IF s.pager /\ full THEN [PagerOff(s) EXCEPT !.lines = 0] ELSE s
               seen == [free EXCEPT !.probe = full /\ (last \/ keeps), !.idle = TrackDeviceLine(@, items)]
               held == [seen EXCEPT !.pending = @ \o items]
               full2 == s.probe \/ \E i \in DOMAIN items : items[i].is \in Term!Fullscreen
               last2 == items # <<>> /\ Term!Last(items).is \in Term!Fullscreen
               free2 == IF s.pager /\ full2 THEN [Term!PagerOff(s) EXCEPT !.lines = 0] ELSE s
               seen2 == [free2 EXCEPT !.probe = full2 /\ (last2 \/ keeps), !.idle = Term!TrackDeviceLine(@, items)]
               held2 == [seen2 EXCEPT !.pending = @ \o items]
    <3>1. Output(s, items, keeps) = IF ~seen.pager THEN Write(seen, items)
            ELSE IF Len(held.pending) > BufferMax THEN PagerOff(held) ELSE Flush(held)
      BY DEF Output
    <3>2. Term!Output(s, items, keeps) = IF ~seen2.pager THEN Term!Write(seen2, items)
            ELSE IF Len(held2.pending) > BufferMax THEN Term!PagerOff(held2) ELSE Term!Flush(held2)
      BY DEF Term!Output
    <3>3. full2 = full /\ last2 = last
      BY DEF Term!Fullscreen, Fullscreen, Term!Last, Last
    <3> HIDE DEF full, last, full2, last2
    <3>4. free2 = free
      BY <1>4, <3>3
    <3> HIDE DEF free, free2
    <3>5. seen2 = seen
      BY <1>12, <3>3, <3>4
    <3> HIDE DEF seen, seen2
    <3>6. held2 = held
      BY <3>5
    <3> HIDE DEF held, held2
    <3> QED
      BY <1>2, <1>4, <1>5, <3>1, <3>2, <3>5, <3>6
  <2> QED
    BY <2>1
<1>14. \A p, act, next : Term!Cut(p, act, next) = Cut(p, act, next)
  BY DEF Term!Cut, Cut
<1>15. \A p, it : Term!Parse(p, it) = Parse(p, it)
  BY <1>14 DEF Term!Parse, Parse
<1>16. \A s, items : Term!Feed(s, items) = Feed(s, items)
  BY <1>14, <1>15 DEF Term!Feed, Feed
<1>17. \A s, items, fits, keeps : Term!DeviceOutput(s, items, fits, keeps) = DeviceOutput(s, items, fits, keeps)
  <2>1. ASSUME NEW s, NEW items, NEW fits, NEW keeps
        PROVE  Term!DeviceOutput(s, items, fits, keeps) = DeviceOutput(s, items, fits, keeps)
    <3> DEFINE p == Feed(s, items)
               base == [Refresh(s, fits) EXCEPT !.mode = p.mode, !.hidden = p.hidden]
               Eq(f) == f = [i \in 0..Len(p.pieces) |-> IF i = 0 THEN base
                               ELSE Apply(Output(f[i - 1], p.pieces[i].data, keeps), p.pieces[i].act, fits)]
               p2 == Term!Feed(s, items)
               base2 == [Term!Refresh(s, fits) EXCEPT !.mode = p2.mode, !.hidden = p2.hidden]
               Eq2(f) == f = [i \in 0..Len(p2.pieces) |-> IF i = 0 THEN base2
                               ELSE Term!Apply(Term!Output(f[i - 1], p2.pieces[i].data, keeps), p2.pieces[i].act, fits)]
               F == CHOOSE f : Eq(f)
               F2 == CHOOSE f : Eq2(f)
    <3>1. DeviceOutput(s, items, fits, keeps) = IF s.bars = "none" THEN Output(s, items, keeps) ELSE F[Len(p.pieces)]
      BY Zenon DEF DeviceOutput
    <3>2. Term!DeviceOutput(s, items, fits, keeps)
          = IF s.bars = "none" THEN Term!Output(s, items, keeps) ELSE F2[Len(p2.pieces)]
      BY Zenon DEF Term!DeviceOutput
    <3>3. p2 = p
      BY <1>16
    <3> HIDE DEF p, p2
    <3>4. base2 = base
      BY <1>9, <3>3
    <3> HIDE DEF base, base2
    <3>5. \A f : Eq(f) <=> Eq2(f)
      BY <1>11, <1>13, <3>3, <3>4
    <3> HIDE DEF Eq, Eq2
    <3>6. F2 = F
      BY <3>5, Zenon
    <3> HIDE DEF F, F2
    <3> QED
      BY <1>13, <3>1, <3>2, <3>3, <3>6
  <2> QED
    BY <2>1
<1>18. Term!SendCtrlC <=> SendCtrlC
  BY DEF Term!SendCtrlC, SendCtrlC
<1> QED
  BY <1>1, <1>6, <1>7, <1>8, <1>9, <1>10, <1>17, <1>18

\* What screen and pager keep is a sequence of numbers.
LEMMA KeptTyped ==
  ASSUME NEW s \in Screens
  PROVE  Kept(s) \in Numbers
<1>1. s.shown \in Seq(Nat) /\ s.pending \in Seq(Item)
  BY DEF Screens, Numbers, Items
<1>2. PICK a \in Seq(Nat), b \in Seq(Nat) : a = s.shown /\ b = Ids(s.pending)
  BY <1>1, Numbered
<1> QED
  BY <1>2 DEF Kept, Numbers

\* Sequences of numbers are put together to sequences of numbers.
LEMMA Chained ==
  ASSUME NEW a \in Numbers, NEW b \in Numbers, NEW c \in Numbers
  PROVE  a \o b \in Numbers /\ (a \o b) \o c = a \o (b \o c) /\ a \o <<>> = a
<1>1. a \in Seq(Nat) /\ b \in Seq(Nat) /\ c \in Seq(Nat)
  BY DEF Numbers
<1>2. a \o b \in Seq(Nat)
  BY <1>1
<1>3. (a \o b) \o c = a \o (b \o c)
  BY <1>1, Regrouped
<1>4. a \o <<>> = a
  BY <1>1, ConcatEmptySeq
<1> QED
  BY <1>2, <1>3, <1>4 DEF Numbers

\* An element added to the second of two sequences is added to both.
LEMMA Appended ==
  ASSUME NEW a \in Numbers, NEW b \in Numbers, NEW n \in Nat
  PROVE  a \o Append(b, n) = Append(a \o b, n)
<1>1. a \in Seq(Nat) /\ b \in Seq(Nat) /\ a \o b \in Seq(Nat)
  BY DEF Numbers
<1>2. <<n>> \in Seq(Nat) /\ Append(b, n) = b \o <<n>> /\ Append(a \o b, n) = (a \o b) \o <<n>>
  <2>1. Append(b, n) = b \o <<n>>
    BY <1>1, AppendIsConcat
  <2>2. Append(a \o b, n) = (a \o b) \o <<n>>
    BY <1>1, AppendIsConcat
  <2> QED
    BY <2>1, <2>2
<1>3. (a \o b) \o <<n>> = a \o (b \o <<n>>)
  BY <1>1, <1>2, Regrouped
<1> QED
  BY <1>2, <1>3

\* The pager's keys and the bars leave the stream as it is and the screen to whom it belongs.
LEMMA ScreenMoved ==
  ASSUME TextInv, CountInv, Owned(scr), Lying, ScreenMoves
  PROVE  TextInv' /\ CountInv' /\ Owned(scr)'
<1>1. scr \in Screens /\ Settled(scr)
  BY DEF TextInv
<1>2. scr' \in Screens /\ Settled(scr') /\ Kept(scr') = Kept(scr) /\ Owned(scr')
  <2>1. CASE UNCHANGED scr
    BY <1>1, <2>1
  <2>2. CASE scr' = TogglePager(scr)
    BY <1>1, <2>2, Toggled DEF SameBars, Owned
  <2>3. CASE scr' = PagerContinue(scr)
    BY <1>1, <2>3, Continued DEF SameBars, Owned
  <2>4. ASSUME NEW fits \in BOOLEAN, scr' \in {Refresh(scr, fits), ResumeBars(scr, fits), StopBars(scr)}
        PROVE  scr' \in Screens /\ Settled(scr') /\ Kept(scr') = Kept(scr) /\ Owned(scr')
    <3>1. PICK t \in Screens : t = scr' /\ SameText(scr, t) /\ (Owned(scr) => Owned(t))
      BY <1>1, <2>4, BarsMoved
    <3> QED
      BY <1>1, <3>1, TextStays
  <2>5. TRUE \in BOOLEAN
    OBVIOUS
  <2> QED
    BY <2>1, <2>2, <2>3, <2>4, <2>5 DEF ScreenMoves
<1>3. Stream(scr', got', wire') = Stream(scr, got, wire)
  BY <1>2 DEF Stream, Lying
<1>4. Lying
  OBVIOUS
<1> QED
  BY <1>2, <1>3, <1>4 DEF TextInv, CountInv, Lying

\* The device prints, or the reader takes what lies on the line, or prints it.
LEMMA LinePrinted ==
  ASSUME TermInv, Term!DevicePrints
  PROVE  TextInv' /\ CountInv'
<1>1. /\ scr' = scr /\ got' = got /\ taken' = taken /\ printed' = printed + 1
      /\ wire' = Append(wire, printed + 1)
  BY DEF Term!DevicePrints, Term!reading, Term!keyboard
<1>2. scr \in Screens /\ Settled(scr) /\ got \in Numbers /\ wire \in Numbers /\ printed \in Nat /\ taken \subseteq 1..printed
  BY DEF TermInv, TextInv, CountInv
<1>3. PICK a \in Numbers : a = Stream(scr, got, wire)
  <2>1. Kept(scr) \in Numbers
    BY <1>2, KeptTyped
  <2>2. Kept(scr) \o got \in Numbers
    BY <1>2, <2>1, Chained
  <2> QED
    BY <1>2, <2>2, Chained DEF Stream
<1>4. Rising(a) /\ ToSet(a) = (1..printed) \ taken
  BY <1>3 DEF TermInv, TextInv, CountInv
<1>5. Stream(scr', got', wire') = Append(a, printed + 1)
  <2>1. PICK b \in Numbers : b = Kept(scr) \o got
    BY <1>2, KeptTyped, Chained
  <2>2. PICK n \in Nat : n = printed + 1
    BY <1>2
  <2>3. b \o Append(wire, n) = Append(b \o wire, n)
    BY <1>2, <2>1, <2>2, Appended
  <2> QED
    BY <1>1, <1>3, <2>1, <2>2, <2>3 DEF Stream
<1>6. /\ Rising(Append(a, printed + 1)) /\ wire' \in Numbers
      /\ ToSet(Append(a, printed + 1)) = ToSet(a) \cup {printed + 1}
  <2>1. \A x \in ToSet(a) : x <= printed
    BY <1>2, <1>4
  <2>2. wire' \in Numbers
    BY <1>1, <1>2 DEF Numbers
  <2> QED
    BY <1>2, <1>4, <2>1, <2>2, Added
<1>7. (1..printed') \ taken' = ((1..printed) \ taken) \cup {printed + 1} /\ printed' \in Nat /\ taken' \subseteq 1..printed'
  BY <1>1, <1>2
<1> QED
  BY <1>1, <1>2, <1>4, <1>5, <1>6, <1>7 DEF TextInv, CountInv

\* A read moves numbers from the line to the reader.
LEMMA LineRead ==
  ASSUME TermInv, Term!Read
  PROVE  TextInv' /\ CountInv'
<1>1. PICK n \in DOMAIN wire : got' = SubSeq(wire, 1, n) /\ wire' = SubSeq(wire, n + 1, Len(wire))
  BY DEF Term!Read
<1>2. scr' = scr /\ printed' = printed /\ taken' = taken /\ got = <<>>
  BY DEF Term!Read, Term!keyboard, TermInv, ReaderInv
<1>3. scr \in Screens /\ Settled(scr) /\ wire \in Seq(Nat) /\ Kept(scr) \in Seq(Nat)
  <2>1. scr \in Screens /\ Settled(scr) /\ wire \in Seq(Nat)
    BY DEF TermInv, TextInv, Numbers
  <2> QED
    BY <2>1, KeptTyped DEF Numbers
<1>4. got' \in Seq(Nat) /\ wire' \in Seq(Nat) /\ got' \o wire' = wire
  <2>1. PICK l \in Nat : l = Len(wire)
    BY <1>3
  <2>2. n \in 0..Len(wire) /\ 1 \in 1..Len(wire) + 1 /\ n \in 1 - 1..Len(wire) /\ Len(wire) \in n..Len(wire)
    BY <1>1, <1>3
  <2>3. SubSeq(wire, 1, n) \o SubSeq(wire, n + 1, Len(wire)) = SubSeq(wire, 1, Len(wire))
    BY <1>3, <2>2, ConcatAdjacentSubSeq
  <2>4. \A i \in 1..Len(wire) : wire[i] \in Nat
    BY <1>3, ElementOfSeq
  <2>5. got' \in Seq(Nat)
    BY <1>1, <2>2, <2>4, SubSeqProperties
  <2>6. wire' \in Seq(Nat)
    BY <1>1, <2>2, <2>4, SubSeqProperties
  <2> QED
    BY <1>1, <1>3, <2>3, <2>5, <2>6, SubSeqFull
<1>5. Stream(scr', got', wire') = Stream(scr, got, wire)
  <2>1. (Kept(scr) \o got') \o wire' = Kept(scr) \o (got' \o wire')
    BY <1>3, <1>4, Regrouped
  <2>2. Kept(scr) \o <<>> = Kept(scr)
    BY <1>3, Chained DEF Numbers
  <2> QED
    BY <1>2, <1>4, <2>1, <2>2 DEF Stream
<1>6. Rising(Stream(scr, got, wire)) /\ CountInv
  BY DEF TermInv, TextInv
<1> QED
  BY <1>2, <1>3, <1>4, <1>5, <1>6 DEF TextInv, CountInv, Numbers

\* A printed chunk moves from the reader behind what was kept (Delivered).
LEMMA ChunkPrinted ==
  ASSUME TermInv, Term!PrintChunk
  PROVE  TextInv' /\ CountInv' /\ Owned(scr)'
<1>1. PICK is \in [DOMAIN got -> Printable], fits \in BOOLEAN, keeps \in BOOLEAN :
        scr' = DeviceOutput(scr, [i \in DOMAIN got |-> [id |-> got[i], is |-> is[i]]], fits, keeps)
  <2>1. PICK is \in [DOMAIN got -> Term!Printable], fits \in IF scr.bars = "on" THEN BOOLEAN ELSE {TRUE},
             keeps \in BOOLEAN :
          scr' = Term!DeviceOutput(scr, [i \in DOMAIN got |-> [id |-> got[i], is |-> is[i]]], fits, keeps)
    BY DEF Term!PrintChunk
  <2>2. fits \in BOOLEAN
    OBVIOUS
  <2> QED
    BY <2>1, <2>2, SameScreen
<1>2. got' = <<>> /\ wire' = wire /\ printed' = printed /\ taken' = taken
  BY DEF Term!PrintChunk, Term!device, Term!keyboard
<1>3. scr \in Screens /\ Settled(scr) /\ got \in Seq(Nat) /\ wire \in Seq(Nat) /\ Kept(scr) \in Seq(Nat) /\ Owned(scr)
  <2>1. scr \in Screens /\ Settled(scr) /\ got \in Seq(Nat) /\ wire \in Seq(Nat) /\ Owned(scr)
    BY DEF TermInv, TextInv, Numbers
  <2> QED
    BY <2>1, KeptTyped DEF Numbers
<1>4. PICK items \in Items : items = [i \in DOMAIN got |-> [id |-> got[i], is |-> is[i]]] /\ Ids(items) = got
  <2> DEFINE xs == [i \in DOMAIN got |-> [id |-> got[i], is |-> is[i]]]
  <2>1. \A i \in DOMAIN got : got[i] \in Nat
    BY <1>3, ElementOfSeq
  <2>2. \A i \in DOMAIN got : xs[i] \in Item /\ xs[i].id = got[i]
    BY <2>1 DEF Item
  <2>3. xs \in Seq(Item)
    <3>1. PICK l \in Nat : l = Len(got) /\ DOMAIN got = 1..l
      BY <1>3
    <3>2. \A i \in 1..l : xs[i] \in Item
      BY <2>2, <3>1
    <3>3. xs = [i \in 1..l |-> xs[i]]
      BY <3>1
    <3> HIDE DEF xs
    <3> QED
      BY <3>2, <3>3, IsASeq
  <2>4. DOMAIN xs = DOMAIN got
    OBVIOUS
  <2> HIDE DEF xs
  <2>5. Ids(xs) = got
    <3>1. got = [i \in DOMAIN got |-> got[i]]
      BY <1>3
    <3> QED
      BY <2>2, <2>4, <3>1 DEF Ids
  <2> QED
    BY <2>3, <2>5 DEF Items, xs
<1>5. /\ scr' \in Screens /\ Settled(scr') /\ Kept(scr') = Kept(scr) \o got /\ Owned(scr')
  BY <1>1, <1>3, <1>4, Delivered
<1>6. Stream(scr', got', wire') = Stream(scr, got, wire)
  <2>1. Kept(scr) \o got \in Seq(Nat)
    BY <1>3, ConcatProperties
  <2>2. (Kept(scr) \o got) \o <<>> = Kept(scr) \o got
    BY <2>1, ConcatEmptySeq
  <2> QED
    BY <1>2, <1>5, <2>2 DEF Stream
<1>7. Rising(Stream(scr, got, wire)) /\ CountInv /\ <<>> \in Seq(Nat)
  BY DEF TermInv, TextInv
<1> QED
  BY <1>2, <1>3, <1>5, <1>6, <1>7 DEF TextInv, CountInv, Numbers

\* A transfer takes the first number of the line out of the stream.
LEMMA TransferTook ==
  ASSUME TermInv, Term!TransferReads
  PROVE  TextInv' /\ CountInv'
<1>1. /\ scr' = scr /\ got' = got /\ printed' = printed /\ wire # <<>> /\ wire' = Tail(wire)
      /\ taken' = taken \cup {Head(wire)}
  BY DEF Term!TransferReads, Term!reading
<1>2. scr \in Screens /\ Settled(scr) /\ got \in Numbers /\ wire \in Numbers /\ printed \in Nat /\ taken \subseteq 1..printed
  BY DEF TermInv, TextInv, CountInv
<1>3. PICK a \in Numbers : a = Kept(scr) \o got
  <2>1. Kept(scr) \in Numbers
    BY <1>2, KeptTyped
  <2> QED
    BY <1>2, <2>1, Chained
<1>4. Rising(a \o wire) /\ ToSet(a \o wire) = (1..printed) \ taken
  BY <1>3 DEF TermInv, TextInv, CountInv, Stream
<1>5. /\ Rising(a \o wire') /\ Head(wire) \in (1..printed) \ taken
      /\ ToSet(a \o wire') = ((1..printed) \ taken) \ {Head(wire)}
  BY <1>1, <1>2, <1>4, Dropped
<1>6. Stream(scr', got', wire') = a \o wire' /\ wire' \in Numbers
  BY <1>1, <1>2, <1>3 DEF Stream, Numbers
<1> QED
  BY <1>1, <1>2, <1>5, <1>6 DEF TextInv, CountInv

-----------------------------------------------------------------------------
\* The keyboard.
LEMMA FirstFound ==
  ASSUME NEW ks \in Seq(Term!Keys), NEW set
  PROVE  LET i == Term!FirstOf(ks, set) IN i = 0 \/ (i \in 1..Len(ks) /\ ks[i] \in set)
<1> DEFINE at == {i \in DOMAIN ks : ks[i] \in set}
<1>1. at \subseteq Nat
  OBVIOUS
<1>2. CASE at = {}
  BY <1>2 DEF Term!FirstOf
<1>3. CASE at # {}
  <2>1. \E i \in at : \A j \in at : i <= j
    BY <1>1, <1>3, Least
  <2> DEFINE i == CHOOSE i \in at : \A j \in at : i <= j
  <2>2. i \in at
    BY <2>1
  <2>3. Term!FirstOf(ks, set) = i
    BY <1>3 DEF Term!FirstOf
  <2> QED
    BY <2>2, <2>3
<1> QED
  BY <1>2, <1>3

\* A part of the keys is keys.
LEMMA Cutting ==
  ASSUME NEW ks \in Seq(Term!Keys), NEW i \in Nat, NEW j \in Nat, i >= 1, j <= Len(ks)
  PROVE  SubSeq(ks, i, j) \in Seq(Term!Keys) /\ (i <= j => SubSeq(ks, i, j) # <<>>)
<1>1. \A k \in i..j : ks[k] \in Term!Keys
  BY ElementOfSeq
<1>2. SubSeq(ks, i, j) \in Seq(Term!Keys) /\ Len(SubSeq(ks, i, j)) = IF i <= j THEN j - i + 1 ELSE 0
  BY <1>1, SubSeqProperties
<1>3. i <= j => j - i + 1 # 0
  OBVIOUS
<1> QED
  BY <1>2, <1>3, EmptySeq

\* A chunk of keys is cut before its first F-key.
LEMMA Begun ==
  ASSUME NEW ks \in Seq(Term!Keys), Term!Begin(ks)
  PROVE  part' \in Seq(Term!Keys) /\ rest' \in Seq(Term!Keys) /\ key' # "open"
<1>1. PICK i : i = (IF Term!FKeysLocal THEN Term!FirstOf(ks, Term!FKeys) ELSE 0)
  OBVIOUS
<1>2. i = 0 \/ i \in 1..Len(ks)
  BY <1>1, FirstFound
<1>3. /\ key' # "open"
      /\ part' = IF i = 0 THEN ks ELSE SubSeq(ks, 1, i - 1)
      /\ rest' = IF i = 0 THEN <<>> ELSE SubSeq(ks, i, Len(ks))
  BY <1>1 DEF Term!Begin
<1>4. CASE i = 0
  BY <1>3, <1>4
<1>5. CASE i \in 1..Len(ks)
  <2>1. i \in Nat /\ i - 1 \in Nat /\ Len(ks) \in Nat /\ i >= 1 /\ i - 1 <= Len(ks) /\ i # 0
    BY <1>5
  <2>2. SubSeq(ks, 1, i - 1) \in Seq(Term!Keys) /\ SubSeq(ks, i, Len(ks)) \in Seq(Term!Keys)
    BY <2>1, Cutting
  <2> QED
    BY <1>3, <2>1, <2>2
<1> QED
  BY <1>2, <1>4, <1>5

\* A Ctrl-C at the idle prompt uses up the warning that asked about it (sendCtrlC).
LEMMA Asked ==
  ASSUME AskInv, SendCtrlC \/ Asking \/ Term!WarningExpires
  PROVE  AskInv'
<1> USE DEF AskInv
<1>1. CASE SendCtrlC
  <2>1. PICK idle \in BOOLEAN : idle = (as = "network" /\ scr.idle)
    OBVIOUS
  <2>2. IF idle /\ ~warned THEN warned' = TRUE /\ warnings' = warnings + 1 /\ idleSent' = idleSent
        ELSE warned' = FALSE /\ warnings' = warnings /\ idleSent' = IF idle THEN idleSent + 1 ELSE idleSent
    BY <1>1, <2>1 DEF SendCtrlC
  <2>3. CASE idle /\ ~warned
    BY <2>2, <2>3
  <2>4. CASE ~(idle /\ ~warned)
    <3>1. warned' = FALSE /\ warnings' = warnings /\ idleSent' = IF idle THEN idleSent + 1 ELSE idleSent
      BY <2>2, <2>4
    <3>2. warned' \in BOOLEAN /\ ~warned'
      BY <3>1
    <3>3. idleSent' \in Nat /\ warnings' \in Nat /\ idleSent' <= warnings'
      BY <2>4, <3>1
    <3> QED
      BY <3>2, <3>3
  <2> QED
    BY <2>3, <2>4
<1>2. CASE Asking
  BY <1>2 DEF Asking
<1>3. CASE Term!WarningExpires
  <2>1. warned /\ warned' = FALSE /\ warnings' = warnings /\ idleSent' = idleSent
    BY <1>3 DEF Term!WarningExpires
  <2> QED
    BY <2>1
<1> QED
  BY <1>1, <1>2, <1>3

\* A chunk of keys; the numbers of keys are small, whatever the operator does.
LEMMA Chunked ==
  ASSUME NEW ks \in Term!Chunks
  PROVE  ks \in Seq(Term!Keys)
BY DEF Term!Chunks, Term!Keys, Term!FKeys

\* The keyboard's goroutine goes on behind the menu with keys.
LEMMA Returned ==
  ASSUME KeysInv, Term!Return
  PROVE  KeysInv'
<1>1. CASE after = "rest"
  <2>1. Term!Begin(rest) /\ after' = "loop" /\ rest \in Seq(Term!Keys)
    BY <1>1 DEF Term!Return, KeysInv
  <2> QED
    BY <2>1, Begun DEF KeysInv
<1>2. CASE after # "rest"
  BY <1>2 DEF Term!Return, KeysInv
<1> QED
  BY <1>1, <1>2

\* What the keyboard's goroutine does, step by step: the line and the reader's chunk stay,
\* the screen moves in one of the ways of ScreenMoves.
LEMMA KeyboardStep ==
  ASSUME TermInv,
         Term!KeyboardLoop \/ Term!Operator \/ Term!WarningExpires \/ Term!LineDies \/ Term!ReadFails
  PROVE  Lying /\ ScreenMoves /\ KeysInv' /\ AskInv' /\ ReaderInv'
<1> DEFINE Goal == Lying /\ ScreenMoves /\ KeysInv' /\ AskInv' /\ ReaderInv'
           Quiet == Lying /\ ScreenMoves /\ UNCHANGED reader
<1>0. KeysInv /\ AskInv /\ ReaderInv /\ part \in Seq(Term!Keys) /\ rest \in Seq(Term!Keys)
  BY DEF TermInv, KeysInv
<1> USE DEF Term!device, Term!reading
<1>1. ASSUME Quiet, KeysInv', SendCtrlC \/ Asking \/ Term!WarningExpires PROVE Goal
  BY <1>0, <1>1, Asked DEF ReaderInv, Lying
<1>2. ASSUME UNCHANGED <<after, part, rest>>, key' = key \/ key' # "open" PROVE KeysInv'
  BY <1>0, <1>2 DEF KeysInv
<1>3. CASE Term!Loop
  <2>1. Quiet /\ Asking /\ UNCHANGED <<after, part, rest>> /\ key' # "open"
    BY <1>3 DEF Term!Loop, Lying, ScreenMoves, Asking
  <2> QED
    BY <1>1, <1>2, <2>1
<1>4. CASE Term!EndPart
  <2>1. Quiet /\ Asking
    BY <1>4 DEF Term!EndPart, Lying, ScreenMoves, Asking
  <2>2. KeysInv'
    <3>1. CASE rest = <<>> \/ quit
      <4>1. key' = "loop" /\ part' = <<>> /\ rest' = <<>> /\ after' = after
        BY <1>4, <3>1 DEF Term!EndPart
      <4> QED
        BY <1>0, <4>1 DEF KeysInv
    <3>2. CASE ~(rest = <<>> \/ quit)
      <4>1. Tail(rest) \in Seq(Term!Keys)
        BY <1>0, <3>2
      <4> QED
        BY <1>0, <1>4, <3>2, <4>1 DEF Term!EndPart, KeysInv
    <3> QED
      BY <3>1, <3>2
  <2> QED
    BY <1>1, <2>1, <2>2
<1>5. CASE Term!LookAtPager
  <2>1. Quiet /\ Asking
    BY <1>5 DEF Term!LookAtPager, Lying, ScreenMoves, Asking
  <2>2. KeysInv'
    BY <1>0, <1>5 DEF Term!LookAtPager, KeysInv
  <2> QED
    BY <1>1, <2>1, <2>2
<1>6. CASE Term!KeyWhileHeld
  <2>1. PICK i : i = Term!FirstOf(part, {"enter", "^P", "^Q"})
    OBVIOUS
  <2>2. i = 0 \/ (i \in 1..Len(part) /\ part[i] \in {"enter", "^P", "^Q"})
    BY <1>0, <2>1, FirstFound
  <2>3. Lying /\ UNCHANGED reader /\ Asking /\ key' # "open" /\ UNCHANGED <<after, rest>>
    BY <1>6 DEF Term!KeyWhileHeld, Lying, Asking
  <2>4. CASE i = 0
    <3>1. part' = <<>> /\ UNCHANGED scr
      BY <1>6, <2>1, <2>4 DEF Term!KeyWhileHeld
    <3>2. KeysInv'
      BY <1>0, <2>3, <3>1 DEF KeysInv
    <3> QED
      BY <1>1, <2>3, <3>1, <3>2 DEF ScreenMoves
  <2>5. CASE i \in 1..Len(part) /\ part[i] \in {"enter", "^P", "^Q"}
    <3>0. i # 0
      BY <2>5
    <3>1. /\ part' = SubSeq(part, i + 1, Len(part))
          /\ CASE part[i] = "enter" -> scr' = Term!PagerContinue(scr) /\ UNCHANGED quit
               [] part[i] = "^P"    -> scr' = Term!TogglePager(scr) /\ UNCHANGED quit
               [] part[i] = "^Q"    -> Term!Quits
      BY <1>6, <2>1, <3>0 DEF Term!KeyWhileHeld
    <3>2. ScreenMoves
      BY <2>5, <3>1, SameScreen DEF ScreenMoves, Term!Quits
    <3>3. part' \in Seq(Term!Keys)
      <4>1. i + 1 \in Nat /\ Len(part) \in Nat /\ i + 1 >= 1 /\ Len(part) <= Len(part)
        BY <1>0, <2>5
      <4> QED
        BY <1>0, <3>1, <4>1, Cutting
    <3>4. KeysInv'
      BY <1>0, <2>3, <3>3 DEF KeysInv
    <3> QED
      BY <1>1, <2>3, <3>2, <3>4
  <2> QED
    BY <2>2, <2>4, <2>5
<1>7. CASE Term!RawKeys
  <2>1. Quiet /\ Asking /\ UNCHANGED <<after, rest>>
    BY <1>7 DEF Term!RawKeys, Lying, ScreenMoves, Asking
  <2>2. PICK own : own = {"^]", "^Q", "^P"} \cup (IF as = "network" THEN {"^C"} ELSE {})
    OBVIOUS
  <2>3. PICK i : i = Term!FirstOf(part, own)
    OBVIOUS
  <2>4. /\ part' = IF i = 0 THEN <<>> ELSE SubSeq(part, i, Len(part))
        /\ key' = "open" => i # 0
    BY <1>7, <2>2, <2>3 DEF Term!RawKeys
  <2>5. i = 0 \/ i \in 1..Len(part)
    BY <1>0, <2>3, FirstFound
  <2>6. i \in 1..Len(part) => SubSeq(part, i, Len(part)) \in Seq(Term!Keys) /\ SubSeq(part, i, Len(part)) # <<>>
    <3>1. ASSUME i \in 1..Len(part) PROVE i \in Nat /\ Len(part) \in Nat /\ i >= 1 /\ i <= Len(part) /\ Len(part) <= Len(part)
      BY <1>0, <3>1
    <3> QED
      BY <1>0, <3>1, Cutting
  <2>7. KeysInv'
    BY <1>0, <2>1, <2>4, <2>5, <2>6 DEF KeysInv
  <2> QED
    BY <1>1, <2>1, <2>7
<1>8. CASE Term!OwnKey
  <2>1. Lying /\ UNCHANGED reader /\ UNCHANGED <<after, rest>> /\ key = "open" /\ key' # "open" /\ part' = Tail(part)
    BY <1>8 DEF Term!OwnKey, Lying
  <2>2. part # <<>>
    BY <1>0, <2>1 DEF KeysInv
  <2>3. KeysInv'
    <3>1. Tail(part) \in Seq(Term!Keys)
      BY <1>0, <2>2
    <3> QED
      BY <1>0, <2>1, <3>1 DEF KeysInv
  <2>4. ScreenMoves /\ (SendCtrlC \/ Asking)
    BY <1>8, SameScreen DEF Term!OwnKey, Term!Quits, ScreenMoves, Asking
  <2> QED
    BY <1>1, <2>1, <2>3, <2>4
<1>9. CASE Term!RawMenu
  <2>1. Quiet /\ Asking /\ UNCHANGED rest /\ after' = "raw" /\ key' # "open" /\ part' = SubSeq(part, 3, Len(part))
    BY <1>9 DEF Term!RawMenu, Lying, ScreenMoves, Asking
  <2>2. SubSeq(part, 3, Len(part)) \in Seq(Term!Keys)
    <3>1. 3 \in Nat /\ Len(part) \in Nat /\ 3 >= 1 /\ Len(part) <= Len(part)
      BY <1>0
    <3> QED
      BY <1>0, <3>1, Cutting
  <2>3. KeysInv'
    BY <1>0, <2>1, <2>2 DEF KeysInv
  <2> QED
    BY <1>1, <2>1, <2>3
<1>10. CASE Term!LineKey
  <2>1. Lying /\ UNCHANGED <<reader, rest>> /\ part # <<>> /\ part' = Tail(part) /\ key = "line"
    BY <1>10 DEF Term!LineKey, Lying
  <2>2. Tail(part) \in Seq(Term!Keys)
    BY <1>0, <2>1
  <2>3. ScreenMoves /\ (SendCtrlC \/ Asking) /\ key' # "open" /\ after' \in {after, "line"}
    <3>1. CASE Head(part) = "^Q"
      BY <1>10, <2>1, <3>1 DEF Term!LineKey, Term!Quits, ScreenMoves, Asking
    <3>2. CASE Head(part) = "^P"
      BY <1>10, <2>1, <3>2, SameScreen DEF Term!LineKey, ScreenMoves, Asking
    <3>3. CASE Head(part) = "enter" /\ scr.waiting
      BY <1>10, <2>1, <3>3 DEF Term!LineKey, ScreenMoves, Asking
    <3>4. CASE ~(Head(part) = "^Q" \/ Head(part) = "^P" \/ (Head(part) = "enter" /\ scr.waiting))
      <4>1. Term!OnKey(Head(part))
        BY <1>10, <3>4 DEF Term!LineKey
      <4> QED
        BY <2>1, <4>1, SameScreen DEF Term!OnKey, ScreenMoves, Asking
    <3> QED
      BY <3>1, <3>2, <3>3, <3>4
  <2>4. KeysInv'
    BY <1>0, <2>1, <2>2, <2>3 DEF KeysInv
  <2> QED
    BY <1>1, <2>1, <2>3, <2>4
<1>11. CASE Term!LineContinue
  <2>1. Quiet /\ Asking /\ UNCHANGED <<after, part, rest>> /\ key' # "open"
    BY <1>11, SameScreen DEF Term!LineContinue, Lying, ScreenMoves, Asking
  <2> QED
    BY <1>1, <1>2, <2>1
<1>12. CASE Term!Menu
  <2>1. Quiet /\ Asking /\ UNCHANGED <<after, part, rest>> /\ key' # "open"
    BY <1>12, SameScreen DEF Term!Menu, Lying, ScreenMoves, Asking
  <2> QED
    BY <1>1, <1>2, <2>1
<1>13. CASE Term!Act
  <2>1. Lying /\ UNCHANGED reader /\ Asking
    BY <1>13 DEF Term!Act, Lying, Asking
  <2>2. ScreenMoves
    BY <1>13, SameScreen DEF Term!Act, ScreenMoves
  <2>3. KeysInv'
    <3>1. Term!Return \/ (UNCHANGED <<after, part, rest>> /\ key' # "open")
      BY <1>13 DEF Term!Act
    <3> QED
      BY <1>0, <1>2, <3>1, Returned
  <2> QED
    BY <1>1, <2>1, <2>2, <2>3
<1>14. CASE Term!TransferEnds
  <2>1. Quiet /\ Asking /\ Term!Return
    BY <1>14 DEF Term!TransferEnds, Lying, ScreenMoves, Asking
  <2> QED
    BY <1>0, <1>1, <2>1, Returned
<1>15. CASE Term!Stop
  <2>1. Quiet /\ Asking /\ UNCHANGED <<after, part, rest>> /\ key' # "open"
    BY <1>15, SameScreen DEF Term!Stop, Lying, ScreenMoves, Asking
  <2> QED
    BY <1>1, <1>2, <2>1
<1>16. CASE Term!Close
  <2>1. Quiet /\ Asking /\ UNCHANGED <<after, part, rest>> /\ key' # "open"
    BY <1>16 DEF Term!Close, Lying, ScreenMoves, Asking
  <2> QED
    BY <1>1, <1>2, <2>1
<1>17. CASE Term!Type
  <2>1. Quiet /\ Asking /\ after' = after
    BY <1>17 DEF Term!Type, Lying, ScreenMoves, Asking
  <2>2. PICK ks \in Term!Chunks : Term!Begin(ks)
    BY <1>17 DEF Term!Type
  <2>3. part' \in Seq(Term!Keys) /\ rest' \in Seq(Term!Keys) /\ key' # "open"
    BY <2>2, Chunked, Begun
  <2>4. KeysInv'
    BY <1>0, <2>1, <2>3 DEF KeysInv
  <2> QED
    BY <1>1, <2>1, <2>4
<1>18. CASE Term!MenuKey
  <2>1. Quiet /\ Asking /\ UNCHANGED <<after, part, rest>> /\ key' # "open"
    BY <1>18 DEF Term!MenuKey, Lying, ScreenMoves, Asking
  <2> QED
    BY <1>1, <1>2, <2>1
<1>19. CASE Term!WarningExpires
  <2>1. Quiet /\ UNCHANGED <<after, part, rest, key>>
    BY <1>19 DEF Term!WarningExpires, Lying, ScreenMoves
  <2> QED
    BY <1>1, <1>2, <1>19, <2>1
<1>20. CASE Term!LineDies
  <2>1. Quiet /\ Asking /\ UNCHANGED <<after, part, rest, key>>
    BY <1>20 DEF Term!LineDies, Lying, ScreenMoves, Asking, Term!keyboard
  <2> QED
    BY <1>1, <1>2, <2>1
<1>21. CASE Term!ReadFails
  <2>1. Lying /\ ScreenMoves /\ Asking /\ UNCHANGED <<after, part, rest, key>> /\ reader' = "gone"
    BY <1>21 DEF Term!ReadFails, Lying, ScreenMoves, Asking, Term!keyboard
  <2>2. KeysInv' /\ AskInv' /\ ReaderInv'
    BY <1>0, <1>2, <2>1, Asked DEF ReaderInv
  <2> QED
    BY <2>1, <2>2
<1> QED
  BY <1>3, <1>4, <1>5, <1>6, <1>7, <1>8, <1>9, <1>10, <1>11, <1>12, <1>13, <1>14, <1>15, <1>16, <1>17,
     <1>18, <1>19, <1>20, <1>21 DEF Term!KeyboardLoop, Term!Handle, Term!Operator

\* The invariant holds in the beginning.
LEMMA TerminalInitially ==
  ASSUME Term!Init
  PROVE  TermInv
<1>1. PICK b \in {"none", "on"} : scr = Term!Screen(b)
  BY DEF Term!Init
<1>2. <<>> \in Numbers /\ <<>> \in Items /\ Ids(<<>>) = <<>>
  <2>1. <<>> \in Seq(Item) /\ <<>> \in Seq(Nat)
    OBVIOUS
  <2> QED
    BY <2>1, Numbered DEF Numbers, Items
<1>3. scr \in Screens /\ scr.shown = <<>> /\ scr.pending = <<>> /\ ~scr.suspended /\ scr.mode = "none"
  BY <1>1, <1>2 DEF Term!Screen, Screens
<1>4. Kept(scr) = <<>>
  BY <1>2, <1>3, Chained DEF Kept
<1>5. /\ got = <<>> /\ wire = <<>> /\ printed = 0 /\ taken = {} /\ reader = "reading" /\ part = <<>> /\ rest = <<>>
      /\ after = "loop" /\ key = "loop" /\ warned = FALSE /\ warnings = 0 /\ idleSent = 0
  BY DEF Term!Init
<1>6. Stream(scr, got, wire) = <<>>
  BY <1>2, <1>4, <1>5, Chained DEF Stream
<1>7. TextInv /\ CountInv
  <2>1. Rising(<<>>) /\ ToSet(<<>>) = {} /\ (1..0) \ {} = {}
    BY DEF Rising, ToSet
  <2> QED
    BY <1>2, <1>3, <1>5, <1>6, <2>1 DEF TextInv, CountInv, Settled
<1>8. ReaderInv /\ KeysInv /\ AskInv /\ Owned(scr)
  <2>1. AskInv
    <3>1. warned \in BOOLEAN /\ ~warned
      BY <1>5
    <3> QED
      BY <1>5, <3>1 DEF AskInv
  <2>2. ReaderInv /\ KeysInv
    BY <1>5 DEF ReaderInv, KeysInv
  <2>3. Owned(scr)
    BY <1>3 DEF Owned
  <2> QED
    BY <2>1, <2>2, <2>3
<1> QED
  BY <1>7, <1>8 DEF TermInv

\* Every step keeps it: the keyboard's by ScreenMoved, the others each by their lemma.
LEMMA TerminalNext ==
  ASSUME TermInv, [Term!Next]_Term!vars
  PROVE  TermInv'
<1>0. TextInv /\ CountInv /\ Owned(scr) /\ ReaderInv /\ KeysInv /\ AskInv
  BY DEF TermInv
<1> USE DEF Term!device, Term!reading, Term!keyboard
<1>1. ASSUME Asking, UNCHANGED <<after, part, rest, key>> PROVE KeysInv' /\ AskInv'
  BY <1>0, <1>1, Asked DEF KeysInv
<1>2. CASE Term!KeyboardLoop \/ Term!Operator \/ Term!WarningExpires \/ Term!LineDies \/ Term!ReadFails
  BY <1>0, <1>2, KeyboardStep, ScreenMoved DEF TermInv
<1>3. CASE Term!DevicePrints
  <2>1. Asking /\ UNCHANGED <<after, part, rest, key, scr, got, reader>>
    BY <1>3 DEF Term!DevicePrints, Asking
  <2>2. Owned(scr)' /\ ReaderInv'
    BY <1>0, <2>1 DEF ReaderInv
  <2> QED
    BY <1>1, <1>3, <2>1, <2>2, LinePrinted DEF TermInv
<1>4. CASE Term!Read
  <2>1. Asking /\ UNCHANGED <<after, part, rest, key, scr>> /\ reader' = "holding"
    BY <1>4 DEF Term!Read, Asking
  <2>2. Owned(scr)' /\ ReaderInv'
    BY <1>0, <2>1 DEF ReaderInv
  <2> QED
    BY <1>1, <1>4, <2>1, <2>2, LineRead DEF TermInv
<1>5. CASE Term!PrintChunk
  <2>1. Asking /\ UNCHANGED <<after, part, rest, key>> /\ got' = <<>>
    BY <1>5 DEF Term!PrintChunk, Asking
  <2> QED
    BY <1>1, <1>5, <2>1, ChunkPrinted DEF TermInv, ReaderInv
<1>6. CASE Term!TransferReads
  <2>1. Asking /\ UNCHANGED <<after, part, rest, key, scr, got, reader>>
    BY <1>6 DEF Term!TransferReads, Asking
  <2>2. Owned(scr)' /\ ReaderInv'
    BY <1>0, <2>1 DEF ReaderInv
  <2> QED
    BY <1>1, <1>6, <2>1, <2>2, TransferTook DEF TermInv
<1>7. CASE UNCHANGED Term!vars
  <2>1. Lying /\ ScreenMoves /\ Asking /\ UNCHANGED <<after, part, rest, key, reader>>
    BY <1>7 DEF Term!vars, Lying, ScreenMoves, Asking
  <2>2. ReaderInv'
    BY <1>0, <2>1 DEF ReaderInv, Lying
  <2> QED
    BY <1>0, <1>1, <2>1, <2>2, ScreenMoved DEF TermInv
<1> QED
  BY <1>2, <1>3, <1>4, <1>5, <1>6, <1>7 DEF Term!Next, Term!ReadLoop

\* So it holds always.
LEMMA TerminalAlways == Term!Spec => []TermInv
<1>1. Term!Init => TermInv
  BY TerminalInitially
<1>2. TermInv /\ [Term!Next]_Term!vars => TermInv'
  BY TerminalNext
<1> QED
  BY <1>1, <1>2, PTL DEF Term!Spec

\* What the device prints reaches the screen in order and once, for any output, any size of
\* page, buffer and read, and any keys (deviceOutput, outputLocked, flushPagerLocked).
THEOREM OutputArrives == Term!Spec => []OutputNotLost
<1>1. TermInv => OutputNotLost
  BY DEF TermInv, TextInv, CountInv, Rising, Stream, Kept, Settled, OutputNotLost
<1> QED
  BY <1>1, TerminalAlways, PTL

\* The bars step aside for a fullscreen program and for nothing else, whatever the parser
\* sees and whenever the menu takes the screen back (chromeParser.feed, chromeApplyLocked).
THEOREM OneOwner == Term!Spec => []ScreenHasOneOwner
<1>1. TermInv => ScreenHasOneOwner
  BY DEF TermInv, Owned, ScreenHasOneOwner
<1> QED
  BY <1>1, TerminalAlways, PTL

\* No Ctrl-C reaches UrsusBoot's idle prompt without a warning of its own (sendCtrlC).
THEOREM CtrlCAlwaysAsked == Term!Spec => []CtrlCAsked
<1>1. TermInv => CtrlCAsked
  BY DEF TermInv, AskInv, CtrlCAsked
<1> QED
  BY <1>1, TerminalAlways, PTL
===============================================================================
