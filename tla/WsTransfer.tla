------------------------------ MODULE WsTransfer ------------------------------
(***************************************************************************)
(* What the Ethernet console moves between the PC and the RAM of a running *)
(* UrsusBoot (ws_transfer.go, ws_console.go).  To save a range             *)
(* (wsReceiveRAM), the operation types commands on a WebSocket console and *)
(* reads until it sees a prompt, a goroutine of its own receives the file  *)
(* over UDP (runTFTPPutReceiver), and the two meet at a channel and at the *)
(* partial file.  A file goes the other way by XMODEM over the console     *)
(* (wsXmodemSend) or in acknowledged HTTP chunks (wsUploadRAM).  UrsusBoot *)
(* itself - console, tftpput, HTTP server - is external.                   *)
(***************************************************************************)
EXTENDS Naturals, Sequences, SequencesExt

CONSTANTS
  Blocks,      \* DATA packets of the file; the last one is the short one
  WrapAt,      \* block numbers wrap here (65536: a uint16)
  Silences,    \* one-second silences after which the receiver gives up (120)
  Patience,    \* times tftpput sends a packet
  MaxLost,     \* bound: datagrams lost or doubled
  MaxFaults    \* bound: frames torn, answers lost, deadlines, RAM changed, other users

ASSUME WsAssumption ==
  /\ Blocks \in Nat \ {0} /\ WrapAt \in Nat /\ WrapAt > MaxLost + 1
  /\ Silences \in Nat \ {0} /\ Patience \in Nat \ {0} /\ MaxLost \in Nat /\ MaxFaults \in Nat

VARIABLES
  pc,        \* "choose" | "hash1" | "put" | "join" | "giveUp" | "check" | "hash2" | "rename"
             \* | "loadx" | "send" | "settle" | "hashRam" | "begin" | "chunk" | "done"
  diskFails, \* the file system may fail; does not change
  locks,     \* it neither removes nor renames an open file (Windows); does not change
  reading,   \* a command is typed, its prompt is waited for
  out,       \* what has been read since
  expected,  \* the digest of the range before the transfer: a version of the RAM
  outcome,   \* "running" | "saved" | "sent" | "uploaded" | "left" | "failed"
  off,       \* chunks that UrsusBoot has acknowledged
  files,     \* of {"partial", "out"}: those that exist
  content,   \* of the partial file: the blocks with the RAM version each was read from
  cancel,    \* the cancel channel is closed
  recv,      \* the goroutine: "off" | "wrq" | "data" | "linger" | "finished" | "gone" (file closed)
  result,    \* what it has sent on the done channel: "none" | "ok" | "error" | "cancelled"
  expect,    \* the next block it takes, counted without wrapping
  silences,  \* one-second silences since the last block
  cmds,      \* typed at UrsusBoot and not run yet
  con,       \* printed by it and not read yet
  ram,       \* what the range holds: "before" | "changed" | "file" | "damaged"
  upload,    \* its HTTP upload: whose, and how many chunks
  put,       \* its tftpput: [is, block, tries]
  up, down,  \* datagrams on the way to the host, and to the device
  lost, faults

host == <<pc, reading, out, expected, outcome, off>>
disk == <<files, content, diskFails, locks>>
receiver == <<recv, result, expect, silences>>
net == <<up, down, lost>>
ursus == <<cmds, con, ram, put, upload>>
vars == <<host, disk, cancel, receiver, ursus, net, faults>>

Fault == faults < MaxFaults /\ faults' = faults + 1
Idle == [is |-> "off", block |-> 0, tries |-> 0]

\* UrsusBoot greets the console; a prompt may follow before anything is typed.
Init ==
  /\ pc = "choose" /\ reading = FALSE /\ out = <<>> /\ expected = "none" /\ outcome = "running"
  /\ off = 0 /\ files = {} /\ content = <<>> /\ diskFails \in BOOLEAN /\ locks \in BOOLEAN /\ cancel = FALSE
  /\ recv = "off" /\ result = "none" /\ expect = 1 /\ silences = 0
  /\ cmds = <<>> /\ con \in {<<"hello">>, <<"hello", "prompt">>} /\ ram = "before" /\ put = Idle /\ upload = [by |-> "nobody", chunks |-> 0]
  /\ up = <<>> /\ down = <<>> /\ lost = 0 /\ faults = 0

-----------------------------------------------------------------------------
(***************************************************************************)
(* UrsusBoot.                                                              *)
(***************************************************************************)
Prints(items) == con' = con \o items

Hash ==
  /\ cmds # <<>> /\ Head(cmds) = "hash" /\ put.is = "off"
  /\ cmds' = Tail(cmds) /\ Prints(<<ram, "prompt">>)
  /\ UNCHANGED <<host, disk, cancel, receiver, ram, put, upload, net, faults>>

\* loadx waits for the file and prints no prompt before it; an empty line prints one.
OtherCommands ==
  /\ cmds # <<>> /\ Head(cmds) \in {"loadx", "empty"} /\ cmds' = Tail(cmds)
  /\ Prints(<<IF Head(cmds) = "loadx" THEN "ready" ELSE "prompt">>)
  /\ UNCHANGED <<host, disk, cancel, receiver, ram, put, upload, net, faults>>

StartPut ==
  /\ cmds # <<>> /\ Head(cmds) = "tftpput" /\ put.is = "off"
  /\ cmds' = Tail(cmds) /\ put' = [is |-> "sending", block |-> 0, tries |-> 1]
  /\ up' = Append(up, [block |-> 0, ram |-> ram])
  /\ UNCHANGED <<host, disk, cancel, receiver, con, ram, upload, down, lost, faults>>

\* Block 0 stands for the write request, its acknowledgement for the answer to it.
Datagram(b) == [block |-> b, ram |-> ram]

Acked ==
  /\ put.is = "sending" /\ down # <<>> /\ down' = Tail(down)
  /\ IF Head(down) # put.block % WrapAt THEN UNCHANGED <<put, up, con>>
     ELSE IF put.block = Blocks
     THEN put' = Idle /\ Prints(<<"sent", "prompt">>) /\ UNCHANGED up
     ELSE /\ put' = [put EXCEPT !.block = @ + 1, !.tries = 1]
          /\ up' = Append(up, Datagram(put.block + 1)) /\ UNCHANGED con
  /\ UNCHANGED <<host, disk, cancel, receiver, cmds, ram, upload, lost, faults>>

\* Nothing for a while: the packet again, or the end with an error; the receiver repeats
\* its answer every second, sooner than tftpput loses its patience.
PutTimeout ==
  /\ put.is = "sending" /\ up = <<>> /\ down = <<>> /\ recv \notin {"linger", "finished"}
  /\ put.tries = Patience => ~(recv = "data" /\ silences + 1 < Silences)
  /\ IF put.tries < Patience
     THEN /\ put' = [put EXCEPT !.tries = @ + 1]
          /\ up' = Append(up, Datagram(put.block)) /\ UNCHANGED con
     ELSE put' = Idle /\ Prints(<<"error", "prompt">>) /\ UNCHANGED up
  /\ UNCHANGED <<host, disk, cancel, receiver, cmds, ram, upload, down, lost, faults>>

\* In the two seconds of the receiver's linger tftpput may be quick enough, or not.
PutRepeatsInTime ==
  /\ put.is = "sending" /\ up = <<>> /\ down = <<>> /\ recv = "linger" /\ put.tries < Patience
  /\ put' = [put EXCEPT !.tries = @ + 1] /\ up' = Append(up, Datagram(put.block))
  /\ UNCHANGED <<host, disk, cancel, receiver, cmds, con, ram, upload, down, lost, faults>>

NobodyThere ==
  /\ down # <<>> /\ put.is = "off" /\ down' = Tail(down)
  /\ UNCHANGED <<host, disk, cancel, receiver, ursus, up, lost, faults>>

Ursus == Hash \/ OtherCommands \/ StartPut \/ Acked \/ PutTimeout \/ PutRepeatsInTime \/ NobodyThere

\* Something of the running device lies in the range.
RamChanges ==
  /\ ram = "before" /\ outcome = "running" /\ ram' = "changed" /\ Fault
  /\ UNCHANGED <<host, disk, cancel, receiver, cmds, con, put, upload, net>>

Lossy(q) == {RemoveAt(q, i) : i \in DOMAIN q} \cup {Append(q, q[i]) : i \in DOMAIN q}

Network ==
  /\ lost < MaxLost /\ lost' = lost + 1
  /\ \/ up' \in Lossy(up) /\ UNCHANGED down
     \/ down' \in Lossy(down) /\ UNCHANGED up
  /\ UNCHANGED <<host, disk, cancel, receiver, ursus, faults>>

-----------------------------------------------------------------------------
(***************************************************************************)
(* runTFTPPutReceiver.                                                     *)
(***************************************************************************)
Ack(b) == down' = Append(down, b % WrapAt)

\* The channel has room for one result; the file is closed only after it is sent.
Finish(r) == recv' = "finished" /\ result' = r

Receiving == recv \in {"wrq", "data"}

\* Mutant: the cancel is noticed while the request is waited for, not during the data.
CancelRequestOnly ==
  /\ recv = "wrq" /\ cancel /\ Finish("cancelled")
  /\ UNCHANGED <<host, disk, cancel, expect, silences, ursus, net, faults>>

CancelReceiver ==
  /\ Receiving /\ cancel /\ Finish("cancelled")
  /\ UNCHANGED <<host, disk, cancel, expect, silences, ursus, net, faults>>

\* The request: answered, and only then is the partial file created.
TakeRequest ==
  /\ recv = "wrq" /\ up # <<>> /\ up' = Tail(up)
  /\ IF Head(up).block # 0 THEN UNCHANGED <<receiver, down, disk>>
     ELSE /\ Ack(0)
          /\ \/ files' = files \cup {"partial"} /\ content' = <<>> /\ recv' = "data" /\ UNCHANGED <<diskFails, locks>>
                /\ silences' = 0 /\ UNCHANGED <<result, expect>>
             \/ diskFails /\ Finish("error") /\ UNCHANGED <<disk, expect, silences>>
  /\ UNCHANGED <<host, cancel, ursus, lost, faults>>

Repeated(b) == Ack(b) /\ UNCHANGED <<receiver, disk>>

\* Mutant: any block is taken for the next one.
StoreAny(b) == TRUE

IsNext(b) == b % WrapAt = expect % WrapAt

Store(d) ==
  \/ /\ content' = Append(content, d) /\ UNCHANGED <<files, diskFails, locks>> /\ Ack(d.block)
     /\ expect' = expect + 1 /\ silences' = 0
     /\ recv' = IF d.block = Blocks THEN "linger" ELSE "data"
     /\ UNCHANGED result
  \/ diskFails /\ Finish("error") /\ UNCHANGED <<disk, expect, silences, down>>

TakeData ==
  /\ recv = "data" /\ up # <<>> /\ up' = Tail(up)
  /\ LET d == Head(up) IN
     IF d.block = 0 THEN UNCHANGED <<receiver, down, disk>>
     ELSE IF IsNext(d.block) THEN Store(d)
     ELSE IF d.block % WrapAt = (expect + WrapAt - 1) % WrapAt THEN Repeated(d.block)
     ELSE UNCHANGED <<receiver, down, disk>>
  /\ UNCHANGED <<host, cancel, ursus, lost, faults>>

\* A second without a packet: the latest answer once more; the limit of them is so high
\* that it is reached only when nobody sends any more.
Silence ==
  /\ Receiving /\ up = <<>> /\ down = <<>>
  /\ silences + 1 < Silences \/ (put.is = "off" /\ cmds = <<>>)
  /\ silences' = silences + 1
  /\ IF silences + 1 >= Silences THEN Finish("error") /\ UNCHANGED down
     ELSE /\ IF recv = "data" THEN Ack(expect - 1) ELSE UNCHANGED down
          /\ UNCHANGED <<recv, result>>
  /\ UNCHANGED <<host, disk, cancel, expect, ursus, up, lost, faults>>

\* One more packet is read before the end: the last block again, if its ACK was lost.
Linger ==
  /\ recv = "linger" /\ Finish("ok")
  /\ \/ up # <<>> /\ up' = Tail(up)
        /\ IF Head(up).block = Blocks THEN Ack(Blocks) ELSE UNCHANGED down
     \/ UNCHANGED <<up, down>>
  /\ UNCHANGED <<host, disk, cancel, expect, silences, ursus, lost, faults>>

CloseFile ==
  /\ recv = "finished" /\ recv' = "gone"
  /\ UNCHANGED <<host, disk, cancel, result, expect, silences, ursus, net, faults>>

\* Nobody reads the socket any more.
Unread ==
  /\ recv \in {"off", "finished", "gone"} /\ up # <<>> /\ up' = Tail(up)
  /\ UNCHANGED <<host, disk, cancel, receiver, ursus, down, lost, faults>>

Receiver == CancelReceiver \/ TakeRequest \/ TakeData \/ Silence \/ Linger \/ CloseFile \/ Unread

-----------------------------------------------------------------------------
(***************************************************************************)
(* wsReceiveRAM.                                                           *)
(***************************************************************************)
Goto(p) == pc' = p /\ UNCHANGED outcome
Done(how) == pc' = "done" /\ outcome' = how
Fail == Done("failed")

\* The receiver has sent its result and not yet run its deferred Close.
FileLocked == locks /\ recv = "finished"

\* os.Remove, whose error nobody looks at.
Discard ==
  /\ \/ ~FileLocked /\ files' = files \ {"partial"}
     \/ (FileLocked \/ diskFails) /\ UNCHANGED files
  /\ UNCHANGED <<content, diskFails, locks>>

\* What the operator asks for: a range to the PC, a file by XMODEM or over HTTP.
Choose ==
  /\ pc = "choose"
  /\ \/ \E p \in {"hash1", "loadx", "begin"} : Goto(p)
     \/ Done("left")
  /\ UNCHANGED <<reading, out, expected, off, disk, cancel, receiver, ursus, net, faults>>

CommandOf(p) ==
  CASE p = "put" -> "tftpput" [] p = "loadx" -> "loadx" [] p = "settle" -> "empty" [] OTHER -> "hash"

\* wsCommand; the receiver is started, and its socket is open, before tftpput is typed.
TypeCommand ==
  /\ pc \in {"hash1", "put", "hash2", "loadx", "settle", "hashRam"} /\ ~reading
  /\ cmds' = Append(cmds, CommandOf(pc)) /\ reading' = TRUE /\ out' = <<>>
  /\ recv' = IF pc = "put" THEN "wrq" ELSE recv
  /\ UNCHANGED <<pc, expected, outcome, off, disk, cancel, result, expect, silences, con, ram, put, upload, net, faults>>

Digests(text) == {text[i] : i \in DOMAIN text} \cap {"before", "changed", "file", "damaged"}

\* Mutant: the receiver is left alone when the command fails.
GiveUpLeaving == Fail /\ UNCHANGED cancel

\* The receiver is told, and waited for.
GiveUp == Goto("giveUp") /\ cancel' = TRUE

\* Only the empty command after an XMODEM transfer may fail.
CommandFails ==
  IF pc = "put" THEN GiveUp /\ UNCHANGED <<disk, expected>>
  ELSE IF pc = "settle" THEN Goto("hashRam") /\ UNCHANGED <<disk, expected, cancel>>
  ELSE /\ Fail /\ UNCHANGED <<cancel, expected>>
       /\ IF pc = "hash2" THEN Discard ELSE UNCHANGED disk

\* Mutant: the digest after the transfer is not looked at.
UnchangedAnyway(text) == Goto("rename") /\ UNCHANGED disk

RangeUnchanged(text) ==
  IF expected \in Digests(text) THEN Goto("rename") /\ UNCHANGED disk
  ELSE Fail /\ Discard

ReceivedIs(text) == IF "file" \in Digests(text) THEN Done("sent") ELSE Fail

CommandEnds(text) ==
  CASE pc \in {"loadx", "settle"} ->
         Goto(IF pc = "loadx" THEN "send" ELSE "hashRam") /\ UNCHANGED <<disk, cancel, expected>>
    [] pc = "hashRam" ->
         ReceivedIs(text) /\ UNCHANGED <<disk, cancel, expected>>
    [] pc = "hash1" ->
         /\ UNCHANGED <<disk, cancel>>
         /\ IF Digests(text) = {} THEN Fail /\ UNCHANGED expected
            ELSE Goto("put") /\ expected' = CHOOSE v \in Digests(text) : TRUE
    [] pc = "put" ->
         Goto("join") /\ UNCHANGED <<disk, cancel, expected>>
    [] pc = "hash2" ->
         RangeUnchanged(text) /\ UNCHANGED <<cancel, expected>>

\* A command is over when what has been read ends in a prompt; loadx never sees one.
Over(text) == IF pc = "loadx" THEN "ready" \in ToSet(text) ELSE Last(text) = "prompt"

\* A read takes whatever has arrived.
ReadConsole ==
  /\ reading
  /\ \E n \in DOMAIN con :
       LET text == out \o SubSeq(con, 1, n) IN
       /\ con' = SubSeq(con, n + 1, Len(con)) /\ out' = text
       /\ IF Over(text) THEN reading' = FALSE /\ CommandEnds(text)
          ELSE UNCHANGED <<reading, pc, outcome, expected, disk, cancel>>
  /\ UNCHANGED <<off, receiver, cmds, ram, put, upload, net, faults>>

\* The deadline of the command; or a deadline of one read inside a frame, whose head is
\* then gone, and what follows is no frame any more.
ReadFails ==
  /\ reading /\ Fault /\ reading' = FALSE /\ CommandFails
  /\ \E n \in 0..Len(con) : con' = SubSeq(con, n + 1, Len(con))
  /\ UNCHANGED <<out, off, receiver, cmds, ram, put, upload, net>>

JoinAfterError ==
  /\ pc = "giveUp" /\ result # "none" /\ Fail /\ Discard
  /\ UNCHANGED <<reading, out, expected, off, cancel, receiver, ursus, net, faults>>

\* Both the receiver's count and the console's words have to agree.
Complete == result = "ok" /\ Len(content) = Blocks /\ "error" \notin ToSet(out)

Join ==
  /\ pc = "join" /\ result # "none"
  /\ IF Complete THEN Goto("check") /\ UNCHANGED disk ELSE Fail /\ Discard
  /\ UNCHANGED <<reading, out, expected, off, cancel, receiver, ursus, net, faults>>

Image(v) == [i \in 1..Blocks |-> [block |-> i, ram |-> v]]

\* The file as it is on the disk is read again; if it cannot be read it stays there.
CheckFile ==
  /\ pc = "check"
  /\ \/ content = Image(expected) /\ Goto("hash2") /\ UNCHANGED disk
     \/ content # Image(expected) /\ Fail /\ Discard
     \/ diskFails /\ Fail /\ UNCHANGED disk
  /\ UNCHANGED <<reading, out, expected, off, cancel, receiver, ursus, net, faults>>

Rename ==
  /\ pc = "rename"
  /\ \/ ~FileLocked /\ files' = {"out"} /\ UNCHANGED <<content, diskFails, locks>> /\ Done("saved")
     \/ (FileLocked \/ diskFails) /\ Fail /\ UNCHANGED disk
  /\ UNCHANGED <<reading, out, expected, off, cancel, receiver, ursus, net, faults>>

\* xmodemSend over the console (XmodemLink); its block check may miss damage, and the
\* receiver's prompt follows.
SendFile ==
  /\ pc = "send" /\ Prints(<<"prompt">>)
  /\ \/ ram' = "file" /\ Goto("settle") /\ UNCHANGED faults
     \/ ram' = "damaged" /\ Fault /\ (Goto("settle") \/ Fail)
  /\ UNCHANGED <<reading, out, expected, off, disk, cancel, receiver, cmds, put, upload, net>>

-----------------------------------------------------------------------------
(***************************************************************************)
(* wsUploadRAM.                                                            *)
(***************************************************************************)
Answered(p) == Goto(p) /\ UNCHANGED faults
Unanswered == Fault /\ Fail

Begin ==
  /\ pc = "begin" /\ upload' = [by |-> "us", chunks |-> 0]
  /\ Answered("chunk") \/ Unanswered
  /\ UNCHANGED <<reading, out, expected, off, disk, cancel, receiver, cmds, con, ram, put, net>>

\* UrsusBoot takes the chunk of the current upload at its offset, and nothing else.
ChunkFits == upload = [by |-> "us", chunks |-> off]

SendChunk ==
  /\ pc = "chunk" /\ off < Blocks
  /\ upload' = IF upload = [by |-> "us", chunks |-> off] THEN [upload EXCEPT !.chunks = @ + 1] ELSE upload
  /\ IF ~ChunkFits THEN Fail /\ UNCHANGED <<off, faults>>
     ELSE \/ off' = off + 1 /\ Answered("chunk")
          \/ UNCHANGED off /\ Unanswered
  /\ UNCHANGED <<reading, out, expected, disk, cancel, receiver, cmds, con, ram, put, net>>

Uploaded ==
  /\ pc = "chunk" /\ off = Blocks /\ Done("uploaded")
  /\ UNCHANGED <<reading, out, expected, off, disk, cancel, receiver, ursus, net, faults>>

\* Somebody else begins an upload of his own.
OtherUser ==
  /\ pc = "chunk" /\ off < Blocks /\ Fault /\ upload' = [by |-> "other", chunks |-> 0]
  /\ UNCHANGED <<host, disk, cancel, receiver, cmds, con, ram, put, net>>

Operation == Choose \/ SendFile \/ Begin \/ SendChunk \/ Uploaded \/ TypeCommand \/ ReadConsole \/ JoinAfterError \/ Join \/ CheckFile \/ Rename

Ended == pc = "done" /\ recv \in {"off", "gone"} /\ UNCHANGED vars

Next == Operation \/ Receiver \/ Ursus \/ RamChanges \/ OtherUser \/ Network \/ ReadFails \/ Ended

Spec == Init /\ [][Next]_vars
FairSpec ==
  /\ Spec
  /\ WF_vars(Operation) /\ WF_vars(Receiver) /\ WF_vars(Ursus)

-----------------------------------------------------------------------------
(***************************************************************************)
(* What must hold.                                                         *)
(***************************************************************************)
\* What is reported as saved is the range as it was both before and after the transfer,
\* whatever happened to the datagrams, and a file announced as received is what UrsusBoot
\* holds (the digests of wsReceiveRAM and wsXmodemSend, the answers of wsUploadRAM).
DoneMeansMoved ==
  /\ outcome = "saved" => /\ files = {"out"} /\ content = Image(expected)
                          /\ expected \in Digests(out)
  /\ outcome = "sent" => ram = "file"
  /\ outcome = "uploaded" => upload = [by |-> "us", chunks |-> Blocks]

\* When the operation is over no goroutine of it may create the partial file again or write
\* to it. The file itself is left behind by a failed operation only, and then only if the
\* disk failed or does not remove a file that is still open: the receiver sends its result
\* before it closes the file, and the removal is not tried again.
NothingLeft ==
  pc = "done" =>
    /\ recv \in {"off", "finished", "gone"}
    /\ "partial" \in files => outcome = "failed" /\ (diskFails \/ locks)

\* Once tftpput is typed, datagrams lost or doubled fewer times than its patience never
\* keep the range from being saved, except the last ACK, which the linger repeats only
\* for a quick client: then UrsusBoot reports an error. Where an open file is locked the
\* rename may come too early; the partial file then holds the whole range.
LossesAreRepaired ==
  (pc = "put") ~> \/ outcome = "saved"
                  \/ result = "ok" /\ "error" \in ToSet(out)
                  \/ faults > 0 \/ diskFails
                  \/ locks /\ "partial" \in files /\ content = Image(expected)
================================================================================
