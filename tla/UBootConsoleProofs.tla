-------------------------- MODULE UBootConsoleProofs --------------------------
(***************************************************************************)
(* Proofs about UBootConsole, for every conversation and every number of   *)
(* attempts and readbacks.  ConsoleInv is inductive whatever the number of *)
(* line faults: a command that changes flash is on its way at most once    *)
(* and not after it has run (Sending), a readback that was passed leaves   *)
(* every earlier change in flash (Written), and the answer to a status     *)
(* line is recognisable as the last thing that was asked for (Asked).      *)
(***************************************************************************)
EXTENDS UBootConsole, SequenceTheorems, TLAPS

Kinds == {"persistent", "safe", "plain", "readback"}

Command(i) == [is |-> "cmd", cmd |-> i]
Echo(k) == [is |-> "echo", mark |-> k]

Texts == [is : {"noise"}] \cup [is : {"cmd"}, cmd : Cmds] \cup [is : {"echo"}, mark : 1..mark]
Lines == [text : Texts, cr : BOOLEAN]
Outputs == [is : {"output"}, cmd : Cmds, flash : SUBSET Flash]
Tokens == [is : {"noise", "prompt"}] \cup [is : {"marker"}, mark : 1..mark, rc : Nat] \cup Outputs

TypeInv ==
  /\ setting \in Settings
  /\ pc \in {"send", "prompt", "sendStatus", "status", "done"}
  /\ cmd \in Cmds /\ mark \in Nat /\ status \in Nat /\ faults \in Nat
  /\ verdict \in {"running", "success", "failed"}
  /\ tx \in Seq(Lines) /\ typed \in Seq(Texts)
  /\ answer \in Seq(Tokens) /\ rx \in Seq(Tokens) /\ seen \subseteq Outputs
  /\ ran \in [Cmds -> Nat] /\ refused \subseteq Cmds
  /\ results \in Seq({"ok", "rc", "lost", "error"})

Sent(i) == \E n \in DOMAIN tx : tx[n].text = Command(i)

\* A command that changes flash is sent when its turn comes, once, and runs off the line it was sent on.
Sending ==
  \A i \in PersistentCmds :
    /\ i > cmd \/ (i = cmd /\ pc = "send") => ran[i] = 0 /\ ~Sent(i)
    /\ Sent(i) => ran[i] = 0
    /\ \A m, n \in DOMAIN tx : tx[m].text = Command(i) /\ tx[n].text = Command(i) => m = n

\* A readback that was passed has seen every earlier change.
Written ==
  /\ verdict = "success" => cmd = Len(Script) /\ pc = "done"
  /\ \A j \in Cmds : Script[j] = "readback" /\ (j < cmd \/ verdict = "success") =>
       \A i \in PersistentCmds : i < j => ran[i] > 0

IsMine(t) == t.is = "marker" /\ t.mark = mark
\* The status that was asked for is the last line sent, and its answer the last thing printed.
Asked ==
  pc = "status" =>
    /\ \A n \in DOMAIN tx : tx[n].text = Echo(mark) => n = Len(tx)
    /\ Echo(mark) \in ToSet(typed) => tx = <<>>
    /\ (\E t \in ToSet(answer) \cup ToSet(rx) : IsMine(t)) => tx = <<>> /\ typed = <<>>
    /\ \A n \in DOMAIN answer : IsMine(answer[n]) => n = 1 /\ Len(answer) = 2
    /\ (\E t \in ToSet(rx) : IsMine(t)) => Len(answer) <= 1 /\ ~\E t \in ToSet(answer) : IsMine(t)
    /\ \A m, n \in DOMAIN rx : IsMine(rx[m]) /\ rx[n] = Prompt /\ m < n => answer = <<>>

ConsoleInv == TypeInv /\ Sending /\ PersistentAtMostOnce /\ Written /\ Asked

LEMMA Extended ==
  ASSUME NEW S, NEW s \in Seq(S), NEW e \in S
  PROVE  /\ Append(s, e) \in Seq(S) /\ Len(Append(s, e)) = Len(s) + 1
         /\ \A n \in DOMAIN s : Append(s, e)[n] = s[n]
         /\ Append(s, e)[Len(s) + 1] = e
         /\ ToSet(Append(s, e)) = ToSet(s) \cup {e}
<1>1. Append(s, e) \in Seq(S) /\ Len(Append(s, e)) = Len(s) + 1
  OBVIOUS
<1>2. \A n \in 1..Len(s) : Append(s, e)[n] = s[n]
  OBVIOUS
<1>3. Append(s, e)[Len(s) + 1] = e
  OBVIOUS
<1>4. ToSet(Append(s, e)) \subseteq ToSet(s) \cup {e}
  BY <1>1, <1>2, <1>3 DEF ToSet
<1>5. ToSet(s) \cup {e} \subseteq ToSet(Append(s, e))
  BY <1>1, <1>2, <1>3 DEF ToSet
<1> QED
  BY <1>1, <1>2, <1>3, <1>4, <1>5

LEMMA Taken ==
  ASSUME NEW S, NEW s \in Seq(S), s # <<>>
  PROVE  /\ Len(s) \in Nat \ {0} /\ Head(s) = s[1] /\ Head(s) \in S /\ Tail(s) \in Seq(S)
         /\ Len(Tail(s)) = Len(s) - 1
         /\ \A n \in DOMAIN Tail(s) : n + 1 \in DOMAIN s /\ Tail(s)[n] = s[n + 1]
OBVIOUS

LEMMA Short ==
  ASSUME NEW a, NEW b
  PROVE  Append(<<a>>, b) = <<a, b>> /\ Append(<<>>, b) = <<b>>
<1> DEFINE S == {a, b}
<1>1. Append(<<a>>, b) = <<a, b>>
  <2> DEFINE s == Append(<<a>>, b)
             t == <<a, b>>
  <2>1. s \in Seq(S) /\ Len(s) = 2 /\ s[1] = a /\ s[2] = b
    OBVIOUS
  <2>2. t \in Seq(S) /\ Len(t) = 2 /\ t[1] = a /\ t[2] = b
    OBVIOUS
  <2> HIDE DEF s, t, S
  <2>3. \A i \in 1..2 : s[i] = t[i]
    <3> TAKE i \in 1..2
    <3>1. i = 1 \/ i = 2
      OBVIOUS
    <3> QED
      BY <2>1, <2>2, <3>1
  <2>4. s = t
    BY <2>1, <2>2, <2>3, SeqEqual
  <2> QED
    BY <2>4 DEF s, t
<1>2. Append(<<>>, b) = <<b>>
  <2> DEFINE s == Append(<<>>, b)
             t == <<b>>
  <2>1. s \in Seq(S) /\ Len(s) = 1 /\ s[1] = b
    OBVIOUS
  <2>2. t \in Seq(S) /\ Len(t) = 1 /\ t[1] = b
    OBVIOUS
  <2> HIDE DEF s, t, S
  <2> QED
    BY <2>1, <2>2, SeqEqual
<1> QED
  BY <1>1, <1>2

LEMMA Cut ==
  ASSUME NEW S, NEW s \in Seq(S), NEW n \in DOMAIN s
  PROVE  /\ SubSeq(s, 1, n) \in Seq(S) /\ SubSeq(s, n + 1, Len(s)) \in Seq(S)
         /\ ToSet(SubSeq(s, 1, n)) = {s[m] : m \in 1..n}
<1>1. /\ SubSeq(s, 1, n) \in Seq(S) /\ Len(SubSeq(s, 1, n)) = n
      /\ \A m \in 1..n : SubSeq(s, 1, n)[m] = s[m]
  OBVIOUS
<1>2. SubSeq(s, n + 1, Len(s)) \in Seq(S)
  OBVIOUS
<1>3. ToSet(SubSeq(s, 1, n)) \subseteq {s[m] : m \in 1..n}
  BY <1>1 DEF ToSet
<1>4. ASSUME NEW m \in 1..n
      PROVE  s[m] \in ToSet(SubSeq(s, 1, n))
  <2>1. m \in DOMAIN SubSeq(s, 1, n) /\ SubSeq(s, 1, n)[m] = s[m]
    BY <1>1
  <2> QED
    BY <2>1 DEF ToSet
<1> QED
  BY <1>1, <1>2, <1>3, <1>4

LEMMA Wider ==
  ASSUME NEW S, NEW T, S \subseteq T, NEW s \in Seq(S)
  PROVE  s \in Seq(T)
OBVIOUS

LEMMA Conversation ==
  ASSUME TypeInv
  PROVE  /\ Script \in Seq(Kinds) /\ Len(Script) \in Nat \ {0} /\ Cmds = 1..Len(Script)
         /\ DOMAIN Script = Cmds /\ PersistentCmds \subseteq Cmds
         /\ Attempts \in Nat \ {0} /\ ReadbackTries \in Nat \ {0} /\ LateAnswers \in BOOLEAN
<1>1. Script \in Seq(Kinds) /\ Script # <<>> /\ Attempts \in Nat \ {0} /\ LateAnswers \in BOOLEAN
  BY ConsoleAssumption DEF TypeInv, Script, Kinds, Attempts, LateAnswers
<1>2. Len(Script) \in Nat \ {0} /\ DOMAIN Script = 1..Len(Script)
  BY <1>1
<1> QED
  BY <1>1, <1>2, ConsoleAssumption DEF Cmds, PersistentCmds

\* The script stays, and what may be read and typed only grows.
LEMMA Growing ==
  ASSUME TypeInv, UNCHANGED setting, mark' \in Nat, mark <= mark', ran' \in [Cmds -> Nat],
         \A i \in Cmds : ran[i] <= ran'[i]
  PROVE  /\ Script' = Script /\ Cmds' = Cmds /\ PersistentCmds' = PersistentCmds
         /\ Texts \subseteq Texts' /\ Outputs \subseteq Outputs' /\ Tokens \subseteq Tokens'
         /\ tx \in Seq(Lines') /\ typed \in Seq(Texts')
         /\ answer \in Seq(Tokens') /\ rx \in Seq(Tokens') /\ seen \subseteq Outputs'
<1>1. Script' = Script /\ Cmds' = Cmds /\ PersistentCmds' = PersistentCmds
  BY DEF Script, Cmds, PersistentCmds
<1>2. Flash \subseteq Flash'
  BY <1>1, Conversation DEF Flash, TypeInv
<1>3. 1..mark \subseteq 1..mark'
  BY DEF TypeInv
<1>4. Texts \subseteq Texts'
  BY <1>1, <1>3 DEF Texts
<1>5. Outputs \subseteq Outputs'
  BY <1>1, <1>2 DEF Outputs
<1>6. Tokens \subseteq Tokens'
  BY <1>3, <1>5 DEF Tokens
<1>7. Lines \subseteq Lines'
  BY <1>4 DEF Lines
<1>8. tx \in Seq(Lines') /\ typed \in Seq(Texts')
  BY <1>4, <1>7, Wider DEF TypeInv
<1>9. answer \in Seq(Tokens') /\ rx \in Seq(Tokens') /\ seen \subseteq Outputs'
  BY <1>5, <1>6, Wider DEF TypeInv
<1> QED
  BY <1>1, <1>4, <1>5, <1>6, <1>8, <1>9

LEMMA Standing ==
  ASSUME TypeInv, UNCHANGED <<setting, mark, ran>>
  PROVE  /\ Script' = Script /\ Cmds' = Cmds /\ PersistentCmds' = PersistentCmds
         /\ Texts' = Texts /\ Lines' = Lines /\ Outputs' = Outputs /\ Tokens' = Tokens
         /\ LateAnswers' = LateAnswers
BY DEF Script, Cmds, PersistentCmds, Texts, Lines, Outputs, Tokens, Flash, LateAnswers

\* How the host goes on with a command: the next one, the same once more, or not at all.
Results == {"ok", "rc", "lost", "error"}
Retry == /\ pc' = "send" /\ UNCHANGED <<cmd, results, verdict, faults>>
         /\ NoiseRetrySafe(Script[cmd])

LEMMA Judged ==
  ASSUME TypeInv, pc \in {"prompt", "status"}, NEW o \in SUBSET Outputs,
         ReportOk(o) \/ ReportLost(o) \/ GiveUp("rc")
  PROVE  /\ seen' \in {{}, o, seen}
         /\ \/ Retry
            \/ \E r \in Results \ {"ok"} : GiveUp(r)
            \/ NextCommand("lost") /\ Script[cmd] = "persistent"
            \/ /\ NextCommand("ok") /\ ReportOk(o)
               /\ Script[cmd] = "readback" => ReadbackMatches(o)
<1>1. CASE ReportOk(o)
  BY <1>1 DEF ReportOk, Retry, NoiseRetrySafe, GiveUp, NextCommand, Results
<1>2. CASE ReportLost(o)
  BY <1>2 DEF ReportLost, Retry, NoiseRetrySafe, GiveUp, NextCommand, Results
<1>3. CASE GiveUp("rc")
  BY <1>3 DEF GiveUp, Results
<1> QED
  BY <1>1, <1>2, <1>3

LEMMA JudgedTypes ==
  ASSUME TypeInv, pc \in {"prompt", "status"}, NEW o \in SUBSET Outputs,
         ReportOk(o) \/ ReportLost(o) \/ GiveUp("rc")
  PROVE  /\ pc' \in {"send", "done"} /\ cmd' \in Cmds /\ faults' \in Nat
         /\ verdict' \in {"running", "success", "failed"} /\ seen' \subseteq Outputs
         /\ results' \in Seq(Results)
<1>1. seen' \subseteq Outputs
  BY Judged DEF TypeInv
<1>2. ASSUME NEW r \in Results, NextCommand(r)
      PROVE  /\ pc' \in {"send", "done"} /\ cmd' \in Cmds /\ faults' \in Nat
             /\ verdict' \in {"running", "success", "failed"} /\ results' \in Seq(Results)
  BY <1>2, Conversation, Extended DEF NextCommand, TypeInv, Results
<1>3. ASSUME NEW r \in Results, GiveUp(r)
      PROVE  /\ pc' \in {"send", "done"} /\ cmd' \in Cmds /\ faults' \in Nat
             /\ verdict' \in {"running", "success", "failed"} /\ results' \in Seq(Results)
  BY <1>3, Extended DEF GiveUp, TypeInv, Results
<1>4. "ok" \in Results /\ "lost" \in Results
  BY DEF Results
<1>5. CASE Retry
  BY <1>1, <1>5 DEF Retry, TypeInv, Results
<1> QED
  BY <1>1, <1>2, <1>3, <1>4, <1>5, Judged

LEMMA CollectedOutputs ==
  ASSUME TypeInv, NEW n \in DOMAIN rx
  PROVE  Collected(n) \in SUBSET Outputs /\ Collected(n) = {t \in {rx[m] : m \in 1..n} : t.is = "output"}
<1>1. ToSet(SubSeq(rx, 1, n)) = {rx[m] : m \in 1..n}
  BY Cut DEF TypeInv
<1>2. \A m \in 1..n : rx[m] \in Tokens
  BY DEF TypeInv
<1>3. \A t \in Tokens : t.is = "output" => t \in Outputs
  BY DEF Tokens
<1> QED
  BY <1>1, <1>2, <1>3 DEF Collected

LEMMA TimeoutOutputs ==
  ASSUME TypeInv
  PROVE  Collected(Len(rx)) \in SUBSET Outputs
<1>1. CASE rx = <<>>
  <2>1. SubSeq(rx, 1, Len(rx)) = <<>>
    BY <1>1
  <2> QED
    BY <2>1 DEF Collected, ToSet
<1>2. CASE rx # <<>>
  <2>1. Len(rx) \in DOMAIN rx
    BY <1>2 DEF TypeInv
  <2> QED
    BY <2>1, CollectedOutputs
<1> QED
  BY <1>1, <1>2

LEMMA SendLineTypes ==
  ASSUME TypeInv, NEW t \in Texts', SendLine(t), tx \in Seq(Lines')
  PROVE  tx' \in Seq(Lines') /\ faults' \in Nat
<1>1. \E e \in Lines' : tx' = Append(tx, e)
  BY DEF SendLine, Lines, Texts, Damage
<1> QED
  BY <1>1, Extended DEF SendLine, Fault, TypeInv

LEMMA HostTypes ==
  ASSUME TypeInv, Host
  PROVE  TypeInv'
<1>1. CASE SendCommand
  <2>1. UNCHANGED <<setting, mark, ran>>
    BY <1>1 DEF SendCommand, deviceVars, Host
  <2>2. Command(cmd) \in Texts'
    BY <2>1, Standing DEF TypeInv, Texts, Command
  <2>3. tx' \in Seq(Lines') /\ faults' \in Nat
    BY <1>1, <2>1, <2>2, Standing, SendLineTypes DEF SendCommand, Command, TypeInv
  <2>4. rx' \in Seq(Tokens')
    BY <1>1 DEF SendCommand
  <2> QED
    BY <1>1, <2>1, <2>3, <2>4, Standing DEF SendCommand, TypeInv, deviceVars
<1>2. CASE ReadPrompt
  <2>1. PICK n \in DOMAIN rx : seen' = seen \cup Collected(n) /\ rx' = SubSeq(rx, n + 1, Len(rx))
    BY <1>2 DEF ReadPrompt
  <2>2. seen' \subseteq Outputs /\ rx' \in Seq(Tokens)
    BY <2>1, CollectedOutputs, Cut DEF TypeInv
  <2> QED
    BY <1>2, <2>2, Standing DEF ReadPrompt, TypeInv, deviceVars, Host
<1>3. CASE SendStatus
  <2>1. UNCHANGED <<setting, ran>> /\ mark' = mark + 1
    BY <1>3 DEF SendStatus, deviceVars, Host
  <2>2. mark' \in Nat /\ mark <= mark' /\ mark' \in 1..mark'
    BY <2>1 DEF TypeInv
  <2>3. Echo(mark') \in Texts'
    BY <2>2 DEF Texts, Echo
  <2>4. /\ Cmds' = Cmds /\ tx \in Seq(Lines') /\ typed \in Seq(Texts') /\ answer \in Seq(Tokens')
        /\ seen \subseteq Outputs'
    BY <2>1, <2>2, Growing DEF TypeInv
  <2>5. tx' \in Seq(Lines') /\ faults' \in Nat
    BY <1>3, <2>3, <2>4, SendLineTypes DEF SendStatus, Echo
  <2>6. rx' \in Seq(Tokens')
    BY <1>3 DEF SendStatus
  <2> QED
    BY <1>3, <2>1, <2>2, <2>4, <2>5, <2>6 DEF SendStatus, TypeInv, deviceVars
<1>4. CASE ReadStatus
  <2>1. PICK n \in DOMAIN rx :
           /\ \/ ReportLost(seen \cup Collected(n)) \/ ReportOk(seen \cup Collected(n)) \/ GiveUp("rc")
           /\ rx' = SubSeq(rx, n + 1, Len(rx))
    BY <1>4 DEF ReadStatus
  <2>2. seen \cup Collected(n) \in SUBSET Outputs /\ rx' \in Seq(Tokens)
    BY <2>1, CollectedOutputs, Cut DEF TypeInv
  <2>3. pc \in {"prompt", "status"}
    BY <1>4 DEF ReadStatus
  <2> QED
    BY <1>4, <2>1, <2>2, <2>3, JudgedTypes, Standing DEF ReadStatus, TypeInv, deviceVars, Host, Results
<1>5. CASE Timeout
  <2>1. seen \cup Collected(Len(rx)) \in SUBSET Outputs
    BY TimeoutOutputs DEF TypeInv
  <2>2. rx' \in Seq(Tokens)
    BY <1>5 DEF Timeout
  <2> QED
    BY <1>5, <2>1, <2>2, JudgedTypes, Standing DEF Timeout, TypeInv, deviceVars, Host, Results
<1> QED
  BY <1>1, <1>2, <1>3, <1>4, <1>5 DEF Host

\* What U-Boot makes of a whole line.
Echoes(k) == /\ k \in 1..mark /\ answer' = <<Marker(k, status), Prompt>> /\ status' = 0
             /\ UNCHANGED <<ran, refused>>
Carries(i) == /\ ran' = [ran EXCEPT ![i] = @ + 1] /\ status' = 0 /\ UNCHANGED refused
              /\ answer' = <<Output(i, Flash'), Prompt>>
Fails(i) == refused' = refused \cup {i} /\ status' = 1 /\ answer' = <<Prompt>> /\ UNCHANGED ran
Unknown == answer' = <<Prompt>> /\ status' = 1 /\ UNCHANGED <<ran, refused>>

LEMMA LineTaken ==
  ASSUME TypeInv, TakeLine, UNCHANGED setting
  PROVE  /\ tx # <<>> /\ answer = <<>> /\ Head(tx) = tx[1] /\ tx[1] \in Lines /\ tx' = Tail(tx)
         /\ UNCHANGED <<hostVars, rx, faults>>
         /\ \/ /\ ~tx[1].cr /\ typed' = Append(typed, tx[1].text)
               /\ UNCHANGED <<answer, status, ran, refused>>
            \/ /\ tx[1].cr /\ typed' = <<>>
               /\ LET first == IF typed = <<>> THEN tx[1].text ELSE typed[1] IN
                  \/ \E k \in 1..mark : first = Echo(k) /\ Echoes(k)
                  \/ \E i \in Cmds : /\ typed = <<>> /\ tx[1].text = Command(i)
                                     /\ Carries(i) \/ Fails(i)
                  \/ first.is # "echo" /\ (typed = <<>> => first.is # "cmd") /\ Unknown
<1> DEFINE e == Head(tx)
           line == Append(typed, e.text)
           first == IF typed = <<>> THEN e.text ELSE typed[1]
<1>1. /\ tx # <<>> /\ answer = <<>> /\ e = tx[1] /\ e \in Lines /\ tx' = Tail(tx)
      /\ UNCHANGED <<hostVars, rx, faults>>
  BY Taken DEF TakeLine, TypeInv
<1>2. e.text \in Texts /\ e.cr \in BOOLEAN
  BY <1>1 DEF Lines
<1>3. line[1] = first /\ first \in Texts /\ (Len(line) = 1 <=> typed = <<>>)
  BY <1>2, Extended DEF TypeInv
<1>4. /\ first.is = "echo" => \E k \in 1..mark : first = Echo(k) /\ first.mark = k
      /\ first.is = "cmd" => \E i \in Cmds : first = Command(i) /\ first.cmd = i
  BY <1>3 DEF Texts, Echo, Command
<1>5. CASE ~e.cr
  BY <1>1, <1>5 DEF TakeLine
<1>6. CASE e.cr
  <2>1. typed' = <<>>
    BY <1>6 DEF TakeLine
  <2>2. CASE first.is = "echo"
    <3>1. RunEcho(first.mark)
      BY <1>3, <1>6, <2>2 DEF TakeLine
    <3>2. PICK k \in 1..mark : first = Echo(k) /\ first.mark = k
      BY <1>4, <2>2
    <3>3. Echoes(k)
      BY <3>1, <3>2, Short DEF RunEcho, Answer, Echoes
    <3> QED
      BY <1>1, <1>6, <2>1, <3>2, <3>3
  <2>3. CASE first.is = "cmd" /\ typed = <<>>
    <3>1. RunCommand(first.cmd)
      BY <1>3, <1>6, <2>3 DEF TakeLine
    <3>2. PICK i \in Cmds : first = Command(i) /\ first.cmd = i
      BY <1>4, <2>3
    <3>3. Flash' = {j \in PersistentCmds : ran'[j] > 0}
      BY DEF Flash, PersistentCmds, Cmds, Script
    <3>4. Carries(i) \/ Fails(i)
      BY <3>1, <3>2, <3>3, Short DEF RunCommand, Answer, Carries, Fails
    <3> QED
      BY <1>1, <1>6, <2>1, <2>3, <3>2, <3>4
  <2>4. CASE first.is # "echo" /\ (typed = <<>> => first.is # "cmd")
    <3>1. RunUnknown
      BY <1>3, <1>6, <2>4 DEF TakeLine
    <3>2. Unknown
      BY <3>1, Short DEF RunUnknown, Answer, Unknown
    <3> QED
      BY <1>1, <1>6, <2>1, <2>4, <3>2
  <2> QED
    BY <2>2, <2>3, <2>4
<1> HIDE DEF e, line, first
<1> QED
  BY <1>2, <1>5, <1>6

LEMMA DeviceTypes ==
  ASSUME TypeInv, Device, UNCHANGED setting
  PROVE  TypeInv'
<1>1. CASE TakeLine
  <2>1. UNCHANGED <<hostVars, rx, faults>> /\ tx' \in Seq(Lines) /\ tx[1].text \in Texts
    BY <1>1, LineTaken, Taken DEF TypeInv, Lines
  <2>2. /\ ran' \in [Cmds -> Nat] /\ refused' \subseteq Cmds /\ status' \in Nat
        /\ \A i \in Cmds : ran[i] <= ran'[i]
    <3>1. ASSUME NEW i \in Cmds, Carries(i) \/ Fails(i)
          PROVE  /\ ran' \in [Cmds -> Nat] /\ refused' \subseteq Cmds /\ status' \in Nat
                 /\ \A j \in Cmds : ran[j] <= ran'[j]
      <4>1. ran \in [Cmds -> Nat] /\ refused \subseteq Cmds /\ status \in Nat
        BY DEF TypeInv
      <4> QED
        BY <3>1, <4>1 DEF Carries, Fails
    <3>2. \/ \E i \in Cmds : Carries(i) \/ Fails(i)
          \/ UNCHANGED <<ran, refused>> /\ status' \in {status, 0, 1}
      BY <1>1, LineTaken DEF Echoes, Unknown
    <3> QED
      BY <3>1, <3>2 DEF TypeInv
  <2>3. typed' \in Seq(Texts)
    <3>1. typed' = Append(typed, tx[1].text) \/ typed' = <<>>
      BY <1>1, LineTaken
    <3>2. typed \in Seq(Texts) /\ <<>> \in Seq(Texts)
      BY DEF TypeInv
    <3>3. Append(typed, tx[1].text) \in Seq(Texts)
      BY <2>1, <3>2, Extended
    <3> QED
      BY <3>1, <3>2, <3>3
  <2>4. /\ Cmds' = Cmds /\ Texts \subseteq Texts' /\ Lines \subseteq Lines' /\ Tokens \subseteq Tokens'
        /\ Outputs \subseteq Outputs' /\ rx \in Seq(Tokens') /\ seen \subseteq Outputs' /\ Tokens \subseteq Tokens'
    BY <2>1, <2>2, Growing DEF TypeInv, hostVars, Lines
  <2>5. tx' \in Seq(Lines') /\ typed' \in Seq(Texts')
    BY <2>1, <2>3, <2>4, Wider
  <2>6. answer' \in Seq(Tokens')
    <3>1. Prompt \in Tokens'
      BY DEF Prompt, Tokens
    <3>2. ASSUME NEW k \in 1..mark PROVE Marker(k, status) \in Tokens'
      BY <2>4 DEF Marker, Tokens, TypeInv
    <3>3. ASSUME NEW i \in Cmds PROVE Output(i, Flash') \in Tokens'
      BY <2>4 DEF Output, Tokens, Outputs
    <3>4. \A a, b \in Tokens' : <<a>> \in Seq(Tokens') /\ <<a, b>> \in Seq(Tokens')
      OBVIOUS
    <3>5. CASE UNCHANGED answer
      BY <1>1, <3>5, LineTaken
    <3> QED
      BY <1>1, <3>1, <3>2, <3>3, <3>4, <3>5, LineTaken DEF Echoes, Carries, Fails, Unknown
  <2> QED
    BY <2>1, <2>2, <2>4, <2>5, <2>6 DEF TypeInv, hostVars
<1>2. CASE PrintAnswer
  <2>1. Head(answer) \in Tokens /\ answer' \in Seq(Tokens)
    BY <1>2, Taken DEF PrintAnswer, TypeInv
  <2>2. Damage \in Tokens
    BY DEF Damage, Tokens
  <2>3. rx' = Append(rx, Head(answer)) \/ rx' = Append(rx, Damage)
    BY <1>2 DEF PrintAnswer
  <2>4. faults' \in Nat
    BY <1>2 DEF PrintAnswer, Fault, TypeInv
  <2>5. rx' \in Seq(Tokens)
    <3>1. rx \in Seq(Tokens)
      BY DEF TypeInv
    <3> QED
      BY <2>1, <2>2, <2>3, <3>1, Extended
  <2> QED
    BY <1>2, <2>1, <2>4, <2>5, Standing DEF PrintAnswer, TypeInv, hostVars
<1> QED
  BY <1>1, <1>2 DEF Device

LEMMA TypeKeeps ==
  ASSUME TypeInv, [Next]_vars
  PROVE  TypeInv'
<1>1. CASE Host
  BY <1>1, HostTypes
<1>2. CASE Device
  <2>1. UNCHANGED setting
    BY <1>2 DEF Device, TakeLine, PrintAnswer, hostVars
  <2> QED
    BY <1>2, <2>1, DeviceTypes
<1>3. CASE UNCHANGED vars
  BY <1>3, Standing DEF vars, hostVars, deviceVars, TypeInv
<1> QED
  BY <1>1, <1>2, <1>3 DEF Next

LEMMA Initially == Init => ConsoleInv
<1> SUFFICES ASSUME Init PROVE ConsoleInv
  OBVIOUS
<1>1. setting \in Settings /\ Script \in Seq(Kinds) \ {<<>>}
  BY ConsoleAssumption DEF Init, Script, Kinds
<1>2. Len(Script) \in Nat \ {0} /\ 1 \in Cmds
  BY <1>1 DEF Cmds
<1>3. \A S : <<>> \in Seq(S)
  OBVIOUS
<1>4. DOMAIN tx = {} /\ Len(results) = 0
  BY DEF Init
<1>5. TypeInv
  BY <1>1, <1>2, <1>3 DEF Init, TypeInv
<1>6. Sending /\ PersistentAtMostOnce
  BY <1>4, <1>5, Conversation DEF Init, Sending, Sent, PersistentAtMostOnce
<1>7. Written
  <2>1. \A j \in Cmds : ~(j < 1)
    BY <1>2 DEF Cmds
  <2> QED
    BY <2>1 DEF Init, Written
<1>8. Asked
  BY DEF Init, Asked
<1> QED
  BY <1>5, <1>6, <1>7, <1>8 DEF ConsoleInv

LEMMA HostJudges ==
  ASSUME TypeInv, ReadStatus \/ Timeout
  PROVE  /\ pc \in {"prompt", "status"} /\ UNCHANGED <<mark, deviceVars, tx>>
         /\ \/ Retry
            \/ \E r \in Results \ {"ok"} : GiveUp(r)
            \/ NextCommand("lost") /\ Script[cmd] = "persistent"
            \/ NextCommand("ok") /\ (Script[cmd] = "readback" => \E o \in SUBSET Outputs : ReadbackMatches(o))
<1>1. pc \in {"prompt", "status"} /\ UNCHANGED <<mark, deviceVars, tx>>
  BY DEF ReadStatus, Timeout
<1>2. \E o \in SUBSET Outputs : ReportOk(o) \/ ReportLost(o) \/ GiveUp("rc")
  <2>1. CASE ReadStatus
    <3>1. PICK n \in DOMAIN rx :
             \/ ReportLost(seen \cup Collected(n)) \/ ReportOk(seen \cup Collected(n)) \/ GiveUp("rc")
      BY <2>1 DEF ReadStatus
    <3>2. seen \cup Collected(n) \in SUBSET Outputs
      BY CollectedOutputs DEF TypeInv
    <3> QED
      BY <3>1, <3>2
  <2>2. CASE Timeout
    <3>1. seen \cup Collected(Len(rx)) \in SUBSET Outputs
      BY TimeoutOutputs DEF TypeInv
    <3> QED
      BY <2>2, <3>1 DEF Timeout
  <2> QED
    BY <2>1, <2>2
<1>3. PICK o \in SUBSET Outputs : ReportOk(o) \/ ReportLost(o) \/ GiveUp("rc")
  BY <1>2
<1> QED
  BY <1>1, <1>3, Judged

\* A line that is sent: one more at the end of what is on its way.
LEMMA OneMoreLine ==
  ASSUME TypeInv, NEW t \in Texts', SendLine(t), tx \in Seq(Lines')
  PROVE  /\ \E e \in Lines' : e.text \in {t, Damage} /\ tx' = Append(tx, e)
         /\ Len(tx') = Len(tx) + 1 /\ tx'[Len(tx')].text \in {t, Damage}
         /\ \A n \in DOMAIN tx : tx'[n] = tx[n]
         /\ \A n \in DOMAIN tx' : n \in DOMAIN tx \/ n = Len(tx')
<1>1. PICK e \in Lines' : e.text \in {t, Damage} /\ tx' = Append(tx, e)
  BY DEF SendLine, Lines, Texts, Damage
<1> QED
  BY <1>1, Extended

LEMMA SendingKeeps ==
  ASSUME TypeInv, TypeInv', Sending, PersistentAtMostOnce, Next
  PROVE  Sending' /\ PersistentAtMostOnce'
<1>0. /\ Script' = Script /\ Cmds' = Cmds /\ PersistentCmds' = PersistentCmds /\ UNCHANGED setting
      /\ PersistentCmds \subseteq Cmds /\ Cmds = 1..Len(Script) /\ Len(Script) \in Nat
  <2>1. UNCHANGED setting
    BY DEF Next, Host, Device, TakeLine, PrintAnswer, hostVars
  <2> QED
    BY <2>1, Conversation DEF Script, Cmds, PersistentCmds
<1>1. \A i, j : Command(i) = Command(j) => i = j
  BY DEF Command
<1>2. ASSUME NEW t \in Texts', SendLine(t), UNCHANGED <<cmd, ran>>, pc' \notin {"send"}, tx \in Seq(Lines'),
             \A i \in PersistentCmds : Command(i) = t => i = cmd /\ pc = "send"
      PROVE  Sending' /\ PersistentAtMostOnce'
  <2>1. /\ Len(tx') = Len(tx) + 1 /\ tx'[Len(tx')].text \in {t, Damage}
        /\ \A n \in DOMAIN tx : tx'[n] = tx[n]
        /\ \A n \in DOMAIN tx' : n \in DOMAIN tx \/ n = Len(tx')
    BY <1>2, OneMoreLine
  <2>2. \A i : Command(i) # Damage
    BY DEF Command, Damage
  <2>3. ASSUME NEW i \in PersistentCmds
        PROVE  /\ \A n \in DOMAIN tx' : tx'[n].text = Command(i) =>
                     (n \in DOMAIN tx /\ tx[n].text = Command(i)) \/ (n = Len(tx') /\ i = cmd /\ pc = "send")
    BY <1>2, <2>1, <2>2
  <2>4. ASSUME NEW i \in PersistentCmds
        PROVE  /\ i > cmd => ran[i] = 0 /\ ~Sent(i)'
               /\ Sent(i)' => ran[i] = 0
    <3>1. /\ i > cmd \/ (i = cmd /\ pc = "send") => ran[i] = 0 /\ ~Sent(i)
          /\ Sent(i) => ran[i] = 0
      BY DEF Sending
    <3>2. Sent(i)' => Sent(i) \/ (i = cmd /\ pc = "send")
      BY <2>3 DEF Sent, Command
    <3>3. i > cmd => i # cmd
      BY <1>0 DEF TypeInv
    <3> QED
      BY <3>1, <3>2, <3>3
  <2>5. ASSUME NEW i \in PersistentCmds, NEW m \in DOMAIN tx', NEW n \in DOMAIN tx',
               tx'[m].text = Command(i), tx'[n].text = Command(i)
        PROVE  m = n
    <3>1. CASE m \in DOMAIN tx /\ n \in DOMAIN tx
      BY <2>1, <2>5, <3>1 DEF Sending
    <3>2. CASE m = Len(tx') /\ n = Len(tx')
      BY <3>2
    <3>3. CASE m \notin DOMAIN tx \/ n \notin DOMAIN tx
      <4>1. i = cmd /\ pc = "send"
        BY <2>3, <2>5, <3>3
      <4>2. ~Sent(i)
        BY <4>1 DEF Sending
      <4> QED
        BY <2>3, <2>5, <4>2 DEF Sent
    <3> QED
      BY <2>1, <3>1, <3>2, <3>3
  <2> QED
    BY <1>0, <1>2, <2>4, <2>5 DEF Sending, Sent, PersistentAtMostOnce, Command
<1>3. CASE SendCommand
  <2>1. Command(cmd) \in Texts' /\ SendLine(Command(cmd)) /\ pc' = "prompt" /\ UNCHANGED <<cmd, ran, mark>>
    BY <1>0, <1>3 DEF SendCommand, TypeInv, Texts, Command, deviceVars
  <2>2. tx \in Seq(Lines')
    BY <1>0, <2>1, Standing DEF TypeInv
  <2> QED
    BY <1>1, <1>2, <1>3, <2>1, <2>2 DEF SendCommand
<1>4. CASE ReadPrompt
  BY <1>0, <1>4 DEF ReadPrompt, deviceVars, Sending, Sent, PersistentAtMostOnce
<1>5. CASE SendStatus
  <2>1. /\ SendLine(Echo(mark')) /\ pc' = "status" /\ mark' = mark + 1
        /\ UNCHANGED <<cmd, ran>>
    BY <1>5 DEF SendStatus, Echo, deviceVars
  <2>2. mark' \in Nat /\ mark <= mark' /\ mark' \in 1..mark'
    BY <2>1 DEF TypeInv
  <2>3. Echo(mark') \in Texts'
    BY <2>2 DEF Texts, Echo
  <2>4. tx \in Seq(Lines')
    <3>1. ran' \in [Cmds -> Nat] /\ \A i \in Cmds : ran[i] <= ran'[i]
      BY <2>1 DEF TypeInv
    <3> QED
      BY <1>0, <2>2, <3>1, Growing
  <2>5. \A i : Command(i) # Echo(mark')
    BY DEF Command, Echo
  <2> QED
    BY <1>2, <2>1, <2>3, <2>4, <2>5
<1>6. CASE ReadStatus \/ Timeout
  <2>1. UNCHANGED <<ran, tx>> /\ pc # "send"
    BY <1>6, HostJudges DEF deviceVars
  <2>2. \/ pc' = "send" /\ cmd' = cmd /\ Script[cmd] # "persistent"
        \/ pc' = "done" /\ cmd' = cmd
        \/ pc' = "send" /\ cmd' = cmd + 1
    BY <1>6, HostJudges DEF Retry, NoiseRetrySafe, GiveUp, NextCommand
  <2>3. \A i \in PersistentCmds : i > cmd' \/ (i = cmd' /\ pc' = "send") => i > cmd
    BY <1>0, <2>2 DEF TypeInv, PersistentCmds, Cmds
  <2> QED
    BY <1>0, <2>1, <2>3 DEF Sending, Sent, PersistentAtMostOnce
<1>7. CASE TakeLine
  <2>1. /\ tx # <<>> /\ tx' = Tail(tx) /\ UNCHANGED <<pc, cmd>>
        /\ \/ ran' = ran
           \/ \E i \in Cmds : tx[1].text = Command(i) /\ ran' = [ran EXCEPT ![i] = @ + 1]
    BY <1>0, <1>7, LineTaken DEF hostVars, Echoes, Carries, Fails, Unknown
  <2>2. /\ \A n \in DOMAIN tx' : n + 1 \in DOMAIN tx /\ tx'[n] = tx[n + 1] /\ n + 1 # 1
        /\ 1 \in DOMAIN tx
    BY <2>1, Taken DEF TypeInv
  <2>3. \A i \in PersistentCmds : Sent(i)' => Sent(i)
    BY <2>2 DEF Sent, Command
  <2>4. \A i \in PersistentCmds : \A m, n \in DOMAIN tx' :
          tx'[m].text = Command(i) /\ tx'[n].text = Command(i) => m = n
    <3> TAKE i \in PersistentCmds
    <3> TAKE m, n \in DOMAIN tx'
    <3>1. tx[m + 1].text = Command(i) /\ tx[n + 1].text = Command(i) => m + 1 = n + 1
      BY <2>2 DEF Sending
    <3>2. m \in Nat /\ n \in Nat
      BY DEF TypeInv
    <3> QED
      BY <2>2, <3>1, <3>2
  <2>5. CASE ran' = ran
    BY <1>0, <2>1, <2>3, <2>4, <2>5 DEF Sending, PersistentAtMostOnce, Command
  <2>6. ASSUME NEW j \in Cmds, tx[1].text = Command(j), ran' = [ran EXCEPT ![j] = @ + 1]
        PROVE  Sending' /\ PersistentAtMostOnce'
    <3>1. ASSUME j \in PersistentCmds
          PROVE  ran[j] = 0 /\ ~Sent(j)' /\ ~(j > cmd \/ (j = cmd /\ pc = "send"))
      <4>1. Sent(j)
        BY <2>2, <2>6 DEF Sent
      <4>2. ~Sent(j)'
        BY <2>2, <2>6, <3>1 DEF Sent, Sending, Command
      <4> QED
        BY <3>1, <4>1, <4>2 DEF Sending
    <3>2. \A i \in PersistentCmds : IF i = j THEN ran'[i] = ran[i] + 1 ELSE ran'[i] = ran[i]
      BY <1>0, <2>6 DEF TypeInv
    <3> QED
      BY <1>0, <2>1, <2>3, <2>4, <3>1, <3>2 DEF Sending, PersistentAtMostOnce, Command
  <2> QED
    BY <2>1, <2>5, <2>6
<1>8. CASE PrintAnswer
  BY <1>0, <1>8 DEF PrintAnswer, hostVars, Sending, Sent, PersistentAtMostOnce
<1> QED
  BY <1>3, <1>4, <1>5, <1>6, <1>7, <1>8 DEF Next, Host, Device

LEMMA WrittenKeeps ==
  ASSUME TypeInv, TypeInv', Written, Next
  PROVE  Written'
<1>0. /\ Script' = Script /\ Cmds' = Cmds /\ PersistentCmds' = PersistentCmds /\ UNCHANGED setting
      /\ PersistentCmds \subseteq Cmds /\ Cmds = 1..Len(Script) /\ Len(Script) \in Nat
  <2>1. UNCHANGED setting
    BY DEF Next, Host, Device, TakeLine, PrintAnswer, hostVars
  <2> QED
    BY <2>1, Conversation DEF Script, Cmds, PersistentCmds
<1>1. \A i \in Cmds : ran[i] <= ran'[i]
  <2>1. \/ ran' = ran
        \/ \E i \in Cmds : ran' = [ran EXCEPT ![i] = @ + 1]
    <3>1. CASE Host
      BY <3>1, HostJudges DEF Host, SendCommand, ReadPrompt, SendStatus, deviceVars
    <3>2. CASE TakeLine
      BY <1>0, <3>2, LineTaken DEF Echoes, Carries, Fails, Unknown
    <3>3. CASE PrintAnswer
      BY <3>3 DEF PrintAnswer
    <3> QED
      BY <3>1, <3>2, <3>3 DEF Next, Device
  <2>2. ran \in [Cmds -> Nat]
    BY DEF TypeInv
  <2> QED
    BY <2>1, <2>2
<1>2. \A i \in Cmds : ran[i] > 0 => ran'[i] > 0
  <2>1. ran \in [Cmds -> Nat] /\ ran' \in [Cmds -> Nat]
    BY <1>0 DEF TypeInv
  <2> QED
    BY <1>1, <2>1
<1>3. CASE UNCHANGED verdict /\ UNCHANGED cmd /\ (pc = "done" => pc' = "done")
  BY <1>0, <1>2, <1>3 DEF Written
<1>4. CASE ReadStatus \/ Timeout
  <2>1. pc # "done" /\ verdict # "success"
    BY <1>4, HostJudges DEF Written
  <2>2. CASE Retry
    BY <1>0, <1>2, <2>1, <2>2 DEF Retry, Written
  <2>3. CASE \E r \in Results \ {"ok"} : GiveUp(r)
    BY <1>0, <1>2, <2>1, <2>3 DEF GiveUp, Written
  <2>4. ASSUME NEW r, NextCommand(r),
               Script[cmd] = "readback" => \A i \in PersistentCmds : i < cmd => ran[i] > 0
        PROVE  Written'
    <3>1. \A j \in Cmds : (j < cmd' \/ verdict' = "success") => j < cmd \/ j = cmd
      <4>1. (cmd' = cmd + 1 /\ verdict' = verdict) \/ (cmd = Len(Script) /\ cmd' = cmd)
        BY <2>4 DEF NextCommand
      <4> QED
        BY <1>0, <2>1, <4>1 DEF TypeInv
    <3>2. verdict' = "success" => cmd' = Len(Script) /\ pc' = "done"
      BY <2>1, <2>4 DEF NextCommand
    <3> QED
      BY <1>0, <1>2, <2>4, <3>1, <3>2 DEF Written
  <2>5. ASSUME NEW o \in SUBSET Outputs, ReadbackMatches(o)
        PROVE  \A i \in PersistentCmds : i < cmd => ran[i] > 0
    BY <2>5 DEF ReadbackMatches, Outputs, Flash
  <2> QED
    BY <1>4, <2>2, <2>3, <2>4, <2>5, HostJudges
<1>5. CASE SendCommand \/ ReadPrompt \/ SendStatus
  BY <1>3, <1>5 DEF SendCommand, ReadPrompt, SendStatus
<1>6. CASE Device
  BY <1>3, <1>6 DEF Device, TakeLine, PrintAnswer, hostVars
<1> QED
  BY <1>4, <1>5, <1>6 DEF Next, Host

LEMMA AskedKeeps ==
  ASSUME TypeInv, TypeInv', Asked, Next
  PROVE  Asked'
<1>1. ASSUME SendStatus, UNCHANGED setting
      PROVE  Asked'
  <2>1. /\ SendLine(Echo(mark')) /\ mark' = mark + 1 /\ rx' = <<>> /\ UNCHANGED <<typed, answer, ran>>
    BY <1>1 DEF SendStatus, Echo, deviceVars
  <2>2. mark' \in Nat /\ mark <= mark' /\ mark' \in 1..mark' /\ mark' \notin 1..mark
    BY <2>1 DEF TypeInv
  <2>3. Echo(mark') \in Texts' /\ Echo(mark') \notin Texts /\ Damage # Echo(mark')
    BY <2>2 DEF Texts, Echo, Damage
  <2>4. tx \in Seq(Lines')
    <3>1. ran' \in [Cmds -> Nat] /\ \A i \in Cmds : ran[i] <= ran'[i]
      <4>1. ran \in [Cmds -> Nat] /\ ran' = ran
        BY <2>1 DEF TypeInv
      <4> QED
        BY <4>1
    <3> QED
      BY <1>1, <2>2, <3>1, Growing
  <2>5. \A n \in DOMAIN tx' : n \in DOMAIN tx \/ n = Len(tx')
    BY <2>1, <2>3, <2>4, OneMoreLine
  <2>6. \A n \in DOMAIN tx : tx'[n] = tx[n] /\ tx[n].text \in Texts
    <3>1. \A n \in DOMAIN tx : tx[n] \in Lines
      BY DEF TypeInv
    <3>2. \A e \in Lines : e.text \in Texts
      BY DEF Lines
    <3> QED
      BY <2>1, <2>3, <2>4, <3>1, <3>2, OneMoreLine
  <2>7. \A n \in DOMAIN tx' : tx'[n].text = Echo(mark') => n = Len(tx')
    BY <2>3, <2>5, <2>6
  <2>8. Echo(mark') \notin ToSet(typed)
    BY <2>3 DEF ToSet, TypeInv
  <2>9. \A n \in DOMAIN answer : ~(answer[n].is = "marker" /\ answer[n].mark = mark')
    <3>1. \A x \in Tokens : x.is = "marker" => x.mark \in 1..mark
      BY DEF Tokens, Outputs
    <3> QED
      BY <2>2, <3>1 DEF TypeInv
  <2>10. DOMAIN rx' = {} /\ ToSet(rx') = {}
    BY <2>1 DEF ToSet
  <2>11. ToSet(answer') = {answer[n] : n \in DOMAIN answer}
    BY <2>1 DEF ToSet
  <2> QED
    BY <2>1, <2>7, <2>8, <2>9, <2>10, <2>11 DEF Asked, IsMine, Echo
<1>2. ASSUME TakeLine, UNCHANGED setting, pc = "status"
      PROVE  Asked'
  <2>1. /\ tx # <<>> /\ answer = <<>> /\ tx' = Tail(tx) /\ UNCHANGED <<mark, rx, pc>>
    BY <1>2, LineTaken DEF hostVars
  <2>2. /\ Len(tx) \in Nat \ {0} /\ Len(tx') = Len(tx) - 1 /\ 1 \in DOMAIN tx
        /\ \A n \in DOMAIN tx' : n + 1 \in DOMAIN tx /\ tx'[n] = tx[n + 1] /\ n \in Nat
    BY <2>1, Taken DEF TypeInv
  <2>3. /\ \A n \in DOMAIN tx' : tx'[n].text = Echo(mark) => n = Len(tx')
        /\ tx[1].text = Echo(mark) => tx' = <<>>
    <3>1. \A n \in DOMAIN tx : tx[n].text = Echo(mark) => n = Len(tx)
      BY <1>2 DEF Asked
    <3>2. \A n \in DOMAIN tx' : tx'[n].text = Echo(mark) => n = Len(tx')
      BY <2>2, <3>1
    <3>3. tx[1].text = Echo(mark) => Len(tx') = 0
      BY <2>2, <3>1
    <3> QED
      BY <3>2, <3>3 DEF TypeInv
  <2>4. Echo(mark) \notin ToSet(typed) /\ \A n \in DOMAIN rx : ~IsMine(rx[n])
    BY <1>2, <2>1 DEF Asked, ToSet
  <2>5. ToSet(rx') = {rx[n] : n \in DOMAIN rx} /\ \A x : IsMine(x)' <=> IsMine(x)
    BY <2>1 DEF ToSet, IsMine
  <2>6. Echo(mark') = Echo(mark)
    BY <2>1 DEF Echo
  <2>7. CASE typed' = Append(typed, tx[1].text) /\ UNCHANGED answer
    <3>1. tx[1].text \in Texts /\ typed \in Seq(Texts)
      <4>1. tx[1] \in Lines /\ typed \in Seq(Texts)
        BY <2>2 DEF TypeInv
      <4> QED
        BY <4>1 DEF Lines
    <3>2. Echo(mark) \in ToSet(typed') => tx' = <<>>
      BY <2>3, <2>4, <2>7, <3>1, Extended
    <3>3. DOMAIN answer' = {} /\ ToSet(answer') = {}
      BY <2>1, <2>7 DEF ToSet
    <3> QED
      BY <2>1, <2>3, <2>4, <2>5, <2>6, <3>2, <3>3 DEF Asked, IsMine
  <2>8. ASSUME typed' = <<>>, NEW k \in 1..mark, NEW r, answer' = <<Marker(k, r), Prompt>>,
               k = mark => tx' = <<>>
        PROVE  Asked'
    <3>1. ToSet(typed') = {}
      BY <2>8 DEF ToSet
    <3>2. ToSet(answer') = {Marker(k, r), Prompt} /\ DOMAIN answer' = {1, 2} /\ Len(answer') = 2
          /\ answer'[1] = Marker(k, r) /\ answer'[2] = Prompt
      BY <2>8 DEF ToSet
    <3>3. (IsMine(Marker(k, r)) <=> k = mark) /\ ~IsMine(Prompt)
      BY DEF IsMine, Marker, Prompt
    <3> QED
      BY <2>1, <2>3, <2>4, <2>5, <2>6, <2>8, <3>1, <3>2, <3>3 DEF Asked, IsMine
  <2>9. ASSUME typed' = <<>>, \A x \in ToSet(answer') : ~IsMine(x)
        PROVE  Asked'
    <3>1. ToSet(typed') = {} /\ \A n \in DOMAIN answer' : answer'[n] \in ToSet(answer')
      BY <2>9 DEF ToSet
    <3> QED
      BY <2>1, <2>3, <2>4, <2>5, <2>6, <2>9, <3>1 DEF Asked, IsMine
  <2>10. \A i, s : ~IsMine(Output(i, s)) /\ ~IsMine(Prompt)
    BY DEF IsMine, Output, Prompt
  <2>11. \A x, y : ToSet(<<x>>) = {x} /\ ToSet(<<x, y>>) = {x, y}
    BY DEF ToSet
  <2>12. ASSUME NEW k \in 1..mark, typed' = <<>>, Echoes(k),
                Echo(k) = (IF typed = <<>> THEN tx[1].text ELSE typed[1])
         PROVE  Asked'
    <3>1. k = mark => tx' = <<>>
      <4>1. typed # <<>> => typed[1] \in ToSet(typed)
        BY Taken DEF ToSet, TypeInv
      <4> QED
        BY <2>3, <2>4, <2>12, <4>1
    <3> QED
      BY <2>8, <2>12, <3>1 DEF Echoes
  <2>13. \/ typed' = Append(typed, tx[1].text) /\ UNCHANGED answer
         \/ typed' = <<>> /\ \E k \in 1..mark : /\ Echo(k) = (IF typed = <<>> THEN tx[1].text ELSE typed[1])
                                               /\ Echoes(k)
         \/ typed' = <<>> /\ \E i, s : answer' = <<Output(i, s), Prompt>> \/ answer' = <<Prompt>>
    BY <1>2, LineTaken DEF Carries, Fails, Unknown
  <2> QED
    BY <2>7, <2>9, <2>10, <2>11, <2>12, <2>13
<1>3. ASSUME PrintAnswer, pc = "status"
      PROVE  Asked'
  <2>1. /\ answer # <<>> /\ answer' = Tail(answer) /\ UNCHANGED <<tx, typed, mark, pc>>
        /\ \E x \in {answer[1], Damage} : rx' = Append(rx, x)
    BY <1>3, Taken DEF PrintAnswer, TypeInv, hostVars
  <2>2. PICK x \in {answer[1], Damage} : rx' = Append(rx, x)
    BY <2>1
  <2>3. /\ Len(answer) \in Nat \ {0} /\ Len(answer') = Len(answer) - 1 /\ 1 \in DOMAIN answer
        /\ \A n \in DOMAIN answer' : n + 1 \in DOMAIN answer /\ answer'[n] = answer[n + 1] /\ n \in Nat \ {0}
    BY <2>1, Taken DEF TypeInv
  <2>4. x \in Tokens
    BY <2>2, <2>3 DEF TypeInv, Damage, Tokens
  <2>5. /\ Len(rx') = Len(rx) + 1 /\ rx'[Len(rx) + 1] = x /\ \A n \in DOMAIN rx : rx'[n] = rx[n]
        /\ ToSet(rx') = ToSet(rx) \cup {x} /\ DOMAIN rx = 1..Len(rx) /\ DOMAIN rx' = 1..Len(rx')
        /\ Len(rx) \in Nat
    <3>1. rx \in Seq(Tokens)
      BY DEF TypeInv
    <3>2. rx' \in Seq(Tokens)
      BY <2>2, <2>4, <3>1, Extended
    <3> QED
      BY <2>2, <2>4, <3>1, <3>2, Extended
  <2>6. ~IsMine(Damage) /\ (IsMine(x) => x = answer[1])
    BY <2>2 DEF IsMine, Damage
  <2>7. \A n \in DOMAIN answer' : ~IsMine(answer'[n])
    <3>1. \A n \in DOMAIN answer : IsMine(answer[n]) => n = 1
      BY <1>3 DEF Asked
    <3> QED
      BY <2>3, <3>1
  <2>8. ToSet(answer') = {answer'[n] : n \in DOMAIN answer'} /\ answer[1] \in ToSet(answer)
    BY <2>3 DEF ToSet
  <2>9. (\E y \in ToSet(rx') : IsMine(y)) =>
           /\ \E y \in ToSet(answer) \cup ToSet(rx) : IsMine(y)
           /\ Len(answer') <= 1
    <3>1. (\E y \in ToSet(rx) : IsMine(y)) => Len(answer) <= 1
      BY <1>3 DEF Asked
    <3>2. IsMine(answer[1]) => Len(answer) = 2
      BY <1>3, <2>3 DEF Asked
    <3> QED
      BY <2>3, <2>5, <2>6, <2>8, <3>1, <3>2
  <2>10. ASSUME NEW m \in DOMAIN rx', NEW n \in DOMAIN rx', IsMine(rx'[m]), m < n
         PROVE  answer' = <<>>
    <3>1. m \in DOMAIN rx
      BY <2>5, <2>10
    <3>2. IsMine(rx[m]) /\ rx[m] \in ToSet(rx)
      BY <2>5, <2>10, <3>1 DEF ToSet
    <3>3. Len(answer) <= 1
      BY <1>3, <3>2 DEF Asked
    <3>4. Len(answer') = 0
      BY <2>3, <3>3
    <3>5. answer \in Seq(Tokens) /\ answer' \in Seq(Tokens)
      BY <2>1, Taken DEF TypeInv
    <3> QED
      BY <3>4, <3>5
  <2>11. \A y : IsMine(y)' <=> IsMine(y)
    BY <2>1 DEF IsMine
  <2>12. (\E y \in ToSet(answer) \cup ToSet(rx) : IsMine(y)) => tx = <<>> /\ typed = <<>>
    BY <1>3 DEF Asked
  <2>13. \A m, n \in DOMAIN rx' : IsMine(rx'[m]) /\ rx'[n] = Prompt /\ m < n => answer' = <<>>
    BY <2>10
  <2>14. /\ \A n \in DOMAIN tx : tx[n].text = Echo(mark) => n = Len(tx)
         /\ Echo(mark) \in ToSet(typed) => tx = <<>>
    BY <1>3 DEF Asked
  <2>15. (\E y \in ToSet(answer') \cup ToSet(rx') : IsMine(y)) => tx' = <<>> /\ typed' = <<>>
    BY <2>1, <2>7, <2>8, <2>9, <2>12
  <2> QED
    BY <2>1, <2>7, <2>8, <2>9, <2>13, <2>14, <2>15 DEF Asked, IsMine, Echo
<1>4. CASE pc' # "status"
  BY <1>4 DEF Asked
<1>5. /\ SendCommand \/ ReadPrompt \/ ReadStatus \/ Timeout => pc' # "status"
      /\ Device => pc' = pc /\ UNCHANGED setting
  BY HostJudges DEF SendCommand, ReadPrompt, Retry, GiveUp, NextCommand, Device, TakeLine, PrintAnswer, hostVars
<1> QED
  BY <1>1, <1>2, <1>3, <1>4, <1>5 DEF Next, Host, Device

LEMMA ConsoleKeeps ==
  ASSUME ConsoleInv, [Next]_vars
  PROVE  ConsoleInv'
<1> USE DEF ConsoleInv
<1>1. TypeInv'
  BY TypeKeeps
<1>2. CASE Next
  BY <1>1, <1>2, SendingKeeps, WrittenKeeps, AskedKeeps
<1>3. CASE UNCHANGED vars
  <2>1. /\ Script' = Script /\ Cmds' = Cmds /\ PersistentCmds' = PersistentCmds
        /\ \A x : (IsMine(x)' <=> IsMine(x)) /\ (Sent(x)' <=> Sent(x)) /\ Command(x)' = Command(x)
        /\ Echo(mark)' = Echo(mark) /\ Prompt' = Prompt
    BY <1>3 DEF vars, hostVars, deviceVars, Script, Cmds, PersistentCmds, IsMine, Sent, Command, Echo, Prompt
  <2>2. Sending' /\ PersistentAtMostOnce' /\ Written'
    BY <1>3, <2>1 DEF vars, hostVars, deviceVars, Sending, PersistentAtMostOnce, Written
  <2>3. Asked'
    BY <1>3, <2>1 DEF vars, hostVars, deviceVars, Asked
  <2> QED
    BY <1>1, <2>2, <2>3
<1> QED
  BY <1>2, <1>3

\* A command that changes flash is carried out at most once, however many lines and answers are
\* lost or late (ubootPersistentOnce, ubootNoiseRetrySafe).
THEOREM AlwaysOnce == Spec => []PersistentAtMostOnce
<1>1. Init => ConsoleInv
  BY Initially
<1>2. ConsoleInv /\ [Next]_vars => ConsoleInv'
  BY ConsoleKeeps
<1>3. ConsoleInv => PersistentAtMostOnce
  BY DEF ConsoleInv
<1> QED
  BY <1>1, <1>2, <1>3, PTL DEF Spec

\* A script that ends well has carried out every change of flash that a readback follows, exactly
\* once (ubootPersistentOnce, readbackCRC).
THEOREM AlwaysWritten == Spec => []SuccessMeansWritten
<1>1. Init => ConsoleInv
  BY Initially
<1>2. ConsoleInv /\ [Next]_vars => ConsoleInv'
  BY ConsoleKeeps
<1>3. ConsoleInv => SuccessMeansWritten
  <2> SUFFICES ASSUME ConsoleInv, verdict = "success", NEW i \in PersistentCmds,
                      NEW j \in Cmds, j > i, Script[j] = "readback"
               PROVE  ran[i] = 1
    BY DEF SuccessMeansWritten
  <2>1. ran[i] > 0 /\ ran[i] <= 1
    <3>1. i < j
      BY Conversation DEF ConsoleInv
    <3> QED
      BY <3>1 DEF ConsoleInv, Written, PersistentAtMostOnce
  <2>2. ran[i] \in Nat
    BY Conversation DEF ConsoleInv, TypeInv
  <2> QED
    BY <2>1, <2>2
<1> QED
  BY <1>1, <1>2, <1>3, PTL DEF Spec

==============================================================================
