-------------------------- MODULE StopControlProofs --------------------------
(***************************************************************************)
(* What a press of STOP does, for every operation, every number of         *)
(* operations and every set of goroutines that press.                      *)
(*                                                                         *)
(* The invariant follows the request from the press to the place that      *)
(* honours it: while an operation runs, a raised flag is one of its own    *)
(* presses (OwnFlag); the mode is "now" wherever the operation's steps say *)
(* so (ModeOfPhase); and no place that looks for STOP lies between an      *)
(* accepted press and the step the core has come to (NotPassed).           *)
(***************************************************************************)
EXTENDS StopControl, TLAPS

Running == pc # "idle" /\ ~ending

TypeOK ==
  /\ pc \in {"idle", "set", "emit", "step", "readMode", "send", "leave"}
  /\ op \in Nat /\ step \in 1..LastStep /\ want \in Modes /\ ending \in BOOLEAN
  /\ results \in Seq({"success", "failed", "cancelled"})
  /\ stopFlag \in BOOLEAN /\ cancel \in States /\ sentAfter \in Nat
  /\ accepted \subseteq [op : Nat, step : 1..LastStep, ending : BOOLEAN]

\* Where the core is says which operation it runs.
Place ==
  /\ pc = "idle" => op = 0
  /\ pc # "idle" => op = IF ending THEN Len(results) ELSE Current
  /\ pc \in {"step", "readMode", "send"} => ~ending
  /\ pc = "leave" => ending
  /\ pc \in {"readMode", "send"} =>
       step < LastStep /\ Script[step] \in {"command", "optional", "persistent"}

OwnFlag ==
  /\ \A a \in accepted : a.op <= IF Running THEN Current ELSE Len(results)
  /\ Running /\ stopFlag => AcceptedIn(op) # {}
  /\ pc = "readMode" => stopFlag

OneMore ==
  /\ sentAfter <= 1
  /\ sentAfter = 1 => stopFlag
  /\ sentAfter = 1 /\ pc = "send" => cancel.mode # "now"

\* Step i lies in a phase in which STOP acts at once.
NowAt(i) ==
  \E j \in 0..(i - 1) :
    /\ j = 0 \/ Script[j] = "now"
    /\ \A k \in (j + 1)..(i - 1) : Script[k] \notin {"at", "blocked"}

Mode == IF pc = "set" THEN want ELSE cancel.mode

ModeOfPhase == Running /\ step < LastStep /\ NowAt(step) => Mode = "now"

NotPassed ==
  Running => \A a \in AcceptedIn(op) :
    ~a.ending =>
      /\ stopFlag /\ a.step <= step
      /\ \A i \in (a.step + 1)..(step - 1) : ~LooksForStop(i)
      /\ pc = "send" /\ a.step < step => ~LooksForStop(step)

StopInv ==
  /\ TypeOK /\ Place /\ OwnFlag /\ OneMore /\ ModeOfPhase /\ NotPassed
  /\ CancelledByOwnPress /\ AcceptedIsHonoured

-----------------------------------------------------------------------------
\* A phase is "now" from its first step to the one before the next phase.
LEMMA PhaseGoesOn ==
  ASSUME NEW i \in 1..Len(Script), NowAt(i + 1)
  PROVE  Script[i] = "now" \/ (Script[i] \notin {"at", "blocked"} /\ NowAt(i))
<1>0. Len(Script) \in Nat
  BY StopAssumption
<1>1. PICK j \in 0..i : /\ j = 0 \/ Script[j] = "now"
                        /\ \A k \in (j + 1)..i : Script[k] \notin {"at", "blocked"}
  BY <1>0 DEF NowAt
<1>2. CASE j = i
  BY <1>0, <1>1, <1>2
<1>3. CASE j # i
  <2>1. j \in 0..(i - 1) /\ i \in (j + 1)..i /\ (j + 1)..(i - 1) \subseteq (j + 1)..i
    BY <1>0, <1>3
  <2> QED BY <1>1, <2>1 DEF NowAt
<1> QED BY <1>2, <1>3

\* Where the operation looks for STOP, in terms of the phases.
LEMMA LooksInPhase ==
  ASSUME NEW i \in 1..Len(Script), LooksForStop(i)
  PROVE  Script[i] = "checkpoint" \/ (Script[i] = "command" /\ NowAt(i))
BY DEF LooksForStop, NowAt

LEMMA Initially == Init => StopInv
<1> SUFFICES ASSUME Init PROVE StopInv
  OBVIOUS
<1>0. Len(Script) \in Nat
  BY StopAssumption
<1>1. TypeOK
  <2>1. results \in Seq({"success", "failed", "cancelled"})
    BY DEF Init
  <2>2. step \in 1..LastStep
    BY <1>0 DEF Init, LastStep
  <2> QED BY <2>1, <2>2 DEF Init, TypeOK, Modes, States
<1> QED BY <1>1 DEF Init, StopInv, Place, OwnFlag, OneMore, ModeOfPhase, NotPassed, Running,
     CancelledByOwnPress, AcceptedIsHonoured, Current

\* The steps that only move the core leave what was decided alone.
LEMMA DecidedStays ==
  ASSUME CancelledByOwnPress, AcceptedIsHonoured, UNCHANGED <<results, accepted>>
  PROVE  CancelledByOwnPress' /\ AcceptedIsHonoured'
BY DEF CancelledByOwnPress, AcceptedIsHonoured, AcceptedIn, LooksForStop

\* The core goes on to the next step, unless that passes over a press.
LEMMA AdvanceKeeps ==
  ASSUME TypeOK, Place, OwnFlag, ModeOfPhase, NotPassed,
         pc \in {"step", "readMode", "send"}, step < LastStep, Advance,
         UNCHANGED <<stopFlag, cancel, accepted>>,
         \/ /\ pc' = "step" /\ want' = want
            /\ Script[step] \in {"command", "optional", "persistent", "checkpoint"}
         \/ /\ pc' = "set" /\ want' = ModeOf(Script[step])
            /\ Script[step] \in {"now", "at", "blocked"},
         \A a \in AcceptedIn(op) : ~a.ending /\ a.step < step => ~LooksForStop(step)
  PROVE  (step \in 1..LastStep)' /\ (want \in Modes)' /\ Place' /\ OwnFlag' /\ ModeOfPhase' /\ NotPassed'
<1>0. /\ Len(Script) \in Nat /\ Running /\ Running' /\ step \in 1..Len(Script) /\ step' = step + 1
      /\ op' = op /\ ending' = ending /\ results' = results
      /\ \A a \in accepted : a.step \in 1..LastStep
  BY StopAssumption DEF TypeOK, LastStep, Advance, Place, Running
<1>1. (step \in 1..LastStep)' /\ (want \in Modes)'
  BY <1>0 DEF LastStep, TypeOK, ModeOf, Modes
<1>2. Place' /\ OwnFlag'
  BY <1>0 DEF Place, OwnFlag, Running, Current, AcceptedIn
<1>3. ModeOfPhase'
  <2> SUFFICES ASSUME (step < LastStep /\ NowAt(step))' PROVE Mode' = "now"
    BY DEF ModeOfPhase
  <2>1. NowAt(step + 1)
    BY <1>0 DEF NowAt
  <2>2. Script[step] = "now" \/ (Script[step] \notin {"at", "blocked"} /\ NowAt(step))
    BY <1>0, <2>1, PhaseGoesOn
  <2>3. CASE Script[step] = "now"
    BY <2>3 DEF Mode, ModeOf
  <2>4. CASE Script[step] # "now"
    BY <1>0, <2>2, <2>4 DEF Mode, ModeOfPhase
  <2> QED BY <2>3, <2>4
<1>4. NotPassed'
  <2> SUFFICES ASSUME NEW a \in AcceptedIn(op), ~a.ending
               PROVE  /\ stopFlag /\ a.step <= step + 1
                      /\ \A i \in (a.step + 1)..step : ~LooksForStop(i)
    BY <1>0 DEF NotPassed, AcceptedIn, LooksForStop
  <2>1. /\ stopFlag /\ a.step <= step /\ a.step \in 1..LastStep
        /\ \A i \in (a.step + 1)..(step - 1) : ~LooksForStop(i)
    BY <1>0 DEF NotPassed, AcceptedIn
  <2>2. \A i \in (a.step + 1)..step : i \in (a.step + 1)..(step - 1) \/ (i = step /\ a.step < step)
    BY <1>0, <2>1 DEF LastStep
  <2>3. a.step <= step + 1
    BY <1>0, <2>1 DEF LastStep
  <2> QED BY <2>1, <2>2, <2>3
<1> QED BY <1>1, <1>2, <1>3, <1>4

\* The operation ends, cancelled only with the flag up and well only after its last step.
LEMMA FinishKeeps ==
  ASSUME TypeOK, Place, OwnFlag, NotPassed, CancelledByOwnPress, AcceptedIsHonoured,
         pc \in {"step", "readMode", "send"},
         NEW r \in {"success", "failed", "cancelled"}, Finish(r),
         UNCHANGED <<stopFlag, cancel, accepted>>,
         r = "cancelled" => stopFlag, r = "success" => step = LastStep
  PROVE  /\ (results \in Seq({"success", "failed", "cancelled"}))' /\ (want \in Modes)'
         /\ Place' /\ OwnFlag' /\ ModeOfPhase' /\ NotPassed'
         /\ CancelledByOwnPress' /\ AcceptedIsHonoured'
<1>0. /\ Running /\ ~Running' /\ op = Current /\ op' = op /\ step' = step /\ pc' = "set" /\ want' = "now"
      /\ ending' = TRUE /\ Len(results) \in Nat /\ Len(Script) \in Nat
  BY StopAssumption DEF TypeOK, Place, Finish, Running
<1>1. /\ results' \in Seq({"success", "failed", "cancelled"}) /\ Len(results') = op
      /\ DOMAIN results' = DOMAIN results \cup {op} /\ op \notin DOMAIN results
      /\ results'[op] = r /\ \A n \in DOMAIN results : results'[n] = results[n]
  BY <1>0 DEF TypeOK, Finish, Current
<1>2. Place' /\ OwnFlag' /\ ModeOfPhase' /\ NotPassed'
  BY <1>0, <1>1 DEF Place, OwnFlag, ModeOfPhase, NotPassed, Running
<1>3. CancelledByOwnPress'
  BY <1>0, <1>1 DEF CancelledByOwnPress, OwnFlag, AcceptedIn
<1>4. AcceptedIsHonoured'
  <2> SUFFICES ASSUME NEW n \in DOMAIN results', results'[n] = "success",
                      NEW a \in AcceptedIn(n), ~a.ending, NEW i \in (a.step + 1)..Len(Script)
               PROVE  ~LooksForStop(i)
    BY DEF AcceptedIsHonoured, AcceptedIn, LooksForStop
  <2>1. CASE n = op
    BY <1>0, <1>1, <2>1 DEF NotPassed, LastStep
  <2>2. CASE n # op
    BY <1>1, <2>2 DEF AcceptedIsHonoured
  <2> QED BY <2>1, <2>2
<1> QED BY <1>0, <1>1, <1>2, <1>3, <1>4 DEF Modes

-----------------------------------------------------------------------------
LEMMA BeginKeeps == StopInv /\ Begin => StopInv'
<1> SUFFICES ASSUME StopInv, Begin PROVE StopInv'
  OBVIOUS
<1> USE DEF StopInv
<1>0. /\ Len(Script) \in Nat /\ Len(results) \in Nat /\ op' = Current /\ Running' /\ ~Running
      /\ UNCHANGED <<results, accepted, cancel>> /\ stopFlag' = FALSE /\ AcceptedIn(op') = {}
  BY StopAssumption DEF Begin, TypeOK, Running, OwnFlag, AcceptedIn, Current
<1>1. TypeOK'
  <2>1. step' \in 1..LastStep /\ op' \in Nat
    BY <1>0 DEF Begin, LastStep, Current
  <2> QED BY <2>1 DEF Begin, TypeOK, Modes, States
<1>2. Place' /\ OneMore'
  BY <1>0 DEF Begin, Place, OneMore, Current, Running
<1>3. OwnFlag'
  <2>1. \A a \in accepted : a.op \in Nat /\ a.op <= Len(results)
    BY <1>0 DEF OwnFlag, TypeOK
  <2> QED BY <1>0, <2>1 DEF Begin, OwnFlag, Current
<1>5. ModeOfPhase'
  BY <1>0 DEF Begin, ModeOfPhase, Mode, Running, LastStep
<1>4. NotPassed'
  BY <1>0 DEF NotPassed, AcceptedIn
<1> QED BY <1>0, <1>1, <1>2, <1>3, <1>4, <1>5, DecidedStays

LEMMA SetCancelKeeps == StopInv /\ SetCancel => StopInv'
<1> SUFFICES ASSUME StopInv, SetCancel PROVE StopInv'
  OBVIOUS
<1> USE DEF StopInv, SetCancel
<1>1. TypeOK'
  BY DEF TypeOK, Modes, States
<1>2. Place' /\ OwnFlag' /\ OneMore'
  BY DEF Place, OwnFlag, OneMore, Current, Running, AcceptedIn
<1>3. ModeOfPhase'
  BY DEF ModeOfPhase, Mode, Running, NowAt
<1>4. NotPassed'
  BY DEF NotPassed, AcceptedIn, LooksForStop, Running
<1> QED BY <1>1, <1>2, <1>3, <1>4, DecidedStays

LEMMA EmitCancelKeeps == StopInv /\ EmitCancel => StopInv'
<1> SUFFICES ASSUME StopInv, EmitCancel PROVE StopInv'
  OBVIOUS
<1> USE DEF StopInv, EmitCancel, history
<1>1. TypeOK'
  BY DEF TypeOK
<1>2. Place' /\ OwnFlag' /\ OneMore'
  BY DEF Place, OwnFlag, OneMore, Current, Running, AcceptedIn
<1>3. ModeOfPhase'
  BY DEF ModeOfPhase, Mode, Running, NowAt
<1>4. NotPassed'
  BY DEF NotPassed, AcceptedIn, LooksForStop, Running
<1> QED BY <1>1, <1>2, <1>3, <1>4, DecidedStays

\* The phase changes: setCancel is called next.
LEMMA ChangePhaseKeeps == StopInv /\ ChangePhase => StopInv'
<1> SUFFICES ASSUME StopInv, ChangePhase PROVE StopInv'
  OBVIOUS
<1>0. /\ pc = "step" /\ pc' = "set" /\ step < LastStep /\ Advance /\ step \in 1..Len(Script)
      /\ want' = ModeOf(Script[step]) /\ Script[step] \in {"now", "at", "blocked"}
      /\ UNCHANGED <<op, ending, results, stopFlag, cancel, accepted, sentAfter>>
  BY StopAssumption DEF ChangePhase, At, StopInv, TypeOK, LastStep, history, Advance
<1>1. ~LooksForStop(step)
  BY <1>0 DEF LooksForStop
<1>2. (step \in 1..LastStep)' /\ (want \in Modes)' /\ Place' /\ OwnFlag' /\ ModeOfPhase' /\ NotPassed'
  BY <1>0, <1>1, AdvanceKeeps DEF StopInv
<1>3. TypeOK' /\ OneMore'
  BY <1>0, <1>2 DEF StopInv, TypeOK, OneMore
<1> QED BY <1>0, <1>2, <1>3, DecidedStays DEF StopInv

\* A checkpoint ends the operation when the flag is up, and is passed when it is not.
LEMMA CheckpointKeeps == StopInv /\ Checkpoint => StopInv'
<1> SUFFICES ASSUME StopInv, Checkpoint PROVE StopInv'
  OBVIOUS
<1>0. /\ pc = "step" /\ step < LastStep /\ Script[step] = "checkpoint"
      /\ UNCHANGED <<stopFlag, cancel, accepted, sentAfter>>
  BY DEF Checkpoint, At, history
<1>1. CASE stopFlag
  <2>0. Finish("cancelled")
    BY <1>1 DEF Checkpoint
  <2>1. /\ (results \in Seq({"success", "failed", "cancelled"}))' /\ (want \in Modes)'
        /\ Place' /\ OwnFlag' /\ ModeOfPhase' /\ NotPassed' /\ CancelledByOwnPress' /\ AcceptedIsHonoured'
    BY <1>0, <1>1, <2>0, FinishKeeps DEF StopInv
  <2>2. TypeOK' /\ OneMore'
    BY <1>0, <2>0, <2>1 DEF StopInv, TypeOK, OneMore, Finish
  <2> QED BY <2>1, <2>2 DEF StopInv
<1>2. CASE ~stopFlag
  <2>0. Advance /\ pc' = "step" /\ want' = want /\ Running
    BY <1>0, <1>2 DEF Checkpoint, Running, StopInv, Place
  <2>1. (step \in 1..LastStep)' /\ (want \in Modes)' /\ Place' /\ OwnFlag' /\ ModeOfPhase' /\ NotPassed'
    BY <1>0, <1>2, <2>0, AdvanceKeeps DEF StopInv, NotPassed
  <2>2. TypeOK' /\ OneMore' /\ UNCHANGED <<results, accepted>>
    BY <1>0, <2>0, <2>1 DEF StopInv, TypeOK, OneMore, Advance
  <2> QED BY <2>1, <2>2, DecidedStays DEF StopInv
<1> QED BY <1>1, <1>2

LEMMA ReadFlagKeeps == StopInv /\ ReadFlag => StopInv'
<1> SUFFICES ASSUME StopInv, ReadFlag PROVE StopInv'
  OBVIOUS
<1> USE DEF StopInv, ReadFlag, history, At
<1>1. TypeOK'
  BY DEF TypeOK
<1>2. Place' /\ OwnFlag' /\ OneMore'
  BY DEF Place, OwnFlag, OneMore, Current, Running, AcceptedIn
<1>3. ModeOfPhase'
  BY DEF ModeOfPhase, Mode, Running, NowAt
<1>4. NotPassed'
  BY DEF NotPassed, AcceptedIn, LooksForStop, Running
<1> QED BY <1>1, <1>2, <1>3, <1>4, DecidedStays

\* With the flag up the mode decides: the command goes out, is refused, or is passed over.
LEMMA ReadModeKeeps == StopInv /\ ReadMode => StopInv'
<1> SUFFICES ASSUME StopInv, ReadMode PROVE StopInv'
  OBVIOUS
<1>0. /\ pc = "readMode" /\ stopFlag /\ Running /\ step < LastStep /\ step \in 1..Len(Script)
      /\ Script[step] \in {"command", "optional", "persistent"}
      /\ UNCHANGED <<stopFlag, cancel, accepted, sentAfter>>
  BY StopAssumption DEF ReadMode, StopInv, Place, OwnFlag, Running, TypeOK, LastStep
<1>1. CASE cancel.mode # "now" /\ pc' = "send" /\ UNCHANGED <<op, step, want, ending, results, sending, skipped>>
  <2>1. ~LooksForStop(step)
    BY <1>0, <1>1, LooksInPhase DEF StopInv, ModeOfPhase, Mode
  <2>2. TypeOK' /\ Place' /\ OwnFlag' /\ OneMore'
    BY <1>0, <1>1 DEF StopInv, TypeOK, Place, OwnFlag, OneMore, Current, Running, AcceptedIn
  <2>3. ModeOfPhase'
    BY <1>0, <1>1 DEF StopInv, ModeOfPhase, Mode, Running, NowAt
  <2>4. NotPassed'
    BY <1>0, <1>1, <2>1 DEF StopInv, NotPassed, Running, AcceptedIn, LooksForStop
  <2> QED BY <1>0, <1>1, <2>2, <2>3, <2>4, DecidedStays DEF StopInv
<1>2. CASE Finish("cancelled")
  <2>1. /\ (results \in Seq({"success", "failed", "cancelled"}))' /\ (want \in Modes)'
        /\ Place' /\ OwnFlag' /\ ModeOfPhase' /\ NotPassed' /\ CancelledByOwnPress' /\ AcceptedIsHonoured'
    BY <1>0, <1>2, FinishKeeps DEF StopInv
  <2>2. TypeOK' /\ OneMore'
    BY <1>0, <1>2, <2>1 DEF StopInv, TypeOK, OneMore, Finish
  <2> QED BY <2>1, <2>2 DEF StopInv
<1>3. CASE Script[step] # "command" /\ Advance /\ pc' = "step" /\ want' = want
  <2>1. ~LooksForStop(step)
    BY <1>0, <1>3 DEF LooksForStop
  <2>2. (step \in 1..LastStep)' /\ (want \in Modes)' /\ Place' /\ OwnFlag' /\ ModeOfPhase' /\ NotPassed'
    BY <1>0, <1>3, <2>1, AdvanceKeeps DEF StopInv
  <2>3. TypeOK' /\ OneMore' /\ UNCHANGED <<results, accepted>>
    BY <1>0, <1>3, <2>2 DEF StopInv, TypeOK, OneMore, Advance
  <2> QED BY <2>2, <2>3, DecidedStays DEF StopInv
<1> QED BY <1>1, <1>2, <1>3 DEF ReadMode

\* The command goes out; at most the one that had passed its check counts.
LEMMA SendKeeps == StopInv /\ Send => StopInv'
<1> SUFFICES ASSUME StopInv, Send PROVE StopInv'
  OBVIOUS
<1>0. /\ pc = "send" /\ Running /\ step < LastStep /\ Script[step] \in {"command", "optional", "persistent"}
      /\ sentAfter' = IF stopFlag /\ cancel.mode = "now" THEN sentAfter + 1 ELSE sentAfter
      /\ UNCHANGED <<stopFlag, cancel, accepted>>
  BY DEF Send, StopInv, Place, Running
<1>1. /\ sentAfter' \in Nat /\ sentAfter' <= 1 /\ (sentAfter' = 1 => stopFlag)
  BY <1>0 DEF StopInv, TypeOK, OneMore
<1>2. CASE Advance /\ pc' = "step" /\ want' = want
  <2>1. (step \in 1..LastStep)' /\ (want \in Modes)' /\ Place' /\ OwnFlag' /\ ModeOfPhase' /\ NotPassed'
    BY <1>0, <1>2, AdvanceKeeps DEF StopInv, NotPassed
  <2>2. TypeOK' /\ OneMore' /\ UNCHANGED <<results, accepted>>
    BY <1>0, <1>1, <1>2, <2>1 DEF StopInv, TypeOK, OneMore, Advance
  <2> QED BY <2>1, <2>2, DecidedStays DEF StopInv
<1>3. CASE Finish("failed")
  <2>1. /\ (results \in Seq({"success", "failed", "cancelled"}))' /\ (want \in Modes)'
        /\ Place' /\ OwnFlag' /\ ModeOfPhase' /\ NotPassed' /\ CancelledByOwnPress' /\ AcceptedIsHonoured'
    BY <1>0, <1>3, FinishKeeps DEF StopInv
  <2>2. TypeOK' /\ OneMore'
    BY <1>0, <1>1, <1>3, <2>1 DEF StopInv, TypeOK, OneMore, Finish
  <2> QED BY <2>1, <2>2 DEF StopInv
<1> QED BY <1>2, <1>3 DEF Send

LEMMA SucceedKeeps == StopInv /\ Succeed => StopInv'
<1> SUFFICES ASSUME StopInv, Succeed PROVE StopInv'
  OBVIOUS
<1>0. /\ pc = "step" /\ step = LastStep /\ Finish("success")
      /\ UNCHANGED <<stopFlag, cancel, accepted, sentAfter>>
  BY DEF Succeed, history
<1>1. /\ (results \in Seq({"success", "failed", "cancelled"}))' /\ (want \in Modes)'
      /\ Place' /\ OwnFlag' /\ ModeOfPhase' /\ NotPassed' /\ CancelledByOwnPress' /\ AcceptedIsHonoured'
  BY <1>0, FinishKeeps DEF StopInv
<1>2. TypeOK' /\ OneMore'
  BY <1>0, <1>1 DEF StopInv, TypeOK, OneMore, Finish
<1> QED BY <1>1, <1>2 DEF StopInv

LEMMA LeaveKeeps == StopInv /\ Leave => StopInv'
<1> SUFFICES ASSUME StopInv, Leave PROVE StopInv'
  OBVIOUS
<1> USE DEF StopInv, Leave, history
<1>1. TypeOK' /\ Place' /\ OwnFlag' /\ OneMore'
  BY DEF TypeOK, Place, OwnFlag, OneMore, Current, Running, AcceptedIn
<1>2. ModeOfPhase' /\ NotPassed'
  BY DEF ModeOfPhase, NotPassed, Running
<1> QED BY <1>1, <1>2, DecidedStays

-----------------------------------------------------------------------------
\* A press raises the flag of the operation that is running, if the phase allows it.
LEMMA PressKeeps == ASSUME NEW p \in Pressers, StopInv, Press(p) PROVE StopInv'
<1> DEFINE a == [op |-> op, step |-> step, ending |-> ending]
<1>0. UNCHANGED <<core, sentAfter>> /\ Len(results) \in Nat /\ Len(Script) \in Nat
  BY StopAssumption DEF Press, StopInv, TypeOK
<1>1. CASE UNCHANGED <<stopFlag, cancel, accepted>>
  <2>1. TypeOK' /\ Place' /\ OwnFlag' /\ OneMore'
    BY <1>0, <1>1 DEF core, StopInv, TypeOK, Place, OwnFlag, OneMore, Current, Running, AcceptedIn
  <2>2. ModeOfPhase' /\ NotPassed'
    BY <1>0, <1>1 DEF core, StopInv, ModeOfPhase, NotPassed, Mode, NowAt, Running, AcceptedIn, LooksForStop
  <2> QED BY <1>0, <1>1, <2>1, <2>2, DecidedStays DEF core, StopInv
<1>2. CASE /\ stopFlag' = TRUE /\ cancel' = [cancel EXCEPT !.requested = TRUE]
           /\ accepted' = accepted \cup {a}
  <2>0. a \in [op : Nat, step : 1..LastStep, ending : BOOLEAN]
    BY DEF StopInv, TypeOK
  <2>a. cancel' \in States /\ cancel'.mode = cancel.mode
    BY <1>2 DEF StopInv, TypeOK, States
  <2>1. TypeOK' /\ cancel'.mode = cancel.mode
    BY <1>0, <1>2, <2>0, <2>a DEF core, StopInv, TypeOK
  <2>2. Place' /\ OneMore'
    BY <1>0, <1>2, <2>1 DEF core, StopInv, Place, OneMore, Current
  <2>3. OwnFlag'
    <3>1. /\ op <= IF Running THEN Current ELSE Len(results)
          /\ Running' = Running /\ UNCHANGED <<op, results, pc>>
      BY <1>0 DEF core, StopInv, Place, Running, Current, TypeOK
    <3>2. a.op = op /\ a \in AcceptedIn(op)'
      BY <1>2, <3>1 DEF AcceptedIn
    <3> QED BY <1>2, <3>1, <3>2 DEF StopInv, OwnFlag, Current
  <2>4. ModeOfPhase'
    BY <1>0, <2>1 DEF core, StopInv, ModeOfPhase, Mode, NowAt, Running
  <2>5. NotPassed'
    <3> SUFFICES ASSUME Running, NEW b \in accepted', b.op = op, ~b.ending
                 PROVE  /\ b.step <= step
                        /\ \A i \in (b.step + 1)..(step - 1) : ~LooksForStop(i)
                        /\ pc = "send" /\ b.step < step => ~LooksForStop(step)
      BY <1>0, <1>2 DEF core, NotPassed, Running, AcceptedIn, LooksForStop
    <3>1. CASE b \in accepted
      BY <3>1 DEF StopInv, NotPassed, AcceptedIn
    <3>2. CASE b = a
      <4>1. b.step = step /\ step \in Int
        BY <3>2 DEF StopInv, TypeOK
      <4> QED BY <4>1
    <3> QED BY <1>2, <3>1, <3>2
  <2>6. CancelledByOwnPress'
    BY <1>0, <1>2 DEF core, StopInv, CancelledByOwnPress, AcceptedIn
  <2>7. AcceptedIsHonoured'
    <3>1. op \in DOMAIN results => ending
      BY <1>0 DEF StopInv, Place, Current, TypeOK
    <3> QED BY <1>0, <1>2, <3>1 DEF core, StopInv, AcceptedIsHonoured, AcceptedIn, LooksForStop
  <2> QED BY <2>1, <2>2, <2>3, <2>4, <2>5, <2>6, <2>7 DEF StopInv
<1> QED BY <1>1, <1>2 DEF Press

LEMMA ShowPressKeeps == ASSUME NEW p \in Pressers, StopInv, ShowPress(p) PROVE StopInv'
<1>0. UNCHANGED <<core, stopFlag, cancel, history>>
  BY DEF ShowPress
<1>1. TypeOK' /\ Place' /\ OwnFlag' /\ OneMore'
  BY <1>0 DEF core, history, StopInv, TypeOK, Place, OwnFlag, OneMore, Current, Running, AcceptedIn
<1>2. ModeOfPhase' /\ NotPassed'
  BY <1>0 DEF core, history, StopInv, ModeOfPhase, NotPassed, Mode, NowAt, Running, AcceptedIn, LooksForStop
<1> QED BY <1>0, <1>1, <1>2, DecidedStays DEF core, history, StopInv

LEMMA StutterKeeps == StopInv /\ UNCHANGED vars => StopInv'
<1> SUFFICES ASSUME StopInv, UNCHANGED vars PROVE StopInv'
  OBVIOUS
<1>1. TypeOK' /\ Place' /\ OwnFlag' /\ OneMore'
  BY DEF vars, core, history, StopInv, TypeOK, Place, OwnFlag, OneMore, Current, Running, AcceptedIn
<1>2. ModeOfPhase' /\ NotPassed'
  BY DEF vars, core, history, StopInv, ModeOfPhase, NotPassed, Mode, NowAt, Running, AcceptedIn, LooksForStop
<1> QED BY <1>1, <1>2, DecidedStays DEF vars, core, history, StopInv

LEMMA StepKeeps == StopInv /\ [Next]_vars => StopInv'
<1> SUFFICES ASSUME StopInv, [Next]_vars PROVE StopInv'
  OBVIOUS
<1>1. CASE Core
  BY <1>1, BeginKeeps, SetCancelKeeps, EmitCancelKeeps, ChangePhaseKeeps, CheckpointKeeps,
     ReadFlagKeeps, ReadModeKeeps, SendKeeps, SucceedKeeps, LeaveKeeps DEF Core
<1>2. CASE \E p \in Pressers : PresserStep(p)
  BY <1>2, PressKeeps, ShowPressKeeps DEF PresserStep
<1>3. CASE UNCHANGED vars
  BY <1>3, StutterKeeps
<1> QED BY <1>1, <1>2, <1>3 DEF Next

-----------------------------------------------------------------------------
\* An operation that ends cancelled was stopped by a press of its own.
THEOREM StopIsOwn == Spec => []CancelledByOwnPress
<1>1. StopInv => CancelledByOwnPress
  BY DEF StopInv
<1> QED BY <1>1, Initially, StepKeeps, PTL DEF Spec

\* A press in a phase that stops at once lets one command out at most.
THEOREM StopIsPrompt == Spec => []AtMostOneCommandAfter
<1>1. StopInv => AtMostOneCommandAfter
  BY DEF StopInv, OneMore, AtMostOneCommandAfter
<1> QED BY <1>1, Initially, StepKeeps, PTL DEF Spec

\* No operation succeeds past a place where STOP ends it with a press accepted before it.
THEOREM StopIsHonoured == Spec => []AcceptedIsHonoured
<1>1. StopInv => AcceptedIsHonoured
  BY DEF StopInv
<1> QED BY <1>1, Initially, StepKeeps, PTL DEF Spec

-----------------------------------------------------------------------------
PhaseInv ==
  Running /\ step < LastStep => \E j \in 0..(step - 1) : InPhaseOf(step, j) /\ Mode = PhaseAfter(j)

LEMMA PhaseAdvances ==
  ASSUME TypeOK, Running, PhaseInv, step < LastStep, step' = step + 1,
         \/ Mode' = Mode /\ Script[step] \notin Phases
         \/ Mode' = ModeOf(Script[step]) /\ Script[step] \in Phases
  PROVE  PhaseInv'
<1>0. Len(Script) \in Nat /\ step \in 1..Len(Script)
  BY StopAssumption DEF TypeOK, LastStep
<1>1. CASE Mode' = Mode /\ Script[step] \notin Phases
  <2>1. PICK j \in 0..(step - 1) : InPhaseOf(step, j) /\ Mode = PhaseAfter(j)
    BY DEF PhaseInv
  <2>2. InPhaseOf(step + 1, j) /\ j \in 0..step
    BY <1>0, <1>1, <2>1 DEF InPhaseOf
  <2>3. Mode' = PhaseAfter(j) /\ (step + 1) - 1 = step
    BY <1>0, <1>1, <2>1
  <2> QED BY <2>2, <2>3 DEF PhaseInv, InPhaseOf, PhaseAfter, ModeOf
<1>2. CASE Mode' = ModeOf(Script[step]) /\ Script[step] \in Phases
  <2>1. InPhaseOf(step + 1, step) /\ step \in 0..step /\ (step + 1) - 1 = step
    BY <1>0, <1>2 DEF InPhaseOf
  <2>2. Mode' = PhaseAfter(step)
    BY <1>0, <1>2 DEF PhaseAfter
  <2> QED BY <2>1, <2>2 DEF PhaseInv, InPhaseOf, PhaseAfter, ModeOf
<1> QED BY <1>1, <1>2

\* A step that leaves the place of a running operation and its mode alone.
LEMMA PhaseStays ==
  ASSUME PhaseInv, Running' => Running, step' = step, Running => Mode' = Mode
  PROVE  PhaseInv'
BY DEF PhaseInv, InPhaseOf, PhaseAfter, ModeOf, LastStep

LEMMA PhaseKeeps == StopInv /\ PhaseInv /\ [Next]_vars => PhaseInv'
<1> SUFFICES ASSUME StopInv, PhaseInv, [Next]_vars PROVE PhaseInv'
  OBVIOUS
<1>0. TypeOK /\ Place /\ Len(Script) \in Nat
  BY StopAssumption DEF StopInv
<1>1. CASE Begin
  <2>1. CASE step' = LastStep
    BY <1>0, <2>1 DEF PhaseInv, LastStep
  <2>2. CASE want' = "now" /\ step' = 1
    <3>1. InPhaseOf(1, 0) /\ Mode' = PhaseAfter(0) /\ 0 \in 0..(1 - 1)
      BY <1>1, <2>2 DEF Begin, InPhaseOf, PhaseAfter, Mode
    <3> QED BY <2>2, <3>1 DEF PhaseInv, InPhaseOf, PhaseAfter, ModeOf
  <2> QED BY <1>1, <2>1, <2>2 DEF Begin
<1>2. CASE SetCancel \/ EmitCancel \/ ReadFlag \/ Leave \/ UNCHANGED vars
  BY <1>0, <1>2, PhaseStays DEF SetCancel, EmitCancel, ReadFlag, Leave, At, vars, core, Running, Mode, Place
<1>3. CASE ChangePhase
  <2>1. /\ Running /\ step < LastStep /\ step' = step + 1 /\ Script[step] \in Phases
        /\ Mode' = ModeOf(Script[step])
    BY <1>0, <1>3 DEF ChangePhase, At, Advance, Running, Place, Phases, Mode
  <2> QED BY <1>0, <2>1, PhaseAdvances
<1>4. CASE Checkpoint
  <2>1. pc = "step" /\ step < LastStep /\ Script[step] \notin Phases /\ Running /\ cancel' = cancel
    BY <1>0, <1>4 DEF Checkpoint, At, Phases, Running, Place
  <2>2. CASE Advance /\ pc' = pc
    <3>1. step' = step + 1 /\ Mode' = Mode
      BY <2>1, <2>2 DEF Advance, Mode
    <3> QED BY <1>0, <2>1, <3>1, PhaseAdvances
  <2>3. CASE ending'
    BY <2>3 DEF PhaseInv, Running
  <2> QED BY <1>4, <2>2, <2>3 DEF Checkpoint, Finish
<1>5. CASE ReadMode \/ Send
  <2>1. /\ pc \in {"readMode", "send"} /\ step < LastStep /\ Script[step] \notin Phases /\ Running
        /\ cancel' = cancel
    BY <1>0, <1>5 DEF ReadMode, Send, Place, Phases, Running
  <2>2. CASE Advance /\ pc' = "step"
    <3>1. step' = step + 1 /\ Mode' = Mode
      BY <2>1, <2>2 DEF Advance, Mode
    <3> QED BY <1>0, <2>1, <3>1, PhaseAdvances
  <2>3. CASE ending'
    BY <2>3 DEF PhaseInv, Running
  <2>4. CASE UNCHANGED <<step, ending>> /\ pc' = "send"
    BY <2>1, <2>4, PhaseStays DEF Running, Mode
  <2> QED BY <1>5, <2>2, <2>3, <2>4 DEF ReadMode, Send, Finish
<1>6. CASE Succeed
  BY <1>6 DEF Succeed, Finish, PhaseInv, Running
<1>7. ASSUME NEW p \in Pressers, PresserStep(p) PROVE PhaseInv'
  <2>1. UNCHANGED core /\ cancel'.mode = cancel.mode
    BY <1>0, <1>7 DEF PresserStep, Press, ShowPress, TypeOK, States
  <2> QED BY <2>1, PhaseStays DEF core, Running, Mode
<1> QED BY <1>1, <1>2, <1>3, <1>4, <1>5, <1>6, <1>7 DEF Next, Core

\* What a step may do, where the operation keeps the order.
LEMMA OrderedStep ==
  ASSUME Ordered, StopInv, PhaseInv, ~skipped, [Next]_vars
  PROVE  /\ ~skipped'
         /\ results' # results /\ results'[Len(results')] = "cancelled" => cancel.mode # "unavailable"
<1>0. TypeOK /\ Place /\ Len(Script) \in Nat /\ Len(results) \in Nat
  BY StopAssumption DEF StopInv, TypeOK
<1>1. ASSUME NEW r \in {"success", "failed", "cancelled"}, Finish(r)
      PROVE  results'[Len(results')] = r
  BY <1>0, <1>1 DEF Finish, TypeOK
<1>2. ASSUME pc \in {"step", "readMode"}, step < LastStep
      PROVE  /\ Script[step] = "persistent" => cancel.mode # "now"
             /\ Script[step] = "checkpoint" => cancel.mode # "unavailable"
  <2>1. PICK j \in 0..(step - 1) : InPhaseOf(step, j) /\ Mode = PhaseAfter(j)
    BY <1>0, <1>2 DEF PhaseInv, Running, Place
  <2>2. step \in 1..Len(Script) /\ Mode = cancel.mode
    BY <1>0, <1>2 DEF TypeOK, LastStep, Mode
  <2> QED BY <2>1, <2>2 DEF Ordered
<1>3. CASE Begin \/ SetCancel \/ EmitCancel \/ ChangePhase \/ ReadFlag \/ Leave \/ UNCHANGED vars
  BY <1>3 DEF Begin, SetCancel, EmitCancel, ChangePhase, ReadFlag, Leave, Advance, vars, core, history
<1>4. CASE Checkpoint
  <2>1. ~skipped' /\ (results' = results \/ cancel.mode # "unavailable")
    BY <1>2, <1>4 DEF Checkpoint, At, Advance, Finish, history
  <2> QED BY <2>1
<1>5. CASE ReadMode
  <2>1. Script[step] = "persistent" => cancel.mode # "now"
    BY <1>0, <1>2, <1>5 DEF ReadMode, Place
  <2>2. UNCHANGED skipped /\ (results' = results \/ cancel.mode = "now")
    BY <1>5, <2>1 DEF ReadMode, Advance
  <2> QED BY <2>2
<1>6. CASE Send
  BY <1>1, <1>6 DEF Send, Advance
<1>7. CASE Succeed
  BY <1>1, <1>7 DEF Succeed, history
<1>8. ASSUME NEW p \in Pressers, PresserStep(p)
      PROVE  skipped' = skipped /\ results' = results
  BY <1>8 DEF PresserStep, Press, ShowPress, core, history
<1> QED BY <1>3, <1>4, <1>5, <1>6, <1>7, <1>8 DEF Next, Core

\* STOP is never acted on while flash is being changed, by an operation that keeps the order.
THEOREM StopKeepsOut == ASSUME Ordered PROVE Spec => NoStopWhileBlocked
<1>1. Init => PhaseInv /\ ~skipped
  BY DEF Init, PhaseInv, Running
<1>2. StopInv /\ PhaseInv /\ ~skipped /\ [Next]_vars => ~skipped'
  BY OrderedStep
<1>3. StopInv /\ PhaseInv /\ ~skipped /\ [Next]_vars =>
        [/\ ~skipped'
         /\ results' # results /\ results'[Len(results')] = "cancelled" => cancel.mode # "unavailable"]_vars
  BY OrderedStep
<1> QED BY <1>1, <1>2, <1>3, Initially, StepKeeps, PhaseKeeps, PTL DEF Spec, NoStopWhileBlocked
=============================================================================
