----------------------------- MODULE StopControl -----------------------------
(***************************************************************************)
(* The STOP button (operations.go: inSession, setCancel, RequestStop,      *)
(* checkpoint, stopBeforeCommand; app/stop.go).  The core runs operations  *)
(* one after another; presses come from the front end's goroutines at any  *)
(* moment.  What is done under cancelMu is one step; the call that follows *)
(* the unlock, which sends the state to the front end, is a step of its    *)
(* own.                                                                    *)
(***************************************************************************)
EXTENDS Integers, Sequences, FiniteSets

CONSTANTS
  Script,      \* an operation, by what its steps do about STOP
  Pressers,    \* goroutines that call RequestStop
  MaxOps,      \* bound: operations run
  MaxPresses   \* bound: presses

ASSUME StopAssumption ==
  /\ Script \in Seq({"command", "optional", "persistent", "checkpoint", "now", "at", "blocked"})
  /\ MaxOps \in Nat /\ MaxPresses \in Nat

VARIABLES
  pc,        \* where the core is
  op,        \* the operation the App fields name, 0 for none
  step,      \* its step, an index of Script
  want,      \* the mode setCancel was called with
  ending,    \* inSession is past the operation's own code
  results,   \* how each operation ended, in order
  stopFlag,  \* App.stop
  cancel,    \* App.cancel
  sending,   \* the snapshot setCancel hands to the front end after its unlock
  presser,   \* each presser: whether it is on its way to the front end, its snapshot
  presses,   \* presses so far
  shown,     \* what the front end shows
  accepted,  \* history: where in which operation a press was accepted
  sentAfter, \* history: commands sent in a "now" phase since a press was accepted in it
  skipped    \* history: a persistent command was not sent because of STOP

core    == <<pc, op, step, want, ending, results, sending>>
history == <<accepted, sentAfter, skipped>>
vars    == <<core, stopFlag, cancel, presser, presses, shown, history>>

Modes == {"now", "at", "unavailable"}
States == [mode : Modes, requested : BOOLEAN]
LastStep == Len(Script) + 1

Current == Len(results) + 1        \* the operation that is running or comes next

Init ==
  /\ pc = "idle" /\ op = 0 /\ step = 1 /\ want = "now" /\ ending = FALSE
  /\ results = <<>>
  /\ stopFlag = FALSE
  /\ cancel = [mode |-> "now", requested |-> FALSE]
  /\ sending = cancel
  /\ presser = [p \in Pressers |-> [at |-> "idle", snap |-> cancel]]
  /\ presses = 0
  /\ shown = cancel
  /\ accepted = {} /\ sentAfter = 0 /\ skipped = FALSE

(***************************************************************************)
(* The core.                                                               *)
(***************************************************************************)
\* Mutant: a STOP left over from before the operation is kept.
BeginWithoutReset ==
  /\ pc = "idle" /\ Len(results) < MaxOps
  /\ op' = Current /\ ending' = FALSE
  /\ \/ want' = "now" /\ step' = 1
     \/ want' = "unavailable" /\ step' = LastStep
  /\ pc' = "set" /\ sentAfter' = 0
  /\ UNCHANGED <<results, sending, stopFlag, cancel, presser, presses, shown,
                 accepted, skipped>>

\* inSession under the lock; the second alternative is an operation that does not poll STOP.
Begin ==
  /\ pc = "idle" /\ Len(results) < MaxOps
  /\ op' = Current /\ ending' = FALSE
  /\ stopFlag' = FALSE
  /\ \/ want' = "now" /\ step' = 1
     \/ want' = "unavailable" /\ step' = LastStep
  /\ pc' = "set" /\ sentAfter' = 0
  /\ UNCHANGED <<results, sending, cancel, presser, presses, shown,
                 accepted, skipped>>

SetCancel ==
  /\ pc = "set"
  /\ cancel' = [mode |-> want, requested |-> stopFlag]
  /\ sending' = cancel' /\ sentAfter' = 0
  /\ pc' = "emit"
  /\ UNCHANGED <<op, step, want, ending, results, stopFlag, presser, presses, shown,
                 accepted, skipped>>

EmitCancel ==
  /\ pc = "emit"
  /\ shown' = sending
  /\ pc' = IF ending THEN "leave" ELSE "step"
  /\ UNCHANGED <<op, step, want, ending, results, sending, stopFlag, cancel, presser,
                 presses, history>>

At(kinds) == pc = "step" /\ step < LastStep /\ Script[step] \in kinds

ModeOf(kind) == [now |-> "now", at |-> "at", blocked |-> "unavailable"][kind]

Advance == step' = step + 1 /\ UNCHANGED <<op, ending, results, sending>>

\* The operation's code returns; inSession publishes "now" once more.
Finish(result) ==
  /\ results' = Append(results, result)
  /\ ending' = TRUE /\ want' = "now" /\ pc' = "set"
  /\ UNCHANGED <<op, step, sending>>

ChangePhase ==
  /\ At({"now", "at", "blocked"})
  /\ want' = ModeOf(Script[step]) /\ pc' = "set"
  /\ Advance
  /\ UNCHANGED <<stopFlag, cancel, presser, presses, shown, history>>

\* Mutant: the checkpoint's verdict is dropped.
CheckpointIgnored ==
  /\ At({"checkpoint"})
  /\ Advance /\ UNCHANGED <<pc, want>>
  /\ UNCHANGED <<stopFlag, cancel, presser, presses, shown, history>>

Checkpoint ==
  /\ At({"checkpoint"})
  /\ IF stopFlag THEN Finish("cancelled") ELSE Advance /\ UNCHANGED <<pc, want>>
  /\ UNCHANGED <<stopFlag, cancel, presser, presses, shown, history>>

\* Mutant: commands go out without a look at the flag.
FlagNotRead ==
  /\ At({"command", "optional", "persistent"})
  /\ pc' = "send"
  /\ UNCHANGED <<op, step, want, ending, results, sending, stopFlag, cancel, presser,
                 presses, shown, history>>

\* stopBeforeCommand reads the flag, then the mode (under the lock).
ReadFlag ==
  /\ At({"command", "optional", "persistent"})
  /\ pc' = IF stopFlag THEN "readMode" ELSE "send"
  /\ UNCHANGED <<op, step, want, ending, results, sending, stopFlag, cancel, presser,
                 presses, shown, history>>

\* Mutant: the phase is not looked at.
StopInAnyMode ==
  /\ pc = "readMode"
  /\ \/ Script[step] = "command" /\ Finish("cancelled") /\ UNCHANGED skipped
     \/ Script[step] # "command" /\ Advance /\ pc' = "step" /\ UNCHANGED want
        /\ skipped' = IF Script[step] = "persistent" THEN TRUE ELSE skipped
  /\ UNCHANGED <<stopFlag, cancel, presser, presses, shown, accepted, sentAfter>>

\* A command's stop error ends the operation where the wizard returns it. ubootPersistentOnce
\* drops it and goes on; so do the wizards with what they only show (the listings of
\* diagnosticsWizard, the iminfo of bootRecoveryWizard).
ReadMode ==
  /\ pc = "readMode"
  /\ \/ /\ cancel.mode # "now"
        /\ pc' = "send" /\ UNCHANGED <<op, step, want, ending, results, sending, skipped>>
     \/ /\ cancel.mode = "now" /\ Script[step] = "command"
        /\ Finish("cancelled") /\ UNCHANGED skipped
     \/ /\ cancel.mode = "now" /\ Script[step] # "command"
        /\ Advance /\ pc' = "step" /\ UNCHANGED want
        /\ skipped' = IF Script[step] = "persistent" THEN TRUE ELSE skipped
  /\ UNCHANGED <<stopFlag, cancel, presser, presses, shown, accepted, sentAfter>>

\* Whether the command succeeds or the operation fails on it; no failure of an optional one counts.
Send ==
  /\ pc = "send"
  /\ sentAfter' = IF stopFlag /\ cancel.mode = "now" THEN sentAfter + 1 ELSE sentAfter
  /\ \/ Advance /\ pc' = "step" /\ UNCHANGED want
     \/ Script[step] # "optional" /\ Finish("failed")
  /\ UNCHANGED <<stopFlag, cancel, presser, presses, shown, accepted, skipped>>

Succeed ==
  /\ pc = "step" /\ step = LastStep
  /\ Finish("success")
  /\ UNCHANGED <<stopFlag, cancel, presser, presses, shown, history>>

\* inSession gives the App fields back and closes the session.
Leave ==
  /\ pc = "leave"
  /\ op' = 0 /\ pc' = "idle"
  /\ UNCHANGED <<step, want, ending, results, sending, stopFlag, cancel, presser, presses,
                 shown, history>>

Core ==
  \/ Begin \/ SetCancel \/ EmitCancel \/ ChangePhase \/ Checkpoint \/ ReadFlag \/ ReadMode
  \/ Send \/ Succeed \/ Leave

(***************************************************************************)
(* A press.                                                                *)
(***************************************************************************)
\* RequestStop under the lock: refused, and not remembered, in an unavailable phase.
Press(p) ==
  /\ presser[p].at = "idle" /\ presses < MaxPresses
  /\ presses' = presses + 1
  /\ IF cancel.mode = "unavailable"
     THEN UNCHANGED <<stopFlag, cancel, accepted>>
     ELSE /\ stopFlag' = TRUE
          /\ cancel' = [cancel EXCEPT !.requested = TRUE]
          /\ accepted' = accepted \cup {[op |-> op, step |-> step, ending |-> ending]}
  /\ presser' = [presser EXCEPT ![p] = [at |-> "show", snap |-> cancel']]
  /\ UNCHANGED <<core, shown, sentAfter, skipped>>

ShowPress(p) ==
  /\ presser[p].at = "show"
  /\ shown' = presser[p].snap
  /\ presser' = [presser EXCEPT ![p].at = "idle"]
  /\ UNCHANGED <<core, stopFlag, cancel, presses, history>>

PresserStep(p) == Press(p) \/ ShowPress(p)

Next == Core \/ \E p \in Pressers : PresserStep(p)

Spec == Init /\ [][Next]_vars

-----------------------------------------------------------------------------

AcceptedIn(n) == {a \in accepted : a.op = n}

\* An operation is cancelled only by a press that was accepted while it ran: not by one
\* pressed before it (inSession resets the flag under the same lock), nor by a refused one.
CancelledByOwnPress ==
  \A n \in DOMAIN results : results[n] = "cancelled" => AcceptedIn(n) # {}

\* Once a press is accepted in a "now" phase, at most the command that had passed its
\* check already goes out in that phase.
AtMostOneCommandAfter == sentAfter <= 1

\* A press accepted before the last place where STOP ends the operation is honoured, whatever
\* it races with: an operation that succeeds was pressed after that place only. Such places
\* are the checkpoints, and in a "now" phase the commands whose error the wizard returns; a
\* wizard that drops the error of its last commands does report success.
LooksForStop(i) ==
  \/ Script[i] = "checkpoint"
  \/ Script[i] = "command" /\ \E j \in 0..(i - 1) :
       /\ j = 0 \/ Script[j] = "now"
       /\ \A k \in (j + 1)..(i - 1) : Script[k] \notin {"at", "blocked"}
AcceptedIsHonoured ==
  \A n \in DOMAIN results : results[n] = "success" =>
    \A a \in AcceptedIn(n) : a.ending \/ \A i \in (a.step + 1)..Len(Script) : ~LooksForStop(i)

(***************************************************************************)
(* What STOP may not do depends on the order of an operation's steps: the  *)
(* wizards change flash only after cancelAt or cancelBlocked, and poll     *)
(* checkpoint only where cancelBlocked is not the last phase they set.     *)
(***************************************************************************)
Phases == {"now", "at", "blocked"}

\* Step i is in the phase that step j sets, or the operation starts with.
InPhaseOf(i, j) ==
  /\ j = 0 \/ Script[j] \in Phases
  /\ \A k \in (j + 1)..(i - 1) : Script[k] \notin Phases

PhaseAfter(j) == IF j = 0 THEN "now" ELSE ModeOf(Script[j])

Ordered ==
  \A i \in 1..Len(Script) : \A j \in 0..(i - 1) : InPhaseOf(i, j) =>
    /\ Script[i] = "persistent" => PhaseAfter(j) # "now"
    /\ Script[i] = "checkpoint" => PhaseAfter(j) # "unavailable"

\* STOP is not acted on between "blocked" and the next phase: the operation is not left there,
\* and no persistent command is passed over, though ubootPersistentOnce drops the stop error.
NoStopWhileBlocked ==
  [][/\ ~skipped'
     /\ results' # results /\ results'[Len(results')] = "cancelled" => cancel.mode # "unavailable"]_vars

(***************************************************************************)
(* What the documentation promises and the code does not keep.             *)
(***************************************************************************)
\* The core sends the state on every change, so that front ends show it without guessing
\* (app/ui.go): with nothing on its way, the last message is the current state.
Quiet == pc # "emit" /\ \A p \in Pressers : presser[p].at = "idle"
ShownIsCurrent == Quiet => shown = cancel

\* RequestStop stops an operation at once where nothing is written (operations.go:398), so one
\* that succeeds has no command left to send in a "now" phase after an accepted press.
StoppedAtOnce ==
  \A n \in DOMAIN results : results[n] = "success" =>
    \A a \in AcceptedIn(n) : a.ending \/ \A i \in (a.step + 1)..Len(Script) :
      Script[i] \in {"command", "optional"} => \A j \in 0..(i - 1) :
        InPhaseOf(i, j) => PhaseAfter(j) # "now"
=============================================================================
