---------------------------- MODULE MCStopControl ----------------------------
(***************************************************************************)
(* An operation with every kind of phase and of step: a handover of the    *)
(* boot stages that cannot be stopped, read-only commands, one of them     *)
(* only shown, an erase up to a checkpoint, BL2's erase and readback, and  *)
(* at the end what diagnostics shows.                                      *)
(***************************************************************************)
EXTENDS StopControl, TLC

CONSTANTS p1, p2

TwoPressers == {p1, p2}
RestoreScript ==
  <<"blocked", "now", "command", "optional", "command", "at", "persistent", "checkpoint",
    "blocked", "persistent", "command", "now", "optional", "optional">>

\* The operation keeps the order that NoStopWhileBlocked rests on.
ASSUME RestoreOrdered == Ordered

Symmetric == Permutations(TwoPressers)
=============================================================================
