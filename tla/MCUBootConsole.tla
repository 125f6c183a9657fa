--------------------------- MODULE MCUBootConsole ---------------------------
(***************************************************************************)
(* Scripts for UBootConsole, in the order in which the wizards use the     *)
(* functions: an erase, a listing, a write and its readback; and the end   *)
(* of a restore, a transfer and then BL2's erase, write and readback.      *)
(***************************************************************************)
EXTENDS UBootConsole

ChunkScript == <<"persistent", "safe", "persistent", "readback">>
Bl2Script   == <<"plain", "persistent", "persistent", "readback">>

Conversations ==
  {[script |-> ChunkScript, attempts |-> 3, late |-> FALSE],
   [script |-> Bl2Script, attempts |-> 2, late |-> TRUE]}
PromptConversations == {[script |-> ChunkScript, attempts |-> 3, late |-> FALSE]}
=============================================================================
