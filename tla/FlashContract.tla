---------------------------- MODULE FlashContract ----------------------------
(***************************************************************************)
(* What every writing wizard of UrsidoRescue promises about the flash,     *)
(* whatever device, transport and console noise lie underneath: BL2 is     *)
(* touched only while every other part already holds its image; success    *)
(* means that everything holds it; an operation the operator stopped never *)
(* touched BL2.  NandRestore and BootRescue implement this module.         *)
(***************************************************************************)
CONSTANT Parts      \* the parts of flash written before BL2

VARIABLES
  proven,           \* the parts that hold their image
  bl2,              \* "original" | "unsafe" | "image"
  outcome           \* "running" | "success" | "failed" | "cancelled"

vars == <<proven, bl2, outcome>>

Init == proven \in SUBSET Parts /\ bl2 = "original" /\ outcome = "running"

\* Erase, write or spoil any part; the old BL2 still starts the device.
WriteParts == bl2 = "original" /\ proven' \in SUBSET Parts /\ UNCHANGED bl2

\* The point of no return: the rest of the image must be in place.
TouchBl2 == proven = Parts /\ bl2' \in {"unsafe", "image"} /\ UNCHANGED proven

Work == outcome = "running" /\ (WriteParts \/ TouchBl2) /\ UNCHANGED outcome

\* A failure may have spoiled what was being written, and nothing else.
Fail == outcome = "running" /\ (WriteParts \/ TouchBl2) /\ outcome' = "failed"

Succeed ==
  /\ outcome = "running" /\ proven = Parts /\ bl2 = "image"
  /\ outcome' = "success"
  /\ UNCHANGED <<proven, bl2>>

Cancel ==
  /\ outcome = "running" /\ bl2 = "original"
  /\ outcome' = "cancelled"
  /\ UNCHANGED <<proven, bl2>>

Next == Work \/ Succeed \/ Fail \/ Cancel

Spec == Init /\ [][Next]_vars
==============================================================================
