----------------------------- MODULE NandRestore -----------------------------
(***************************************************************************)
(* stockRestoreWizard and physicalRestoreWizard (main.go): erase the ubi   *)
(* partition, write it chunk by chunk around the bad blocks, read every    *)
(* span back, and write BL2 last, while a front end may press STOP at any  *)
(* moment.  The two wizards share their steps; Format says which checks of *)
(* the bad-block map are made.                                             *)
(*                                                                         *)
(* Blocks are numbered from the start of ubi.  A block's content is the    *)
(* number of the image block it holds, or Original, Erased or Garbage.     *)
(* A command sent once through ubootPersistentOnce has run whole, half or  *)
(* not at all, and its answer may be lost, which the wizard takes for      *)
(* success in each case.  A command sent through ubootCommand (a listing,  *)
(* a readback) has run and answers truly, or is an error; the one that may *)
(* be swallowed by what a lost answer left on the line is the listing.     *)
(***************************************************************************)
EXTENDS Integers, FiniteSets, Sequences

CONSTANTS
  Format,         \* "stock" or "physical"
  NumBlocks,      \* eraseblocks in the ubi partition
  RestoreBlocks,  \* how many of them the image covers
  ChunkBlocks,    \* eraseblocks in one transferred chunk
  SafeWindow,     \* the blocks of the image that stock may have bad
  MaxBad          \* bound: at most this many blocks are ever bad

ASSUME RestoreAssumption ==
  /\ Format \in {"stock", "physical"}
  /\ NumBlocks \in Nat /\ RestoreBlocks \in 1..NumBlocks
  /\ Format = "physical" => RestoreBlocks = NumBlocks     \* the image must be as large as the flash
  /\ ChunkBlocks \in Nat \ {0}
  /\ SafeWindow \subseteq 0..(RestoreBlocks - 1)
  /\ MaxBad \in Nat

Original == -1
Erased   == -2
Garbage  == -3

Blocks   == 0..(NumBlocks - 1)
Image    == 0..(RestoreBlocks - 1)     \* the image blocks of ubi
Bl2      == NumBlocks                  \* the bl2 partition, one block of its own
Contents == Image \cup {Bl2, Original, Erased, Garbage}

VARIABLES
  pc,        \* the wizard's next step
  content,   \* what each block holds
  bad,       \* the blocks that really are bad
  maps,      \* the bad-block listings the wizard has read, in order
  off,       \* first block of the current chunk
  left,      \* blocks of that chunk not yet written and read back
  ram,       \* the file at loadAddr (Bl2 or a chunk's off), and its blocks a readback overwrote
  muddled,   \* the last answer was lost: the next command may be taken for more of its line
  mode,      \* what STOP does now: "now" | "checkpoint" | "unavailable"
  stop,      \* "none", or the mode in which the pending STOP was accepted
  outcome    \* "running" | "success" | "failed" | "cancelled"

vars == <<pc, content, bad, maps, off, left, ram, muddled, mode, stop, outcome>>
flash == <<content, bad>>

IsStock == Format = "stock"

Steps == {"badBlocks", "preflight", "confirm", "arm", "eraseUbi", "erased", "rereadMap",
          "loadChunk", "writeSpan", "readSpan", "chunkDone", "compareMap", "loadBl2",
          "beforeBl2", "blockStop", "eraseBl2", "writeBl2", "readBl2", "done"}

Lowest(S) == CHOOSE x \in S : \A y \in S : x <= y

\* The blocks of the chunk that starts at o.
Chunk(o) == {b \in Image : o <= b /\ b < o + ChunkBlocks}

\* goodSpans: the first maximal run of consecutive blocks in a set of good blocks.
FirstSpan(S) == {b \in S : \A d \in Lowest(S)..b : d \in S}

\* Mutant: the critical areas are not looked at.
AnyMapAcceptable(map) == TRUE

\* validateStockBadBlocks: inside the restored span only the safe window may be bad.
StockAcceptable(map) == map \cap Image \subseteq SafeWindow

End(result) == pc' = "done" /\ outcome' = result

Aborted(result) ==
  /\ End(result)
  /\ UNCHANGED <<content, bad, maps, off, left, ram, muddled, mode, stop>>

Stopped == Aborted("cancelled")

Init ==
  /\ pc = "badBlocks"
  /\ content = [b \in Blocks \cup {Bl2} |-> Original]
  /\ bad \in {S \in SUBSET (Blocks \cup {Bl2}) : Cardinality(S) <= MaxBad}
  /\ maps = <<>> /\ off = 0 /\ left = {}
  /\ ram = [file |-> 0, spoiled |-> {}]
  /\ muddled = FALSE
  /\ mode = "now" /\ stop = "none" /\ outcome = "running"

(***************************************************************************)
(* U-Boot's mtd commands.  They skip bad blocks: the k-th block of data    *)
(* goes to (comes from) the k-th good block at or after the offset.        *)
(***************************************************************************)
GoodBetween(lo, hi, badNow) == Cardinality((lo..hi) \ badNow)

Fits(S, badNow) == Cardinality(S) <= GoodBetween(Lowest(S), NumBlocks - 1, badNow)

\* The physical blocks a write of span S reaches.
Reached(S, badNow) ==
  {p \in Blocks \ badNow : Lowest(S) <= p /\ GoodBetween(Lowest(S), p, badNow) <= Cardinality(S)}

\* The block of data that belongs in physical block p.
DataFor(S, badNow, p) == Lowest(S) + GoodBetween(Lowest(S), p, badNow) - 1

\* What RAM holds where the data of block d should be.
Source(d) == IF d \in Chunk(ram.file) \ ram.spoiled THEN d ELSE Garbage

\* NAND can be programmed only after an erase.
Program(p, d) == IF content[p] = Erased THEN Source(d) ELSE Garbage

AfterWrite(S, badNow) ==
  [p \in DOMAIN content |-> IF p \in Reached(S, badNow)
                            THEN Program(p, DataFor(S, badNow, p))
                            ELSE content[p]]

AfterErase(badNow) ==
  [p \in DOMAIN content |-> IF p \in Blocks \ badNow THEN Erased ELSE content[p]]

ReadsAsImage(S, badNow) ==
  /\ Fits(S, badNow)
  /\ \A p \in Reached(S, badNow) : content[p] = DataFor(S, badNow, p)

\* Blocks that turn bad in the course of an erase or a write over the set S.
GrowsBad(S) ==
  \E new \in SUBSET (S \ bad) :
    /\ Cardinality(bad \cup new) <= MaxBad
    /\ bad' = bad \cup new

(***************************************************************************)
(* The wizard, up to the confirmation: everything is read-only and STOP    *)
(* acts before the next command (stopBeforeCommand).                       *)
(***************************************************************************)
ReadFirstMap ==
  /\ pc = "badBlocks" /\ stop = "none"
  /\ Bl2 \notin bad
  /\ IF IsStock THEN StockAcceptable(bad) ELSE bad = {}
  /\ maps' = <<bad>>
  /\ pc' = "preflight"
  /\ UNCHANGED <<content, bad, off, left, ram, muddled, mode, stop, outcome>>

RefuseFirstMap ==
  /\ pc = "badBlocks" /\ stop = "none"
  /\ Aborted("failed")

LoadFirstChunk ==
  /\ pc = "preflight" /\ stop = "none"
  /\ pc' = "confirm"
  /\ UNCHANGED <<content, bad, maps, off, left, ram, muddled, mode, stop, outcome>>

StopBeforeCommand ==
  /\ pc \in {"badBlocks", "preflight"} /\ stop # "none" /\ mode = "now"
  /\ Stopped

Confirm ==
  /\ pc = "confirm"
  /\ pc' = "arm"
  /\ UNCHANGED <<content, bad, maps, off, left, ram, muddled, mode, stop, outcome>>

Decline == pc = "confirm" /\ Aborted("cancelled")

(***************************************************************************)
(* Erase ubi, then read the map again (stock).                             *)
(***************************************************************************)
Arm ==
  /\ pc = "arm"
  /\ mode' = "checkpoint" /\ pc' = "eraseUbi"
  /\ UNCHANGED <<content, bad, maps, off, left, ram, muddled, stop, outcome>>

\* The erase ran; its answer was good or was lost (ubootPersistentOnce goes on either way).
EraseUbi ==
  /\ pc = "eraseUbi"
  /\ GrowsBad(Blocks)
  /\ content' = AfterErase(bad')
  /\ muddled' \in BOOLEAN
  /\ pc' = "erased"
  /\ UNCHANGED <<maps, off, left, ram, mode, stop, outcome>>

CheckpointAfterErase ==
  /\ pc = "erased" /\ stop = "none"
  /\ pc' = IF IsStock THEN "rereadMap" ELSE "loadChunk"
  /\ UNCHANGED <<content, bad, maps, off, left, ram, muddled, mode, stop, outcome>>

\* The listing may come back empty when the lost answer left a partial line behind.
RereadMap ==
  /\ pc = "rereadMap"
  /\ \E map \in {bad} \cup (IF muddled THEN {{}} ELSE {}) :
       /\ StockAcceptable(map) /\ maps[1] \subseteq map
       /\ maps' = Append(maps, map)
  /\ muddled' = FALSE
  /\ pc' = "loadChunk"
  /\ UNCHANGED <<content, bad, off, left, ram, mode, stop, outcome>>

(***************************************************************************)
(* One chunk: transfer to RAM, then write and read back span after span.   *)
(***************************************************************************)
KnownBad == IF IsStock THEN maps[2] ELSE {}

\* Chunk 0 is still in RAM from the preflight; an all-bad chunk is an error.
LoadChunk ==
  /\ pc = "loadChunk" /\ Chunk(off) \ KnownBad # {}
  /\ left' = Chunk(off) \ KnownBad
  /\ ram' = IF off = 0 THEN ram ELSE [file |-> off, spoiled |-> {}]
  /\ mode' = "checkpoint"
  /\ pc' = "writeSpan"
  /\ UNCHANGED <<content, bad, maps, off, muddled, stop, outcome>>

WriteSpan ==
  /\ pc = "writeSpan"
  /\ LET S == FirstSpan(left) IN
       /\ GrowsBad({b \in Blocks : Lowest(S) <= b})
       /\ Fits(S, bad')
       /\ content' = AfterWrite(S, bad')
  /\ muddled' \in BOOLEAN
  /\ pc' = "readSpan"
  /\ UNCHANGED <<maps, off, left, ram, mode, stop, outcome>>

\* Mutant: mw.b wipes the whole chunk instead of the span.
ReadbackWipesChunk ==
  /\ pc = "readSpan"
  /\ LET S == FirstSpan(left) IN
       /\ ReadsAsImage(S, bad)
       /\ ram' = [ram EXCEPT !.spoiled = @ \cup Chunk(off)]
       /\ left' = left \ S
       /\ pc' = IF left' = {} THEN "chunkDone" ELSE "writeSpan"
  /\ muddled' = FALSE
  /\ UNCHANGED <<content, bad, maps, off, mode, stop, outcome>>

\* readbackCRC: RAM is wiped and filled from flash, at the place the span came from.
ReadbackSpan ==
  /\ pc = "readSpan"
  /\ LET S == FirstSpan(left) IN
       /\ ReadsAsImage(S, bad)
       /\ ram' = [ram EXCEPT !.spoiled = @ \cup S]
       /\ left' = left \ S
       /\ pc' = IF left' = {} THEN "chunkDone" ELSE "writeSpan"
  /\ muddled' = FALSE
  /\ UNCHANGED <<content, bad, maps, off, mode, stop, outcome>>

\* Mutant: the loop drops a last chunk that is shorter than the others.
ShortChunkDropped ==
  /\ pc = "chunkDone" /\ stop = "none"
  /\ off' = off + ChunkBlocks
  /\ pc' = IF off' + ChunkBlocks <= RestoreBlocks THEN "loadChunk"
           ELSE IF IsStock THEN "compareMap" ELSE "loadBl2"
  /\ UNCHANGED <<content, bad, maps, left, ram, muddled, mode, stop, outcome>>

CheckpointAfterChunk ==
  /\ pc = "chunkDone" /\ stop = "none"
  /\ off' = off + ChunkBlocks
  /\ pc' = IF off' < RestoreBlocks THEN "loadChunk"
           ELSE IF IsStock THEN "compareMap" ELSE "loadBl2"
  /\ UNCHANGED <<content, bad, maps, left, ram, muddled, mode, stop, outcome>>

(***************************************************************************)
(* The map once more (stock), then BL2.                                    *)
(***************************************************************************)
\* Mutant: the last listing is not compared with the one after the erase.
MapNotCompared ==
  /\ pc = "compareMap"
  /\ maps' = Append(maps, bad)
  /\ pc' = "loadBl2"
  /\ UNCHANGED <<content, bad, off, left, ram, muddled, mode, stop, outcome>>

CompareMap ==
  /\ pc = "compareMap" /\ bad = maps[2]
  /\ maps' = Append(maps, bad)
  /\ pc' = "loadBl2"
  /\ UNCHANGED <<content, bad, off, left, ram, muddled, mode, stop, outcome>>

LoadBl2 ==
  /\ pc = "loadBl2"
  /\ ram' = [file |-> Bl2, spoiled |-> {}]
  /\ mode' = "checkpoint"
  /\ pc' = "beforeBl2"
  /\ UNCHANGED <<content, bad, maps, off, left, muddled, stop, outcome>>

\* Mutant: BL2's own checkpoint is left out, the one after the last chunk is thought to do.
NoCheckpointBeforeBl2 ==
  /\ pc = "beforeBl2"
  /\ pc' = "blockStop"
  /\ UNCHANGED <<content, bad, maps, off, left, ram, muddled, mode, stop, outcome>>

CheckpointBeforeBl2 ==
  /\ pc = "beforeBl2" /\ stop = "none"
  /\ pc' = "blockStop"
  /\ UNCHANGED <<content, bad, maps, off, left, ram, muddled, mode, stop, outcome>>

BlockStop ==
  /\ pc = "blockStop"
  /\ mode' = "unavailable" /\ pc' = "eraseBl2"
  /\ UNCHANGED <<content, bad, maps, off, left, ram, muddled, stop, outcome>>

EraseBl2 ==
  /\ pc = "eraseBl2"
  /\ content' = [content EXCEPT ![Bl2] = Erased]
  /\ muddled' \in BOOLEAN
  /\ pc' = "writeBl2"
  /\ UNCHANGED <<bad, maps, off, left, ram, mode, stop, outcome>>

WriteBl2 ==
  /\ pc = "writeBl2"
  /\ content' = [content EXCEPT ![Bl2] = IF @ = Erased /\ ram.file = Bl2 THEN Bl2 ELSE Garbage]
  /\ muddled' \in BOOLEAN
  /\ pc' = "readBl2"
  /\ UNCHANGED <<bad, maps, off, left, ram, mode, stop, outcome>>

ReadbackBl2 ==
  /\ pc = "readBl2" /\ content[Bl2] = Bl2
  /\ mode' = "now"
  /\ End("success")
  /\ UNCHANGED <<content, bad, maps, off, left, ram, muddled, stop>>

(***************************************************************************)
(* What can go wrong, and the operator.                                    *)
(***************************************************************************)
Persistent == [eraseUbi |-> "erased", writeSpan |-> "readSpan",
               eraseBl2 |-> "writeBl2", writeBl2 |-> "readBl2"]

\* Where the command at hand changes flash, and what it leaves there when it runs whole.
Target == CASE pc = "eraseUbi"  -> Blocks
            [] pc = "writeSpan" -> {b \in Blocks : Lowest(left) <= b}
            [] OTHER            -> {Bl2}
AfterCommand(badNow) == CASE pc = "eraseUbi"  -> AfterErase(badNow)
                          [] pc = "writeSpan" -> AfterWrite(FirstSpan(left), badNow)
                          [] OTHER            -> content

\* A flash command did not run, or broke off at a block that it spoiled.
NotWhole ==
  \/ UNCHANGED flash
  \/ /\ GrowsBad(Target \ {Bl2})
     /\ \E b \in Target \ bad' :
          content' = [p \in DOMAIN content |-> IF p < b THEN AfterCommand(bad')[p]
                                              ELSE IF p = b THEN Garbage ELSE content[p]]

\* Neither the whole command nor its answer came through (or U-Boot answered for another line):
\* ubootPersistentOnce reports success.
CommandLost ==
  /\ pc \in DOMAIN Persistent
  /\ NotWhole
  /\ pc' = Persistent[pc]
  /\ muddled' \in BOOLEAN
  /\ UNCHANGED <<maps, off, left, ram, mode, stop, outcome>>

\* A flash command answered with a non-zero rc.
CommandFailed ==
  /\ pc \in DOMAIN Persistent
  /\ NotWhole
  /\ End("failed")
  /\ UNCHANGED <<maps, off, left, ram, muddled, mode, stop>>

\* Mutant: readbackCRC reads again for as long as the CRC differs.
ReadbackRetriedForEver ==
  /\ pc \in {"preflight", "rereadMap", "loadChunk", "compareMap", "loadBl2", "readBl2"}
  /\ Aborted("failed")

\* A transfer, a bad-block listing or a readback failed, or a check refused its result.
StepFailed ==
  /\ pc \in {"preflight", "rereadMap", "loadChunk", "readSpan", "compareMap", "loadBl2", "readBl2"}
  /\ Aborted("failed")

\* Mutant: STOP is polled after every span.
CheckpointAfterSpan ==
  /\ pc \in {"erased", "writeSpan", "chunkDone", "beforeBl2"} /\ stop # "none"
  /\ Stopped

CheckpointStops ==
  /\ pc \in {"erased", "chunkDone", "beforeBl2"} /\ stop # "none"
  /\ Stopped

\* A front end's goroutine; in an unavailable phase the request is refused.
RequestStop ==
  /\ outcome = "running" /\ mode # "unavailable"
  /\ stop' = mode
  /\ UNCHANGED <<pc, content, bad, maps, off, left, ram, muddled, mode, outcome>>

Core ==
  \/ ReadFirstMap \/ RefuseFirstMap \/ LoadFirstChunk \/ StopBeforeCommand
  \/ Arm \/ EraseUbi \/ CheckpointAfterErase \/ RereadMap
  \/ LoadChunk \/ WriteSpan \/ ReadbackSpan \/ CheckpointAfterChunk
  \/ CompareMap \/ LoadBl2 \/ CheckpointBeforeBl2 \/ BlockStop
  \/ EraseBl2 \/ WriteBl2 \/ ReadbackBl2
  \/ CommandLost \/ CommandFailed \/ StepFailed \/ CheckpointStops

Operator == Confirm \/ Decline \/ RequestStop

Next == Core \/ Operator

Spec == Init /\ [][Next]_vars

\* Every wait of the wizard has a deadline, so an enabled step of it is taken; the
\* operator owes nothing.
FairSpec == Spec /\ WF_vars(Core)

-----------------------------------------------------------------------------
TypeOK ==
  /\ pc \in Steps
  /\ content \in [Blocks \cup {Bl2} -> Contents]
  /\ bad \in SUBSET (Blocks \cup {Bl2})
  /\ maps \in Seq(SUBSET Blocks)
  /\ off \in Nat
  /\ left \in SUBSET Image
  /\ ram \in [file : Nat, spoiled : SUBSET Image]
  /\ muddled \in BOOLEAN
  /\ mode \in {"now", "checkpoint", "unavailable"}
  /\ stop \in {"none", "now", "checkpoint"}
  /\ outcome \in {"running", "success", "failed", "cancelled"}

\* The bad blocks a finished restore may leave unwritten.
Skippable == IF IsStock THEN bad \cap SafeWindow ELSE {}

\* The blocks of the image that are where they belong.
InPlace == {b \in Image : content[b] = b \/ b \in Skippable}

\* BL2 is erased only when every block of the image is in flash at its own place, apart
\* from the bad blocks stock can live with: whatever answers were lost and whichever
\* blocks went bad on the way (the order of stockRestoreWizard and its three listings).
ImageBeforeBl2 == content[Bl2] # Original => InPlace = Image

\* A span is written from RAM that still holds the file's data for it: no readback of an
\* earlier span, which reads into the same buffer, and no other file is in the way.
SourceInRam == pc = "writeSpan" => FirstSpan(left) \subseteq Chunk(ram.file) \ ram.spoiled

\* STOP ends the operation between chunks: what flash holds of the image are whole chunks, from
\* the first one on, each written and read back; of the next one there is nothing, though an
\* erase that broke off unseen may have left it neither old nor erased.  A block that went bad
\* and that no listing has shown yet is excepted.
NoHalfChunkWhenStopped ==
  outcome = "cancelled" /\ (maps # <<>> => maps[Len(maps)] = bad) =>
    \E written \in {0, off, off + ChunkBlocks} :
      \A b \in Image \ bad : IF b < written THEN content[b] = b ELSE content[b] \notin Image

\* A STOP that is accepted before the last look for it, in whatever phase, ends the operation
\* with the old BL2 in place, or a failure does.
BeforeLastLook == pc \notin {"blockStop", "eraseBl2", "writeBl2", "readBl2", "done"}
EarlyStopKeepsBl2 ==
  [](stop # "none" /\ BeforeLastLook => [](content[Bl2] = Original /\ outcome # "success"))

Contract == INSTANCE FlashContract WITH
  Parts  <- Image,
  proven <- InPlace,
  bl2    <- CASE content[Bl2] = Original -> "original"
              [] content[Bl2] = Bl2      -> "image"
              [] OTHER                   -> "unsafe"

\* Both wizards implement the contract every writing wizard is held to.
ImplementsContract == Contract!Spec

\* A confirmed restore comes to an end: success, failure or a stop at a checkpoint.
RestoreEnds == pc = "arm" ~> outcome # "running"

(***************************************************************************)
(* What the documentation says of these wizards and the code does not do.  *)
(***************************************************************************)
\* A STOP accepted with the label of a checkpoint ends the operation there, before BL2
\* (operations.go, RequestStop): pressed after the last checkpoint it is accepted, and
\* BL2 is erased all the same.
PromisedStopKeepsBl2 == stop = "checkpoint" => content[Bl2] = Original

\* A STOP accepted in the "at once" phase means that nothing is written to flash
\* (UI_SPEC section 17): pressed after the confirmation it does not stop the erase.
NowStopKeepsFlash == stop = "now" => \A b \in Blocks : content[b] = Original
==============================================================================
