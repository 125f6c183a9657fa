-------------------------- MODULE NandRestoreProofs --------------------------
(***************************************************************************)
(* For every size of the partition, of the image and of its chunks and for *)
(* every set of bad blocks, of either format: a restore erases BL2 only    *)
(* when the image is in place, it implements FlashContract, it writes from *)
(* intact RAM, and STOP ends it between chunks and, accepted early enough, *)
(* before BL2.                                                             *)
(***************************************************************************)
EXTENDS NandRestore, FiniteSetTheorems, SequenceTheorems, TLAPS

(***************************************************************************)
(* Facts about the operators of NandRestore.                               *)
(***************************************************************************)
\* A nonempty set of naturals has a least element, so Lowest is that element.
LEMMA LowestIsLeast ==
  ASSUME NEW S \in SUBSET Nat, S # {}
  PROVE  Lowest(S) \in S /\ \A y \in S : Lowest(S) <= y
<1> DEFINE Below(x) == S \cap (0..x)
           T == {Below(x) : x \in S}
           R == StrictSubsetOrdering(Nat)
<1>1. \A x \in S : Below(x) \in SUBSET Nat /\ IsFiniteSet(Below(x))
  <2> TAKE x \in S
  <2>1. IsFiniteSet(0..x)
    BY FS_Interval
  <2> QED
    BY <2>1, FS_Intersection, FS_Subset
<1>2. T \subseteq FiniteSubsetsOf(Nat) /\ T # {}
  BY <1>1 DEF FiniteSubsetsOf
<1>3. PICK A \in T : \A B \in T : ~(<<B, A>> \in R)
  <2>1. IsWellFoundedOn(R, FiniteSubsetsOf(Nat))
    BY FS_StrictSubsetOrderingWellFounded
  <2> HIDE DEF T, R
  <2> QED
    BY <2>1, <1>2, WFMin
<1>4. PICK x \in S : A = Below(x)
  BY <1>3
<1>5. \A y \in S : x <= y
  <2> SUFFICES ASSUME NEW y \in S, y < x PROVE FALSE
    OBVIOUS
  <2>1. Below(y) \subseteq Below(x) /\ x \in Below(x) /\ x \notin Below(y)
    OBVIOUS
  <2>2. <<Below(y), Below(x)>> \in R
    BY <2>1, <1>1 DEF StrictSubsetOrdering
  <2> QED
    BY <2>2, <1>3, <1>4
<1> QED
  BY <1>5 DEF Lowest

\* The first span starts at the chunk's least unwritten block and has no gap.
LEMMA SpanIsInterval ==
  ASSUME NEW L \in SUBSET Nat, L # {}, NEW b \in FirstSpan(L)
  PROVE  /\ Lowest(L) \in Nat /\ Lowest(L) \in FirstSpan(L)
         /\ b \in Nat /\ Lowest(L) <= b
         /\ Lowest(L)..b \subseteq FirstSpan(L)
<1> DEFINE lo == Lowest(L)
<1>1. lo \in L /\ \A y \in L : lo <= y
  BY LowestIsLeast
<1> HIDE DEF lo
<1>2. FirstSpan(L) = {x \in L : \A d \in lo..x : d \in L}
  BY DEF FirstSpan, lo
<1>3. lo \in Nat /\ b \in Nat /\ lo <= b /\ \A d \in lo..b : d \in L
  BY <1>1, <1>2
<1>4. \A d \in lo..lo : d = lo
  BY <1>3
<1>5. \A d \in lo..b : lo..d \subseteq lo..b
  BY <1>3
<1> QED
  BY <1>1, <1>2, <1>3, <1>4, <1>5 DEF lo

\* A span is a finite set and keeps the least block of the chunk.
LEMMA SpanBasics ==
  ASSUME NEW L \in SUBSET Nat, L # {}, IsFiniteSet(L)
  PROVE  /\ IsFiniteSet(FirstSpan(L)) /\ FirstSpan(L) \subseteq L /\ FirstSpan(L) # {}
         /\ Lowest(FirstSpan(L)) = Lowest(L)
<1>1. Lowest(L) \in L /\ \A y \in L : Lowest(L) <= y
  BY LowestIsLeast
<1>2. FirstSpan(L) \subseteq L /\ Lowest(L) \in FirstSpan(L)
  <2>1. \A d \in Lowest(L)..Lowest(L) : d = Lowest(L)
    BY <1>1
  <2> QED
    BY <1>1, <2>1 DEF FirstSpan
<1>3. Lowest(FirstSpan(L)) \in FirstSpan(L) /\ \A y \in FirstSpan(L) : Lowest(FirstSpan(L)) <= y
  BY <1>2, LowestIsLeast
<1>4. Lowest(FirstSpan(L)) = Lowest(L)
  <2>1. \A x, y \in Nat : x <= y /\ y <= x => x = y
    OBVIOUS
  <2> QED
    BY <1>1, <1>2, <1>3, <2>1
<1> QED
  BY <1>2, <1>4, FS_Subset

\* A write around exactly the blocks that are bad stays inside its span.
LEMMA WriteStaysInSpan ==
  ASSUME NEW L \in SUBSET Nat, L # {}, IsFiniteSet(L),
         NEW K, L \cap K = {}
  PROVE  Reached(FirstSpan(L), K) \subseteq FirstSpan(L)
<1> DEFINE S == FirstSpan(L)
           lo == Lowest(L)
<1>1. /\ IsFiniteSet(S) /\ S \subseteq L /\ S # {} /\ Lowest(S) = lo
      /\ lo \in Nat /\ lo \in S
  BY SpanBasics, SpanIsInterval
<1> SUFFICES ASSUME NEW p \in Reached(S, K), p \notin S PROVE FALSE
  OBVIOUS
<1>2. p \in Nat /\ p \notin K /\ lo <= p /\ Cardinality((lo..p) \ K) <= Cardinality(S)
  BY RestoreAssumption, <1>1 DEF Reached, GoodBetween, Blocks
<1>3. S \subseteq (lo..p) \ K
  <2> SUFFICES ASSUME NEW b \in S PROVE b \in lo..p /\ b \notin K
    OBVIOUS
  <2>1. b \in Nat /\ lo <= b /\ lo..b \subseteq S
    BY SpanIsInterval
  <2>2. ~(p <= b)
    BY <2>1, <1>1, <1>2
  <2> QED
    BY <2>1, <2>2, <1>1, <1>2
<1>4. IsFiniteSet((lo..p) \ K)
  <2>1. IsFiniteSet(lo..p)
    BY <1>1, <1>2, FS_Interval
  <2> QED
    BY <2>1, FS_Subset
<1>5. S \cup {p} \subseteq (lo..p) \ K
  BY <1>1, <1>2, <1>3
<1>6. /\ IsFiniteSet(S \cup {p}) /\ Cardinality(S \cup {p}) = Cardinality(S) + 1
      /\ Cardinality(S) \in Nat
  BY <1>1, FS_AddElement, FS_CardinalityType
<1>7. Cardinality(S \cup {p}) <= Cardinality((lo..p) \ K) /\ Cardinality((lo..p) \ K) \in Nat
  BY <1>4, <1>5, FS_Subset, FS_CardinalityType
<1> QED
  BY <1>2, <1>6, <1>7

\* Around exactly the blocks that are bad, each block of the span is reached and gets its own data.
LEMMA SpanInOrder ==
  ASSUME NEW L \in SUBSET Blocks, L # {}, IsFiniteSet(L),
         NEW K, L \cap K = {}, NEW b \in FirstSpan(L)
  PROVE  b \in Reached(FirstSpan(L), K) /\ DataFor(FirstSpan(L), K, b) = b
<1> DEFINE S == FirstSpan(L)
           lo == Lowest(L)
<1>0. L \in SUBSET Nat
  BY RestoreAssumption DEF Blocks
<1>1. /\ IsFiniteSet(S) /\ S \subseteq L /\ Lowest(S) = lo
      /\ lo \in Nat /\ b \in Nat /\ lo <= b /\ lo..b \subseteq S
  BY <1>0, SpanBasics, SpanIsInterval
<1>2. (lo..b) \ K = lo..b
  BY <1>1
<1>3. Cardinality(lo..b) = b - lo + 1
  BY <1>1, FS_Interval
<1>4. Cardinality(lo..b) <= Cardinality(S)
  BY <1>1, FS_Subset
<1>5. GoodBetween(lo, b, K) = b - lo + 1
  BY <1>2, <1>3 DEF GoodBetween
<1>6. b \in Blocks \ K
  BY <1>1
<1> QED
  BY <1>1, <1>3, <1>4, <1>5, <1>6 DEF Reached, DataFor

\* Both bounds of the partition are ordinary naturals, and BL2 is not a block of ubi.
LEMMA Layout ==
         /\ Image \subseteq Blocks /\ Blocks \subseteq Nat
         /\ Bl2 \in Nat /\ Bl2 \notin Blocks
         /\ \A S \in SUBSET Image : IsFiniteSet(S)
<1>1. IsFiniteSet(Image)
  BY RestoreAssumption, FS_Interval DEF Image
<1>2. \A S \in SUBSET Image : IsFiniteSet(S)
  BY <1>1, FS_Subset
<1> QED
  BY RestoreAssumption, <1>2 DEF Image, Blocks, Bl2

(***************************************************************************)
(* Type correctness.                                                       *)
(***************************************************************************)
\* BL2 is known to be good once the first listing has been read.
Bl2Good == pc \notin {"badBlocks", "done"} => Bl2 \notin bad

TypeInv == TypeOK /\ Bl2Good

LEMMA TypeInit ==
  ASSUME Init
  PROVE  TypeInv
<1>1. content \in [Blocks \cup {Bl2} -> Contents]
  BY DEF Init, Contents
<1>2. ram \in [file : Nat, spoiled : SUBSET Image] /\ left \in SUBSET Image
  BY DEF Init
<1>3. maps \in Seq(SUBSET Blocks)
  BY DEF Init
<1>4. bad \in SUBSET (Blocks \cup {Bl2})
  BY DEF Init
<1> QED
  BY <1>1, <1>2, <1>3, <1>4 DEF Init, TypeInv, TypeOK, Bl2Good, Steps

\* A bad block that appears in the course of a command on ubi is a block of ubi.
LEMMA GrowsType ==
  ASSUME NEW S \in SUBSET Blocks, TypeInv, GrowsBad(S)
  PROVE  /\ bad' \in SUBSET (Blocks \cup {Bl2}) /\ bad \subseteq bad'
         /\ bad' \ bad \subseteq Blocks
BY DEF GrowsBad, TypeInv, TypeOK

\* A write leaves data of the image, garbage, or what was there.
LEMMA WriteType ==
  ASSUME TypeOK, NEW S, NEW K
  PROVE  AfterWrite(S, K) \in [Blocks \cup {Bl2} -> Contents]
<1>1. \A d : Source(d) \in Contents
  BY DEF Source, Chunk, Contents
<1>2. \A p, d : Program(p, d) \in Contents
  BY <1>1 DEF Program, Contents
<1> QED
  BY <1>2 DEF AfterWrite, TypeOK

\* What a flash command that ran half or not at all may have changed.
LEMMA HalfEffect ==
  ASSUME TypeInv, NotWhole, pc \in DOMAIN Persistent
  PROVE  /\ pc \in {"eraseUbi", "writeSpan", "eraseBl2", "writeBl2"}
         /\ content' \in [Blocks \cup {Bl2} -> Contents]
         /\ bad' \in SUBSET (Blocks \cup {Bl2}) /\ bad \subseteq bad' /\ Bl2 \notin bad'
         /\ pc \in {"eraseUbi", "writeSpan"} => content'[Bl2] = content[Bl2]
         /\ pc \in {"eraseBl2", "writeBl2"} =>
              /\ bad' = bad
              /\ \A b \in Image : content'[b] = content[b]
              /\ content'[Bl2] = Original => content[Bl2] = Original
         /\ pc = "eraseUbi" => \A b \in Blocks : content'[b] \in {content[b], Erased, Garbage}
         /\ pc = "writeSpan" =>
              /\ \A b \in bad' \ bad : Lowest(left) <= b
              /\ \A b \in Blocks : \/ content'[b] = content[b]
                                   \/ content'[b] = AfterWrite(FirstSpan(left), bad')[b]
                                   \/ content'[b] = Garbage /\ Lowest(left) <= b
<1> USE Layout
<1>1. /\ pc \in {"eraseUbi", "writeSpan", "eraseBl2", "writeBl2"} /\ Bl2 \notin bad
      /\ bad \in SUBSET (Blocks \cup {Bl2}) /\ content \in [Blocks \cup {Bl2} -> Contents]
  BY DEF Persistent, TypeInv, TypeOK, Bl2Good
<1>2. CASE UNCHANGED flash
  BY <1>1, <1>2 DEF flash
<1>3. CASE ~UNCHANGED flash
  <2>1. /\ GrowsBad(Target \ {Bl2})
        /\ \E b \in Target \ bad' :
             content' = [p \in DOMAIN content |-> IF p < b THEN AfterCommand(bad')[p]
                                                 ELSE IF p = b THEN Garbage ELSE content[p]]
    BY <1>3 DEF NotWhole
  <2>2. PICK b \in Target \ bad' :
             content' = [p \in DOMAIN content |-> IF p < b THEN AfterCommand(bad')[p]
                                                 ELSE IF p = b THEN Garbage ELSE content[p]]
    BY <2>1
  <2>3. bad \subseteq bad' /\ bad' \ bad \subseteq Target \ {Bl2}
    BY <2>1 DEF GrowsBad
  <2>4. Garbage \in Contents /\ Erased \in Contents /\ Garbage # Original
    BY DEF Contents, Garbage, Original
  <2>5. CASE pc = "eraseUbi"
    <3>1. Target = Blocks /\ AfterCommand(bad') = AfterErase(bad')
      BY <2>5 DEF Target, AfterCommand
    <3>2. \A q \in Blocks : AfterErase(bad')[q] \in {content[q], Erased}
      BY <1>1 DEF AfterErase
    <3>3. \A q \in Blocks : content'[q] \in {content[q], Erased, Garbage}
      BY <1>1, <2>2, <3>1, <3>2
    <3>4. content'[Bl2] = content[Bl2]
      BY <1>1, <2>2, <3>1 DEF Blocks, Bl2
    <3>5. content' \in [Blocks \cup {Bl2} -> Contents]
      <4>1. content' = [p \in Blocks \cup {Bl2} |-> content'[p]]
        BY <1>1, <2>2
      <4> QED
        BY <1>1, <2>4, <3>3, <3>4, <4>1
    <3> QED
      BY <1>1, <2>3, <2>5, <3>1, <3>3, <3>4, <3>5
  <2>6. CASE pc = "writeSpan"
    <3> DEFINE W == AfterWrite(FirstSpan(left), bad')
    <3>1. Target = {q \in Blocks : Lowest(left) <= q} /\ AfterCommand(bad') = W
      BY <2>6 DEF Target, AfterCommand
    <3>2. W \in [Blocks \cup {Bl2} -> Contents]
      BY WriteType DEF TypeInv
    <3> HIDE DEF W
    <3>3. \A q \in Blocks : \/ content'[q] = content[q]
                            \/ content'[q] = W[q]
                            \/ content'[q] = Garbage /\ Lowest(left) <= q
      BY <1>1, <2>2, <3>1
    <3>4. content'[Bl2] = content[Bl2]
      BY <1>1, <2>2, <3>1 DEF Blocks, Bl2
    <3>5. content' \in [Blocks \cup {Bl2} -> Contents]
      <4>1. content' = [p \in Blocks \cup {Bl2} |-> content'[p]]
        BY <1>1, <2>2
      <4> QED
        BY <1>1, <2>4, <3>2, <3>3, <3>4, <4>1
    <3> QED
      BY <1>1, <2>3, <2>6, <3>1, <3>3, <3>4, <3>5 DEF W
  <2>7. CASE pc \in {"eraseBl2", "writeBl2"}
    <3>1. Target = {Bl2} /\ AfterCommand(bad') = content /\ b = Bl2
      BY <2>7 DEF Target, AfterCommand
    <3>2. bad' = bad
      BY <2>3, <3>1
    <3>3. content'[Bl2] = Garbage /\ \A q \in Blocks : content'[q] = content[q]
      BY <1>1, <2>2, <3>1
    <3>4. content' \in [Blocks \cup {Bl2} -> Contents]
      <4>1. content' = [p \in Blocks \cup {Bl2} |-> content'[p]]
        BY <1>1, <2>2
      <4> QED
        BY <1>1, <2>4, <3>3, <4>1
    <3> QED
      BY <1>1, <2>4, <2>7, <3>2, <3>3, <3>4
  <2> QED
    BY <1>1, <2>5, <2>6, <2>7
<1> QED
  BY <1>2, <1>3

\* A write that ran whole changes blocks of ubi.
LEMMA WholeWrite ==
  ASSUME TypeInv, WriteSpan
  PROVE  /\ bad \subseteq bad' /\ \A b \in bad' \ bad : Lowest(FirstSpan(left)) <= b
         /\ content' = AfterWrite(FirstSpan(left), bad') /\ content'[Bl2] = content[Bl2]
<1>1. Bl2 \notin Reached(FirstSpan(left), bad')
  BY Layout DEF Reached
<1> QED
  BY <1>1 DEF WriteSpan, GrowsBad, AfterWrite, TypeInv, TypeOK

LEMMA TypeNext ==
  ASSUME TypeInv, [Next]_vars
  PROVE  TypeInv'
<1> USE Layout DEF TypeInv, Bl2Good, Steps
<1>0. /\ pc \in Steps /\ bad \in SUBSET (Blocks \cup {Bl2})
      /\ maps \in Seq(SUBSET Blocks) /\ content \in [Blocks \cup {Bl2} -> Contents]
  BY DEF TypeOK
<1>1. CASE ReadFirstMap
  <2>1. maps' \in Seq(SUBSET Blocks)
    BY <1>0, <1>1 DEF ReadFirstMap
  <2> QED
    BY <1>1, <2>1 DEF ReadFirstMap, TypeOK
<1>2. CASE RefuseFirstMap \/ StopBeforeCommand \/ Decline \/ StepFailed \/ CheckpointStops
  BY <1>2 DEF RefuseFirstMap, StopBeforeCommand, Decline, StepFailed, CheckpointStops,
              Stopped, Aborted, End, TypeOK
<1>3. CASE LoadFirstChunk \/ Confirm \/ Arm \/ CheckpointAfterErase
  BY <1>3 DEF LoadFirstChunk, Confirm, Arm, CheckpointAfterErase, TypeOK
<1>4. CASE EraseUbi
  <2>1. bad' \in SUBSET (Blocks \cup {Bl2}) /\ Bl2 \notin bad'
    BY <1>4, GrowsType DEF EraseUbi
  <2>2. content' \in [Blocks \cup {Bl2} -> Contents]
    BY <1>0, <1>4 DEF EraseUbi, AfterErase, Contents
  <2> QED
    BY <1>4, <2>1, <2>2 DEF EraseUbi, TypeOK
<1>5. CASE RereadMap
  <2>1. maps' \in Seq(SUBSET Blocks)
    BY <1>0, <1>5 DEF RereadMap
  <2> QED
    BY <1>5, <2>1 DEF RereadMap, TypeOK
<1>6. CASE LoadChunk
  <2>1. left' \in SUBSET Image
    BY <1>6 DEF LoadChunk, Chunk
  <2> QED
    BY <1>6, <2>1 DEF LoadChunk, TypeOK
<1>7. CASE WriteSpan
  <2>1. bad' \in SUBSET (Blocks \cup {Bl2}) /\ Bl2 \notin bad'
    BY <1>7, GrowsType DEF WriteSpan
  <2>2. content' \in [Blocks \cup {Bl2} -> Contents]
    BY <1>7, WriteType DEF WriteSpan
  <2> QED
    BY <1>7, <2>1, <2>2 DEF WriteSpan, TypeOK
<1>8. CASE ReadbackSpan
  <2>1. left \in SUBSET Image /\ FirstSpan(left) \subseteq left
    BY DEF TypeOK, FirstSpan
  <2>2. ram' \in [file : Nat, spoiled : SUBSET Image] /\ left' \in SUBSET Image
    BY <1>8, <2>1 DEF ReadbackSpan, TypeOK
  <2> QED
    BY <1>8, <2>2 DEF ReadbackSpan, TypeOK
<1>9. CASE CheckpointAfterChunk
  <2>1. off' \in Nat
    BY RestoreAssumption, <1>9 DEF CheckpointAfterChunk, TypeOK
  <2> QED
    BY <1>9, <2>1 DEF CheckpointAfterChunk, TypeOK
<1>10. CASE CompareMap
  <2>1. maps' \in Seq(SUBSET Blocks)
    BY <1>0, <1>10 DEF CompareMap
  <2> QED
    BY <1>10, <2>1 DEF CompareMap, TypeOK
<1>11. CASE LoadBl2
  <2>1. ram' \in [file : Nat, spoiled : SUBSET Image]
    BY <1>11 DEF LoadBl2
  <2> QED
    BY <1>11, <2>1 DEF LoadBl2, TypeOK
<1>18. CASE CheckpointBeforeBl2 \/ BlockStop
  BY <1>18 DEF CheckpointBeforeBl2, BlockStop, TypeOK
<1>12. CASE EraseBl2 \/ WriteBl2
  <2>1. content' \in [Blocks \cup {Bl2} -> Contents]
    BY <1>0, <1>12 DEF EraseBl2, WriteBl2, Contents
  <2> QED
    BY <1>12, <2>1 DEF EraseBl2, WriteBl2, TypeOK
<1>13. CASE ReadbackBl2
  BY <1>13 DEF ReadbackBl2, End, TypeOK
<1>14. CASE CommandLost
  <2>1. /\ content' \in [Blocks \cup {Bl2} -> Contents]
        /\ bad' \in SUBSET (Blocks \cup {Bl2}) /\ Bl2 \notin bad'
    BY <1>14, HalfEffect DEF CommandLost
  <2> QED
    BY <1>14, <2>1 DEF CommandLost, Persistent, TypeOK
<1>15. CASE CommandFailed
  <2>1. /\ content' \in [Blocks \cup {Bl2} -> Contents]
        /\ bad' \in SUBSET (Blocks \cup {Bl2})
    BY <1>15, HalfEffect DEF CommandFailed
  <2> QED
    BY <1>15, <2>1 DEF CommandFailed, End, TypeOK
<1>16. CASE RequestStop
  BY <1>16 DEF RequestStop, TypeOK
<1>17. CASE UNCHANGED vars
  BY <1>17 DEF vars, TypeOK
<1> QED
  BY <1>1, <1>2, <1>3, <1>4, <1>5, <1>6, <1>7, <1>8, <1>9, <1>10, <1>11, <1>12, <1>13,
     <1>14, <1>15, <1>16, <1>17, <1>18 DEF Next, Core, Operator

\* Whatever the sizes and the bad blocks, every variable keeps its type (both wizards).
THEOREM TypeCorrect == Spec => []TypeOK
<1>1. Init => TypeInv
  BY TypeInit
<1>2. TypeInv /\ [Next]_vars => TypeInv'
  BY TypeNext
<1>3. TypeInv => TypeOK
  BY DEF TypeInv
<1> QED
  BY <1>1, <1>2, <1>3, PTL DEF Spec

(***************************************************************************)
(* The inductive invariant of stock restore.  A step may only be trusted   *)
(* with BL2 because the listing after the erase, maps[2], is compared with *)
(* the last one: if they agree, and bad blocks never heal, every write in  *)
(* between skipped exactly the blocks its spans go around.                 *)
(***************************************************************************)
InChunk == {"writeSpan", "readSpan", "chunkDone"}
AtBl2   == {"eraseBl2", "writeBl2", "readBl2"}
Agreed  == {"loadBl2", "beforeBl2", "blockStop"} \cup AtBl2
Late    == {"loadChunk", "compareMap"} \cup InChunk \cup Agreed

\* Which listings have been read at each step, and what the second one is good for.
Listings ==
  /\ pc \notin Late \cup {"badBlocks", "done"} => Len(maps) = 1
  /\ pc \in Late => /\ Len(maps) >= 2
                    /\ maps[2] \subseteq bad
                    /\ StockAcceptable(maps[2])

\* What remains of the image, and of the chunk at hand.
Remaining ==
  /\ pc \notin Late \cup {"done"} => off = 0
  /\ pc \in InChunk => left \subseteq Chunk(off) \ maps[2]
  /\ pc \in {"writeSpan", "readSpan"} =>
       /\ left # {}
       /\ \A b \in Chunk(off) \ (left \cup maps[2]), d \in left : b < d
  /\ pc = "chunkDone" => left = {}

\* The blocks of the image the wizard has finished with.
Finished == {b \in Image : b < off \/ (pc \in InChunk /\ b \in Chunk(off) /\ b \notin left)}

\* Unless a block has gone bad since the second listing, finished blocks are in place.
Placed == pc \in Late /\ bad = maps[2] => \A b \in Finished \ bad : content[b] = b

\* After the comparison every block is finished and no block has gone bad since.
Compared ==
  /\ pc \in Agreed => bad = maps[2]
  /\ pc \in Agreed \cup {"compareMap"} => off >= RestoreBlocks

\* BL2 keeps its content until the steps that replace it.
Bl2Untouched == content[Bl2] # Original => pc \in {"writeBl2", "readBl2", "done"}

Ended == pc = "done" <=> outcome # "running"

IInv ==
  TypeInv /\ Listings /\ Remaining /\ Placed /\ Compared /\ Bl2Untouched /\ Ended /\ ImageBeforeBl2

LEMMA IInvInit ==
  ASSUME Init
  PROVE  IInv
<1>1. content[Bl2] = Original
  BY DEF Init
<1> QED
  BY <1>1, TypeInit DEF Init, IInv, Listings, Remaining, Placed, Compared, Bl2Untouched, Ended,
     ImageBeforeBl2, Late, InChunk, Agreed, AtBl2

\* Once the listings agree, whatever is not in place is a bad block stock can live with.
LEMMA AgreedInPlace ==
  ASSUME Format = "stock", IInv, pc \in Agreed
  PROVE  InPlace = Image
<1>1. bad = maps[2] /\ off >= RestoreBlocks /\ StockAcceptable(bad)
  BY DEF IInv, Compared, Listings, Late
<1>2. \A b \in Image : b < off
  BY <1>1, RestoreAssumption DEF Image, IInv, TypeInv, TypeOK
<1>3. \A b \in Image \ bad : content[b] = b
  BY <1>1, <1>2 DEF IInv, Placed, Finished, Late
<1>4. \A b \in Image \cap bad : b \in Skippable
  BY <1>1 DEF StockAcceptable, Skippable, IsStock
<1> QED
  BY <1>3, <1>4 DEF InPlace

\* InPlace looks at the blocks of the image only.
LEMMA InPlaceFrame ==
  ASSUME bad' = bad, \A b \in Image : content'[b] = content[b]
  PROVE  InPlace' = InPlace
BY DEF InPlace, Skippable

\* Steps that leave flash, listings and chunk alone.
LEMMA QuietStep ==
  ASSUME Format = "stock", IInv, TypeInv',
         UNCHANGED <<content, bad, maps, off, left>>,
         \/ pc' = "done" /\ outcome' # "running"
         \/ UNCHANGED <<pc, outcome>>
         \/ /\ UNCHANGED outcome
            /\ <<pc, pc'>> \in
                 {<<"preflight", "confirm">>, <<"confirm", "arm">>, <<"arm", "eraseUbi">>,
                  <<"eraseUbi", "erased">>, <<"erased", "rereadMap">>,
                  <<"writeSpan", "readSpan">>, <<"loadBl2", "beforeBl2">>,
                  <<"beforeBl2", "blockStop">>, <<"blockStop", "eraseBl2">>,
                  <<"eraseBl2", "writeBl2">>, <<"writeBl2", "readBl2">>}
  PROVE  IInv'
<1> USE DEF IInv, Late, InChunk, Agreed, AtBl2
<1>1. Listings'
  BY DEF Listings, StockAcceptable
<1>2. Remaining'
  BY DEF Remaining, Chunk
<1>3. Placed'
  BY DEF Placed, Finished, Chunk, Listings
<1>4. Compared'
  BY DEF Compared
<1>5. Bl2Untouched' /\ Ended'
  BY DEF Bl2Untouched, Ended, TypeInv, TypeOK
<1>6. ImageBeforeBl2'
  <2>1. InPlace' = InPlace
    BY InPlaceFrame
  <2> QED
    BY <2>1 DEF ImageBeforeBl2
<1> QED
  BY <1>1, <1>2, <1>3, <1>4, <1>5, <1>6

\* Steps of the wizard before BL2: its block stays, so only the chunks' part is disturbed.
LEMMA Bl2Kept ==
  ASSUME IInv, content'[Bl2] = content[Bl2], pc \notin AtBl2 \cup {"done"},
         pc' # "done", UNCHANGED outcome
  PROVE  Bl2Untouched' /\ Ended' /\ ImageBeforeBl2'
<1>1. content'[Bl2] = Original
  BY DEF IInv, Bl2Untouched, AtBl2
<1> QED
  BY <1>1 DEF IInv, Bl2Untouched, Ended, ImageBeforeBl2, Original

LEMMA AppendOne ==
  ASSUME NEW T, NEW s \in Seq(T), NEW x \in T, Len(s) = 1
  PROVE  Len(Append(s, x)) = 2 /\ Append(s, x)[2] = x
<1>1. /\ Len(Append(s, x)) = Len(s) + 1
      /\ Append(s, x)[Len(s) + 1] = x
  BY AppendProperties
<1> QED
  BY <1>1

\* The listing after the erase is acceptable and shows no block that is not bad.
LEMMA RereadStep ==
  ASSUME Format = "stock", IInv, TypeInv', RereadMap
  PROVE  IInv'
<1> USE DEF RereadMap, Late, InChunk, Agreed, AtBl2
<1>1. Len(maps) = 1 /\ maps \in Seq(SUBSET Blocks)
  BY DEF IInv, Listings, TypeInv, TypeOK
<1>2. PICK map \in SUBSET bad : StockAcceptable(map) /\ maps' = Append(maps, map)
  OBVIOUS
<1>3. map \in SUBSET Blocks
  BY <1>2 DEF IInv, TypeInv, TypeOK, Bl2Good
<1>4. Len(maps') = 2 /\ maps'[2] = map
  BY <1>1, <1>2, <1>3, AppendOne
<1>5. Listings'
  BY <1>2, <1>4 DEF Listings, StockAcceptable
<1>6. Remaining' /\ Placed' /\ Compared'
  <2>1. off = 0 /\ off' = 0
    BY DEF IInv, Remaining
  <2>2. \A b \in Image : ~(b < off')
    BY <2>1, Layout
  <2> QED
    BY <2>2 DEF Remaining, Placed, Compared, Finished
<1>7. Bl2Untouched' /\ Ended' /\ ImageBeforeBl2'
  BY Bl2Kept
<1> QED
  BY <1>5, <1>6, <1>7 DEF IInv

\* A new chunk: nothing of it is finished.
LEMMA LoadChunkStep ==
  ASSUME Format = "stock", IInv, TypeInv', LoadChunk
  PROVE  IInv'
<1> USE DEF LoadChunk, KnownBad, IsStock, Late, InChunk, Agreed, AtBl2
<1>1. Listings' /\ Compared'
  BY DEF IInv, Listings, Compared, StockAcceptable
<1>2. Remaining'
  BY DEF IInv, Remaining, Chunk
<1>3. Placed'
  <2> SUFFICES ASSUME bad = maps[2], NEW b \in Finished' \ bad PROVE content[b] = b
    BY DEF Placed
  <2>1. b \in Image /\ b < off
    BY DEF Finished, Chunk
  <2> QED
    BY <2>1 DEF IInv, Placed, Finished
<1>4. Bl2Untouched' /\ Ended' /\ ImageBeforeBl2'
  BY Bl2Kept
<1> QED
  BY <1>1, <1>2, <1>3, <1>4 DEF IInv

\* A write, whole or not, reaches nothing that is finished, or a block has gone bad since the
\* listing.
LEMMA WriteSpanStep ==
  ASSUME Format = "stock", IInv, TypeInv', pc = "writeSpan", pc' = "readSpan",
         UNCHANGED <<maps, off, left, outcome>>, bad \subseteq bad', content'[Bl2] = content[Bl2],
         \A b \in Blocks : \/ content'[b] = content[b]
                           \/ content'[b] = AfterWrite(FirstSpan(left), bad')[b]
                           \/ content'[b] = Garbage /\ Lowest(left) <= b
  PROVE  IInv'
<1> USE DEF Late, InChunk, Agreed, AtBl2
<1>1. /\ left \in SUBSET Image /\ left # {} /\ left \cap maps[2] = {}
      /\ left \in SUBSET Nat /\ IsFiniteSet(left)
  BY Layout DEF IInv, TypeInv, TypeOK, Remaining
<1>2. bad \subseteq bad' /\ maps[2] \subseteq bad
  BY DEF IInv, Listings
<1>3. Listings' /\ Remaining' /\ Compared'
  BY <1>2 DEF IInv, Listings, Remaining, Compared, StockAcceptable, Chunk
<1>4. Placed'
  <2> SUFFICES ASSUME bad' = maps[2], NEW b \in Finished' \ bad' PROVE content'[b] = b
    BY DEF Placed
  <2>1. bad = maps[2]
    BY <1>2
  <2>2. b \in Finished \ bad
    BY <2>1 DEF Finished, Chunk
  <2>3. content[b] = b /\ b \in Image
    BY <2>1, <2>2 DEF IInv, Placed, Finished
  <2>4. b \notin left
    <3>1. left \subseteq Chunk(off)
      BY DEF IInv, Remaining
    <3> QED
      BY <2>2, <3>1 DEF Finished, Chunk, IInv, TypeInv, TypeOK, Image
  <2>5. b \notin Reached(FirstSpan(left), bad')
    <3>1. Reached(FirstSpan(left), bad') \subseteq FirstSpan(left)
      BY <1>1, <2>1, WriteStaysInSpan
    <3> QED
      BY <3>1, <2>4 DEF FirstSpan
  <2>6. ~(Lowest(left) <= b)
    <3>1. Lowest(left) \in left /\ Lowest(left) \in Nat /\ left \subseteq Chunk(off)
      BY <1>1, LowestIsLeast DEF IInv, Remaining
    <3>2. b < Lowest(left)
      BY <2>1, <2>2, <2>3, <2>4, <3>1, Layout
         DEF Finished, Chunk, IInv, Remaining, TypeInv, TypeOK
    <3> QED
      BY <2>3, <3>1, <3>2, Layout
  <2> QED
    BY <2>3, <2>5, <2>6, Layout DEF AfterWrite, IInv, TypeInv, TypeOK
<1>6. Bl2Untouched' /\ Ended' /\ ImageBeforeBl2'
  BY Bl2Kept
<1> QED
  BY <1>3, <1>4, <1>6 DEF IInv

\* The span that read back as the image is in place.
LEMMA ReadbackStep ==
  ASSUME Format = "stock", IInv, TypeInv', ReadbackSpan
  PROVE  IInv'
<1> USE DEF ReadbackSpan, Late, InChunk, Agreed, AtBl2
<1>1. /\ left \in SUBSET Image /\ left # {} /\ left \cap maps[2] = {}
      /\ left \in SUBSET Blocks /\ IsFiniteSet(left)
  BY Layout DEF IInv, TypeInv, TypeOK, Remaining
<1>5. \A b \in FirstSpan(left), d \in left \ FirstSpan(left) : b < d
  <2> SUFFICES ASSUME NEW b \in FirstSpan(left), NEW d \in left \ FirstSpan(left), d <= b
               PROVE  FALSE
    BY <1>1, Layout DEF FirstSpan
  <2>1. /\ Lowest(left) \in Nat /\ b \in Nat /\ Lowest(left)..b \subseteq FirstSpan(left)
        /\ d \in Nat /\ Lowest(left) <= d
    BY <1>1, SpanIsInterval, LowestIsLeast, Layout
  <2> QED
    BY <2>1
<1>2. Listings' /\ Remaining' /\ Compared'
  <2>1. FirstSpan(left) \subseteq left
    BY DEF FirstSpan
  <2> QED
    BY <1>5, <2>1 DEF IInv, Listings, Remaining, Compared, StockAcceptable, Chunk
<1>3. Placed'
  <2> SUFFICES ASSUME bad = maps[2], NEW b \in Finished' \ bad PROVE content[b] = b
    BY DEF Placed
  <2>1. CASE b \in Finished
    BY <2>1 DEF IInv, Placed
  <2>2. CASE b \notin Finished
    <3>1. b \in FirstSpan(left)
      BY <2>2 DEF Finished, Chunk
    <3>2. b \in Reached(FirstSpan(left), bad) /\ DataFor(FirstSpan(left), bad, b) = b
      BY <1>1, <3>1, SpanInOrder
    <3> QED
      BY <3>2 DEF ReadsAsImage
  <2> QED
    BY <2>1, <2>2
<1>4. Bl2Untouched' /\ Ended' /\ ImageBeforeBl2'
  BY Bl2Kept
<1> QED
  BY <1>2, <1>3, <1>4 DEF IInv

\* All of the chunk is finished, so everything before the next one is.
LEMMA NextChunkStep ==
  ASSUME Format = "stock", IInv, TypeInv', CheckpointAfterChunk
  PROVE  IInv'
<1> USE DEF CheckpointAfterChunk, IsStock, Late, InChunk, Agreed, AtBl2
<1>1. off \in Nat /\ off' \in Nat /\ pc' \in {"loadChunk", "compareMap"}
  BY DEF IInv, TypeInv, TypeOK
<1>2. Listings' /\ Remaining'
  BY <1>1 DEF IInv, Listings, Remaining, StockAcceptable
<1>3. Compared'
  <2>1. pc' = "compareMap" => off' >= RestoreBlocks
    BY <1>1, RestoreAssumption
  <2> QED
    BY <2>1, <1>1 DEF Compared
<1>4. Placed'
  <2> SUFFICES ASSUME bad = maps[2], NEW b \in Finished' \ bad PROVE content[b] = b
    BY DEF Placed
  <2>1. b \in Image /\ b < off + ChunkBlocks
    BY <1>1 DEF Finished
  <2>2. b \in Finished
    BY <1>1, <2>1, Layout DEF IInv, Remaining, Finished, Chunk
  <2> QED
    BY <2>2 DEF IInv, Placed
<1>5. Bl2Untouched' /\ Ended' /\ ImageBeforeBl2'
  BY <1>1, Bl2Kept
<1> QED
  BY <1>2, <1>3, <1>4, <1>5 DEF IInv

LEMMA CompareStep ==
  ASSUME Format = "stock", IInv, TypeInv', CompareMap
  PROVE  IInv'
<1> USE DEF CompareMap, Late, InChunk, Agreed, AtBl2
<1>1. Len(maps) >= 2 /\ maps \in Seq(SUBSET Blocks) /\ bad \in SUBSET Blocks
  BY DEF IInv, Listings, TypeInv, TypeOK, Bl2Good
<1>2. maps'[2] = maps[2] /\ Len(maps') >= 2
  BY <1>1
<1>3. Listings' /\ Remaining' /\ Compared' /\ Placed'
  BY <1>2 DEF IInv, Listings, Remaining, Compared, Placed, Finished, StockAcceptable
<1>4. Bl2Untouched' /\ Ended' /\ ImageBeforeBl2'
  BY Bl2Kept
<1> QED
  BY <1>3, <1>4 DEF IInv

\* BL2 is erased or written: the image is in place and is not disturbed.
LEMMA Bl2Step ==
  ASSUME Format = "stock", IInv, TypeInv', pc \in AtBl2,
         \A b \in Image : content'[b] = content[b],
         UNCHANGED <<bad, maps, off, left>>,
         \/ pc' \in {"writeBl2", "readBl2"} /\ UNCHANGED outcome
         \/ pc' = "done" /\ outcome' # "running"
  PROVE  IInv'
<1> USE DEF Late, InChunk, Agreed, AtBl2
<1>1. Listings' /\ Remaining' /\ Compared' /\ Bl2Untouched' /\ Ended'
  BY DEF IInv, Listings, Remaining, Compared, Bl2Untouched, Ended, StockAcceptable
<1>2. Placed'
  BY DEF IInv, Listings, Compared, Placed, Finished
<1>3. ImageBeforeBl2'
  BY AgreedInPlace, InPlaceFrame DEF ImageBeforeBl2, Image
<1> QED
  BY <1>1, <1>2, <1>3 DEF IInv

LEMMA IInvNext ==
  ASSUME Format = "stock", IInv, [Next]_vars
  PROVE  IInv'
<1>0. TypeInv'
  BY TypeNext DEF IInv
<1>1. CASE ReadFirstMap
  <2>1. pc' = "preflight" /\ Len(maps') = 1 /\ off' = 0
    BY <1>1 DEF ReadFirstMap, IInv, Remaining, Late, InChunk, Agreed, AtBl2
  <2>2. Listings' /\ Remaining' /\ Placed' /\ Compared'
    BY <2>1 DEF Listings, Remaining, Placed, Compared, Late, InChunk, Agreed, AtBl2
  <2>3. Bl2Untouched' /\ Ended' /\ ImageBeforeBl2'
    BY <1>1, Bl2Kept DEF ReadFirstMap, AtBl2
  <2> QED
    BY <1>0, <2>2, <2>3 DEF IInv
<1>2. CASE RefuseFirstMap \/ StopBeforeCommand \/ Decline \/ StepFailed \/ CheckpointStops
  BY <1>0, <1>2, QuietStep DEF RefuseFirstMap, StopBeforeCommand, Decline, StepFailed,
     CheckpointStops, Stopped, Aborted, End
<1>3. CASE LoadFirstChunk \/ Confirm \/ Arm \/ CheckpointAfterErase
  BY <1>0, <1>3, QuietStep DEF LoadFirstChunk, Confirm, Arm, CheckpointAfterErase, IsStock
<1>4. CASE LoadBl2 \/ CheckpointBeforeBl2 \/ BlockStop
  BY <1>0, <1>4, QuietStep DEF LoadBl2, CheckpointBeforeBl2, BlockStop
<1>5. CASE ReadbackBl2 \/ RequestStop \/ UNCHANGED vars
  BY <1>0, <1>5, QuietStep DEF ReadbackBl2, End, RequestStop, vars
<1>6. CASE EraseUbi
  <2>1. content'[Bl2] = content[Bl2]
    BY <1>6, Layout DEF EraseUbi, AfterErase, IInv, TypeInv, TypeOK
  <2>2. Listings' /\ Remaining' /\ Placed' /\ Compared'
    BY <1>6 DEF EraseUbi, IInv, Listings, Remaining, Placed, Compared, Late, InChunk, Agreed, AtBl2
  <2>3. Bl2Untouched' /\ Ended' /\ ImageBeforeBl2'
    BY <1>6, <2>1, Bl2Kept DEF EraseUbi, AtBl2
  <2> QED
    BY <1>0, <2>2, <2>3 DEF IInv
<1>7. CASE RereadMap
  BY <1>0, <1>7, RereadStep
<1>8. CASE LoadChunk
  BY <1>0, <1>8, LoadChunkStep
<1>9. CASE WriteSpan
  <2>1. bad \subseteq bad' /\ content'[Bl2] = content[Bl2]
        /\ content' = AfterWrite(FirstSpan(left), bad')
    BY <1>9, WholeWrite DEF IInv
  <2> QED
    BY <1>0, <1>9, <2>1, WriteSpanStep DEF WriteSpan
<1>10. CASE ReadbackSpan
  BY <1>0, <1>10, ReadbackStep
<1>11. CASE CheckpointAfterChunk
  BY <1>0, <1>11, NextChunkStep
<1>12. CASE CompareMap
  BY <1>0, <1>12, CompareStep
<1>13. CASE EraseBl2 \/ WriteBl2
  <2>1. \A b \in Image : content'[b] = content[b]
    BY <1>13, Layout DEF EraseBl2, WriteBl2, IInv, TypeInv, TypeOK
  <2> QED
    BY <1>0, <1>13, <2>1, Bl2Step DEF EraseBl2, WriteBl2, AtBl2
<1>14. CASE CommandLost
  <2> USE DEF CommandLost, Persistent
  <2>1. CASE pc = "eraseUbi"
    <3>1. pc' = "erased" /\ content'[Bl2] = content[Bl2]
      BY <1>14, <2>1, HalfEffect DEF IInv
    <3>2. Listings' /\ Remaining' /\ Placed' /\ Compared'
      BY <1>14, <2>1, <3>1 DEF IInv, Listings, Remaining, Placed, Compared, Late, InChunk, Agreed, AtBl2
    <3>3. Bl2Untouched' /\ Ended' /\ ImageBeforeBl2'
      BY <1>14, <2>1, <3>1, Bl2Kept DEF AtBl2
    <3> QED
      BY <1>0, <3>2, <3>3 DEF IInv
  <2>2. CASE pc = "writeSpan"
    BY <1>0, <1>14, <2>2, HalfEffect, WriteSpanStep DEF IInv
  <2>3. CASE pc \in {"eraseBl2", "writeBl2"}
    BY <1>0, <1>14, <2>3, HalfEffect, Bl2Step DEF IInv, AtBl2
  <2> QED
    BY <1>14, <2>1, <2>2, <2>3
<1>15. CASE CommandFailed
  <2>1. /\ pc' = "done" /\ outcome' = "failed" /\ UNCHANGED <<maps, off, left>>
        /\ pc \in {"eraseUbi", "writeSpan", "eraseBl2", "writeBl2"}
    BY <1>15 DEF CommandFailed, End, Persistent
  <2>2. CASE pc \in {"eraseBl2", "writeBl2"}
    BY <1>0, <1>15, <2>1, <2>2, HalfEffect, Bl2Step DEF CommandFailed, IInv, AtBl2
  <2>3. CASE pc \in {"eraseUbi", "writeSpan"}
    <3>1. content'[Bl2] = content[Bl2]
      BY <1>15, <2>3, HalfEffect DEF CommandFailed, IInv
    <3>2. content'[Bl2] = Original
      BY <2>3, <3>1 DEF IInv, Bl2Untouched
    <3>3. Listings' /\ Remaining' /\ Placed' /\ Compared' /\ Ended'
      BY <2>1 DEF Listings, Remaining, Placed, Compared, Ended, Late, InChunk, Agreed, AtBl2
    <3>4. Bl2Untouched' /\ ImageBeforeBl2'
      BY <3>2 DEF Bl2Untouched, ImageBeforeBl2, Original
    <3> QED
      BY <1>0, <3>3, <3>4 DEF IInv
  <2> QED
    BY <2>1, <2>2, <2>3
<1> QED
  BY <1>1, <1>2, <1>3, <1>4, <1>5, <1>6, <1>7, <1>8, <1>9, <1>10, <1>11, <1>12, <1>13,
     <1>14, <1>15 DEF Next, Core, Operator

LEMMA StockInvariant == ASSUME Format = "stock" PROVE Spec => []IInv
<1>1. Init => IInv
  BY IInvInit
<1>2. IInv /\ [Next]_vars => IInv'
  BY IInvNext
<1> QED
  BY <1>1, <1>2, PTL DEF Spec

(***************************************************************************)
(* The inductive invariant of physical restore.  No listing is read after  *)
(* the first: what shows a block that has gone bad is that the data of a   *)
(* chunk are shifted beyond its end, onto a block that the next chunk's    *)
(* readback expects other data in, or beyond the partition.                *)
(***************************************************************************)
PhysicalLate == {"loadChunk"} \cup InChunk \cup Agreed

\* The first block that has not been read back, and whether a block before it has gone bad.
Front == IF pc = "chunkDone" THEN off + ChunkBlocks ELSE off

BadBelow == \E b \in bad \cap Image : b < Front

\* A chunk is one span; a restore reads no second listing.
WholeChunk ==
  /\ pc \notin {"rereadMap", "compareMap"}
  /\ pc \notin PhysicalLate \cup {"done"} => off = 0
  /\ pc \in {"loadChunk"} \cup InChunk => off \in Image
  /\ pc \in {"writeSpan", "readSpan"} => left = Chunk(off)
  /\ pc \in Agreed => off >= RestoreBlocks

\* Either all that was read back is in place, or the next block cannot be read back.
Shifted ==
  pc \in PhysicalLate =>
    IF BadBelow
    THEN /\ Front \in Image
         /\ Front \notin bad => content[Front] # Front /\ (pc # "readSpan" => content[Front] # Erased)
    ELSE \A b \in Image : b < Front => content[b] = b

PhysicalInv == TypeInv /\ WholeChunk /\ Shifted /\ Bl2Untouched /\ Ended /\ ImageBeforeBl2

\* A chunk of the physical format is one span.
LEMMA ChunkIsSpan ==
  ASSUME NEW o \in Image
  PROVE  /\ Chunk(o) \in SUBSET Image /\ Chunk(o) # {} /\ IsFiniteSet(Chunk(o)) /\ o \in Chunk(o)
         /\ Lowest(Chunk(o)) = o /\ FirstSpan(Chunk(o)) = Chunk(o)
<1>1. o \in Nat /\ Image \subseteq Nat /\ ChunkBlocks \in Nat \ {0} /\ RestoreBlocks \in Nat
  BY RestoreAssumption, Layout
<1>2. Chunk(o) \in SUBSET Image /\ o \in Chunk(o)
  BY <1>1 DEF Chunk
<1>3. IsFiniteSet(Chunk(o)) /\ Chunk(o) \in SUBSET Nat
  BY <1>1, <1>2, Layout
<1>4. Lowest(Chunk(o)) \in Chunk(o) /\ \A y \in Chunk(o) : Lowest(Chunk(o)) <= y
  BY <1>2, <1>3, LowestIsLeast
<1>5. Lowest(Chunk(o)) = o
  <2>1. Lowest(Chunk(o)) <= o
    BY <1>2, <1>4
  <2>2. Lowest(Chunk(o)) >= o /\ Lowest(Chunk(o)) \in Nat
    BY <1>3, <1>4 DEF Chunk
  <2> QED
    BY <1>1, <2>1, <2>2
<1>6. \A b \in Chunk(o) : \A d \in o..b : d \in Chunk(o)
  BY <1>1 DEF Chunk, Image
<1> QED
  BY <1>2, <1>3, <1>5, <1>6 DEF FirstSpan

\* A chunk with a bad block reaches beyond its end.
LEMMA Overflow ==
  ASSUME Format = "physical", NEW o \in Image, NEW K, NEW e, e = o + ChunkBlocks,
         Chunk(o) \cap K # {}, Fits(Chunk(o), K)
  PROVE  /\ e \in Image
         /\ e \notin K => e \in Reached(Chunk(o), K) /\ DataFor(Chunk(o), K, e) \in o..(e - 1)
<1> DEFINE S == Chunk(o)
           N == NumBlocks
<1>1. /\ o \in Nat /\ ChunkBlocks \in Nat \ {0} /\ N \in Nat /\ RestoreBlocks = N
      /\ Image = 0..(N - 1) /\ Blocks = 0..(N - 1)
  BY RestoreAssumption, Layout DEF Image, Blocks
<1>2. IsFiniteSet(S) /\ Lowest(S) = o /\ Cardinality(S) \in Nat
  BY ChunkIsSpan, FS_CardinalityType
<1>3. PICK k : k \in S /\ k \in K
  OBVIOUS
<1>4. e \in Image
  <2> SUFFICES ASSUME ~(e < N) PROVE FALSE
    BY <1>1
  <2>1. S = o..(N - 1)
    BY <1>1 DEF Chunk
  <2>2. (o..(N - 1)) \ K \subseteq S \ {k}
    BY <1>3, <2>1
  <2>3. IsFiniteSet(S \ {k}) /\ Cardinality(S \ {k}) = Cardinality(S) - 1
    BY <1>2, <1>3, FS_RemoveElement
  <2>4. Cardinality((o..(N - 1)) \ K) <= Cardinality(S) - 1
    BY <2>2, <2>3, FS_Subset
  <2>5. Cardinality((o..(N - 1)) \ K) \in Nat
    BY <2>2, <2>3, FS_Subset, FS_CardinalityType
  <2> QED
    BY <1>2, <2>4, <2>5 DEF Fits, GoodBetween
<1>5. e \notin K => e \in Reached(S, K) /\ DataFor(S, K, e) \in o..(e - 1)
  <2> SUFFICES ASSUME e \notin K PROVE e \in Reached(S, K) /\ DataFor(S, K, e) \in o..(e - 1)
    OBVIOUS
  <2>1. S = o..(e - 1)
    BY <1>1, <1>4 DEF Chunk
  <2>2. Cardinality(S) = ChunkBlocks
    <3>1. Cardinality(o..(e - 1)) = (e - 1) - o + 1
      <4>1. e - 1 \in Int /\ o <= e - 1 /\ o \in Int
        BY <1>1
      <4> QED
        BY <4>1, FS_Interval
    <3> QED
      BY <1>1, <2>1, <3>1
  <2>3. (o..e) \ K \subseteq (S \ {k}) \cup {e} /\ e \in (o..e) \ K /\ e \notin S \ {k}
    BY <1>1, <1>3, <2>1
  <2>4. IsFiniteSet(S \ {k}) /\ Cardinality(S \ {k}) = Cardinality(S) - 1
    BY <1>2, <1>3, FS_RemoveElement
  <2>5. /\ IsFiniteSet((S \ {k}) \cup {e})
        /\ Cardinality((S \ {k}) \cup {e}) = Cardinality(S)
    <3>1. Cardinality((S \ {k}) \cup {e}) = Cardinality(S \ {k}) + 1
      BY <2>3, <2>4, FS_AddElement
    <3> QED
      BY <1>2, <2>4, <3>1, FS_AddElement
  <2>6. /\ IsFiniteSet((o..e) \ K) /\ Cardinality((o..e) \ K) <= Cardinality(S)
    BY <2>3, <2>5, FS_Subset
  <2>7. Cardinality((o..e) \ K) \in Nat /\ Cardinality((o..e) \ K) # 0
    BY <2>3, <2>6, FS_CardinalityType, FS_EmptySet
  <2>8. GoodBetween(o, e, K) \in 1..ChunkBlocks
    BY <1>1, <2>2, <2>6, <2>7 DEF GoodBetween
  <2>9. e \in Reached(S, K)
    BY <1>1, <1>2, <1>4, <2>6 DEF Reached, GoodBetween
  <2> QED
    BY <1>1, <1>2, <2>8, <2>9 DEF DataFor
<1> QED
  BY <1>4, <1>5

LEMMA PhysicalInit ==
  ASSUME Init
  PROVE  PhysicalInv
<1>1. content[Bl2] = Original
  BY DEF Init
<1> QED
  BY <1>1, TypeInit DEF Init, PhysicalInv, WholeChunk, Shifted, Bl2Untouched, Ended,
     ImageBeforeBl2, PhysicalLate, InChunk, Agreed, AtBl2

\* After the last chunk nothing is shifted, since there is no block to be found wrong any more.
LEMMA AllRead ==
  ASSUME Format = "physical", PhysicalInv, pc \in Agreed
  PROVE  InPlace = Image
<1>1. off \in Nat /\ off >= RestoreBlocks /\ Front = off
  BY DEF PhysicalInv, TypeInv, TypeOK, WholeChunk, Front, Agreed, AtBl2
<1>2. Front \notin Image /\ \A b \in Image : b < Front
  BY <1>1, RestoreAssumption DEF Image
<1>3. \A b \in Image : content[b] = b
  BY <1>2 DEF PhysicalInv, Shifted, PhysicalLate
<1> QED
  BY <1>3 DEF InPlace

\* Steps that leave flash and the chunk alone.
LEMMA PhysicalQuiet ==
  ASSUME Format = "physical", PhysicalInv, TypeInv',
         UNCHANGED <<content, bad, off, left>>,
         \/ pc' = "done" /\ outcome' # "running"
         \/ UNCHANGED <<pc, outcome>>
         \/ /\ UNCHANGED outcome
            /\ <<pc, pc'>> \in
                 {<<"badBlocks", "preflight">>,
                  <<"preflight", "confirm">>, <<"confirm", "arm">>, <<"arm", "eraseUbi">>,
                  <<"eraseUbi", "erased">>, <<"writeSpan", "readSpan">>, <<"loadBl2", "beforeBl2">>,
                  <<"beforeBl2", "blockStop">>, <<"blockStop", "eraseBl2">>,
                  <<"eraseBl2", "writeBl2">>, <<"writeBl2", "readBl2">>}
  PROVE  PhysicalInv'
<1> USE DEF PhysicalInv, PhysicalLate, InChunk, Agreed, AtBl2
<1>1. WholeChunk'
  BY DEF WholeChunk, Chunk
<1>2. Shifted'
  <2>1. Front' = Front \/ pc' = "done"
    BY DEF Front
  <2> QED
    BY <2>1 DEF Shifted, BadBelow
<1>3. Bl2Untouched' /\ Ended'
  BY DEF Bl2Untouched, Ended, TypeInv, TypeOK
<1>4. ImageBeforeBl2'
  <2>1. InPlace' = InPlace
    BY InPlaceFrame
  <2> QED
    BY <2>1 DEF ImageBeforeBl2
<1> QED
  BY <1>1, <1>2, <1>3, <1>4

\* Steps before BL2 keep its block.
LEMMA PhysicalBl2Kept ==
  ASSUME PhysicalInv, content'[Bl2] = content[Bl2], pc \notin AtBl2 \cup {"done"},
         pc' # "done", UNCHANGED outcome
  PROVE  Bl2Untouched' /\ Ended' /\ ImageBeforeBl2'
<1>1. content'[Bl2] = Original
  BY DEF PhysicalInv, Bl2Untouched, AtBl2
<1> QED
  BY <1>1 DEF PhysicalInv, Bl2Untouched, Ended, ImageBeforeBl2, Original

\* A write, whole or not, spoils the next block if anything was shifted onto it.
LEMMA PhysicalWrite ==
  ASSUME Format = "physical", PhysicalInv, TypeInv', pc = "writeSpan", pc' = "readSpan",
         UNCHANGED <<off, left, outcome>>, bad \subseteq bad', content'[Bl2] = content[Bl2],
         \A b \in bad' \ bad : Lowest(left) <= b,
         \A b \in Blocks : \/ content'[b] = content[b]
                           \/ content'[b] = AfterWrite(FirstSpan(left), bad')[b]
                           \/ content'[b] = Garbage /\ Lowest(left) <= b
  PROVE  PhysicalInv'
<1> USE DEF PhysicalLate, InChunk, Agreed, AtBl2
<1>1. /\ pc = "writeSpan" /\ pc' = "readSpan" /\ UNCHANGED <<off, left, outcome>> /\ off \in Image
      /\ FirstSpan(left) = Chunk(off) /\ Lowest(Chunk(off)) = off /\ Front = off /\ Front' = off
  BY ChunkIsSpan DEF PhysicalInv, WholeChunk, Front
<1>2. /\ \A b \in bad' : b \in bad \/ off <= b
      /\ \A b \in Blocks : \/ content'[b] = content[b]
                           \/ content'[b] = AfterWrite(Chunk(off), bad')[b]
                           \/ content'[b] = Garbage /\ off <= b
  BY <1>1, ChunkIsSpan DEF PhysicalInv, WholeChunk
<1>3. WholeChunk'
  BY <1>1 DEF PhysicalInv, WholeChunk, Chunk
<1>4. off \in Nat /\ Image \subseteq Blocks /\ Image \subseteq Nat
      /\ content \in [Blocks \cup {Bl2} -> Contents]
  BY Layout DEF PhysicalInv, TypeInv, TypeOK
<1>5. BadBelow' <=> BadBelow
  <2>1. \A b \in Image : b < off => (b \in bad' <=> b \in bad)
    BY <1>2, <1>4
  <2>2. BadBelow <=> \E b \in Image : b \in bad /\ b < off
    BY <1>1 DEF BadBelow
  <2>3. BadBelow' <=> \E b \in Image : b \in bad' /\ b < off
    BY <1>1 DEF BadBelow, Image
  <2> QED
    BY <2>1, <2>2, <2>3
<1>6. Shifted' <=> IF BadBelow'
                   THEN /\ off \in Image
                        /\ off \notin bad' => content'[off] # off
                   ELSE \A b \in Image : b < off => content'[b] = b
  BY <1>1 DEF Shifted, Image
<1>7. ~BadBelow => Shifted'
  <2> SUFFICES ASSUME ~BadBelow PROVE Shifted'
    OBVIOUS
  <2>1. \A b \in Image : b < off => content'[b] = content[b]
    <3>1. \A b \in Image : b < off => b \notin Reached(Chunk(off), bad')
      BY <1>1, <1>4 DEF Reached
    <3>2. \A b \in Image : b < off => AfterWrite(Chunk(off), bad')[b] = content[b]
      BY <1>4, <3>1 DEF AfterWrite
    <3> QED
      BY <1>2, <1>4, <3>2
  <2>2. \A b \in Image : b < off => content[b] = b
    BY <1>1 DEF PhysicalInv, Shifted
  <2> QED
    BY <1>5, <1>6, <2>1, <2>2
<1>8. Shifted'
  <2>1. BadBelow => Shifted'
    <3> SUFFICES ASSUME BadBelow PROVE Shifted'
      OBVIOUS
    <3>1. off \notin bad' => content[off] # off /\ content[off] # Erased
      BY <1>1, <1>2 DEF PhysicalInv, Shifted
    <3>2. content'[off] = content[off] \/ (content[off] # Erased => content'[off] = Garbage)
      <4>1. LET w == AfterWrite(Chunk(off), bad')[off]
            IN  w = content[off] \/ (content[off] # Erased => w = Garbage)
        BY <1>1, <1>4 DEF AfterWrite, Program
      <4> QED
        BY <1>1, <1>2, <1>4, <4>1
    <3>3. Garbage # off
      BY <1>4 DEF Garbage
    <3> QED
      BY <1>1, <1>5, <1>6, <3>1, <3>2, <3>3
  <2> QED
    BY <1>7, <2>1
<1>10. Bl2Untouched' /\ Ended' /\ ImageBeforeBl2'
  BY <1>1, PhysicalBl2Kept
<1> QED
  BY <1>3, <1>8, <1>10 DEF PhysicalInv

\* A chunk that reads back as the image is in place, or is shifted itself.
LEMMA PhysicalReadback ==
  ASSUME Format = "physical", PhysicalInv, TypeInv', ReadbackSpan
  PROVE  PhysicalInv'
<1> USE DEF PhysicalLate, InChunk, Agreed, AtBl2
<1>1. /\ pc = "readSpan" /\ UNCHANGED <<content, bad, off, outcome>> /\ off \in Image
      /\ left = Chunk(off) /\ FirstSpan(left) = Chunk(off) /\ ReadsAsImage(Chunk(off), bad)
  BY ChunkIsSpan DEF ReadbackSpan, PhysicalInv, WholeChunk
<1>2. pc' = "chunkDone" /\ left' = {}
  BY <1>1 DEF ReadbackSpan
<1>3. WholeChunk'
  BY <1>1, <1>2 DEF PhysicalInv, WholeChunk
<1>4. /\ off \in Nat /\ Image \subseteq Nat /\ ChunkBlocks \in Nat \ {0} /\ Image \subseteq Blocks
      /\ Front = off /\ Front' = off + ChunkBlocks
  BY <1>1, <1>2, Layout, RestoreAssumption DEF Front
<1>8. Shifted' <=> IF BadBelow'
                   THEN /\ off + ChunkBlocks \in Image
                        /\ off + ChunkBlocks \notin bad =>
                             /\ content[off + ChunkBlocks] # off + ChunkBlocks
                             /\ content[off + ChunkBlocks] # Erased
                   ELSE \A b \in Image : b < off + ChunkBlocks => content[b] = b
  BY <1>1, <1>2, <1>4 DEF Shifted, Image
<1>9. BadBelow' <=> \E b \in Image : b \in bad /\ b < off + ChunkBlocks
  BY <1>1, <1>4 DEF BadBelow, Image
<1>5. Chunk(off) \cap bad # {} => Shifted'
  <2> SUFFICES ASSUME Chunk(off) \cap bad # {} PROVE Shifted'
    OBVIOUS
  <2>1. /\ off + ChunkBlocks \in Image
        /\ off + ChunkBlocks \notin bad =>
             content[off + ChunkBlocks] \in off..(off + ChunkBlocks - 1)
    <3>1. Fits(Chunk(off), bad)
      BY <1>1 DEF ReadsAsImage
    <3> QED
      BY <1>1, <1>4, <3>1, Overflow DEF ReadsAsImage
  <2>2. \A x \in off..(off + ChunkBlocks - 1) : x # off + ChunkBlocks /\ x # Erased
    BY <1>4 DEF Erased
  <2>3. BadBelow'
    BY <1>4, <1>9 DEF Chunk
  <2> QED
    BY <1>8, <2>1, <2>2, <2>3
<1>6. Chunk(off) \cap bad = {} => Shifted'
  <2> SUFFICES ASSUME Chunk(off) \cap bad = {} PROVE Shifted'
    OBVIOUS
  <2>1. \A b \in Chunk(off) : content[b] = b
    <3>1. Chunk(off) \in SUBSET Blocks /\ Chunk(off) # {} /\ IsFiniteSet(Chunk(off))
      BY <1>1, <1>4, ChunkIsSpan
    <3>2. \A b \in Chunk(off) : b \in Reached(Chunk(off), bad) /\ DataFor(Chunk(off), bad, b) = b
      BY <1>1, <3>1, SpanInOrder
    <3> QED
      BY <1>1, <3>2 DEF ReadsAsImage
  <2>2. off \in Chunk(off)
    BY <1>1, ChunkIsSpan
  <2>3. ~BadBelow /\ \A b \in Image : b < off => content[b] = b
    BY <1>1, <1>4, <2>1, <2>2 DEF PhysicalInv, Shifted
  <2>4. \A b \in Image : b < off + ChunkBlocks => b < off \/ b \in Chunk(off)
    BY <1>4 DEF Chunk
  <2>5. ~BadBelow'
    BY <1>1, <1>4, <1>9, <2>3, <2>4 DEF BadBelow
  <2> QED
    BY <1>8, <2>1, <2>3, <2>4, <2>5
<1>7. Bl2Untouched' /\ Ended' /\ ImageBeforeBl2'
  BY <1>1, <1>2, PhysicalBl2Kept
<1> QED
  BY <1>3, <1>5, <1>6, <1>7 DEF PhysicalInv

\* BL2 is erased or written: the image is in place and is not disturbed.
LEMMA PhysicalBl2 ==
  ASSUME Format = "physical", PhysicalInv, TypeInv', pc \in AtBl2,
         \A b \in Image : content'[b] = content[b],
         UNCHANGED <<bad, off, left>>,
         \/ pc' \in {"writeBl2", "readBl2"} /\ UNCHANGED outcome
         \/ pc' = "done" /\ outcome' # "running"
  PROVE  PhysicalInv'
<1> USE DEF PhysicalLate, InChunk, Agreed, AtBl2
<1>1. WholeChunk' /\ Bl2Untouched' /\ Ended'
  BY DEF PhysicalInv, WholeChunk, Bl2Untouched, Ended
<1>2. Shifted'
  BY DEF PhysicalInv, Shifted, BadBelow, Front
<1>3. ImageBeforeBl2'
  BY AllRead, InPlaceFrame DEF ImageBeforeBl2, Image
<1> QED
  BY <1>1, <1>2, <1>3 DEF PhysicalInv

LEMMA PhysicalNext ==
  ASSUME Format = "physical", PhysicalInv, [Next]_vars
  PROVE  PhysicalInv'
<1>0. TypeInv' /\ ~IsStock
  BY TypeNext DEF PhysicalInv, IsStock
<1>1. CASE RefuseFirstMap \/ StopBeforeCommand \/ Decline \/ StepFailed \/ CheckpointStops
  BY <1>0, <1>1, PhysicalQuiet DEF RefuseFirstMap, StopBeforeCommand, Decline, StepFailed,
     CheckpointStops, Stopped, Aborted, End
<1>2. CASE ReadFirstMap \/ LoadFirstChunk \/ Confirm \/ Arm
  BY <1>0, <1>2, PhysicalQuiet DEF ReadFirstMap, LoadFirstChunk, Confirm, Arm
<1>3. CASE LoadBl2 \/ CheckpointBeforeBl2 \/ BlockStop
  BY <1>0, <1>3, PhysicalQuiet DEF LoadBl2, CheckpointBeforeBl2, BlockStop
<1>4. CASE ReadbackBl2 \/ RequestStop \/ UNCHANGED vars
  BY <1>0, <1>4, PhysicalQuiet DEF ReadbackBl2, End, RequestStop, vars
<1>5. CASE EraseUbi
  <2>1. content'[Bl2] = content[Bl2]
    BY <1>5, Layout DEF EraseUbi, AfterErase, PhysicalInv, TypeInv, TypeOK
  <2>2. WholeChunk' /\ Shifted'
    BY <1>5 DEF EraseUbi, PhysicalInv, WholeChunk, Shifted, PhysicalLate, InChunk, Agreed, AtBl2
  <2>3. Bl2Untouched' /\ Ended' /\ ImageBeforeBl2'
    BY <1>5, <2>1, PhysicalBl2Kept DEF EraseUbi, AtBl2
  <2> QED
    BY <1>0, <2>2, <2>3 DEF PhysicalInv
<1>6. CASE CheckpointAfterErase
  <2>1. pc' = "loadChunk" /\ off' = 0 /\ 0 \in Image /\ \A b \in Image : ~(b < 0)
    BY <1>0, <1>6, RestoreAssumption DEF CheckpointAfterErase, PhysicalInv, WholeChunk,
       PhysicalLate, InChunk, Agreed, AtBl2, Image
  <2>2. WholeChunk' /\ Shifted'
    BY <2>1 DEF WholeChunk, Shifted, BadBelow, Front, PhysicalLate, InChunk, Agreed, AtBl2
  <2>3. Bl2Untouched' /\ Ended' /\ ImageBeforeBl2'
    BY <1>6, <2>1, PhysicalBl2Kept DEF CheckpointAfterErase, AtBl2
  <2> QED
    BY <1>0, <2>2, <2>3 DEF PhysicalInv
<1>7. CASE RereadMap \/ CompareMap
  BY <1>7 DEF RereadMap, CompareMap, PhysicalInv, WholeChunk
<1>8. CASE LoadChunk
  <2>1. /\ pc = "loadChunk" /\ pc' = "writeSpan" /\ UNCHANGED <<content, bad, off, outcome>>
        /\ left' = Chunk(off)
    BY <1>0, <1>8 DEF LoadChunk, KnownBad
  <2>2. WholeChunk' /\ Shifted'
    BY <2>1 DEF PhysicalInv, WholeChunk, Shifted, BadBelow, Front, Chunk, PhysicalLate, InChunk, Agreed, AtBl2
  <2>3. Bl2Untouched' /\ Ended' /\ ImageBeforeBl2'
    BY <2>1, PhysicalBl2Kept DEF AtBl2
  <2> QED
    BY <1>0, <2>2, <2>3 DEF PhysicalInv
<1>9. CASE WriteSpan
  <2>1. FirstSpan(left) = left
    BY <1>9, ChunkIsSpan DEF WriteSpan, PhysicalInv, WholeChunk, InChunk
  <2>2. /\ bad \subseteq bad' /\ content'[Bl2] = content[Bl2]
        /\ \A b \in bad' \ bad : Lowest(left) <= b
        /\ content' = AfterWrite(FirstSpan(left), bad')
    BY <1>9, <2>1, WholeWrite DEF PhysicalInv
  <2> QED
    BY <1>0, <1>9, <2>2, PhysicalWrite DEF WriteSpan
<1>10. CASE ReadbackSpan
  BY <1>0, <1>10, PhysicalReadback
<1>11. CASE CheckpointAfterChunk
  <2>1. /\ pc = "chunkDone" /\ UNCHANGED <<content, bad, left, outcome>> /\ off' = off + ChunkBlocks
        /\ \/ pc' = "loadChunk" /\ off' < RestoreBlocks
           \/ pc' = "loadBl2" /\ ~(off' < RestoreBlocks)
    BY <1>0, <1>11 DEF CheckpointAfterChunk
  <2>2. off \in Nat /\ off' \in Nat /\ RestoreBlocks \in Nat /\ Front' = Front
    BY <2>1, RestoreAssumption DEF PhysicalInv, TypeInv, TypeOK, Front
  <2>3. WholeChunk'
    BY <2>1, <2>2 DEF WholeChunk, PhysicalLate, InChunk, Agreed, AtBl2, Image
  <2>4. Shifted'
    BY <2>1, <2>2 DEF PhysicalInv, Shifted, BadBelow, PhysicalLate, InChunk, Agreed, AtBl2
  <2>5. Bl2Untouched' /\ Ended' /\ ImageBeforeBl2'
    BY <2>1, PhysicalBl2Kept DEF AtBl2
  <2> QED
    BY <1>0, <2>3, <2>4, <2>5 DEF PhysicalInv
<1>12. CASE EraseBl2 \/ WriteBl2
  <2>1. \A b \in Image : content'[b] = content[b]
    BY <1>12, Layout DEF EraseBl2, WriteBl2, PhysicalInv, TypeInv, TypeOK
  <2> QED
    BY <1>0, <1>12, <2>1, PhysicalBl2 DEF EraseBl2, WriteBl2, AtBl2
<1>13. CASE CommandLost
  <2> USE DEF CommandLost, Persistent
  <2>1. CASE pc = "eraseUbi"
    <3>1. pc' = "erased" /\ content'[Bl2] = content[Bl2]
      BY <1>13, <2>1, HalfEffect DEF PhysicalInv
    <3>2. WholeChunk' /\ Shifted'
      BY <1>13, <2>1, <3>1 DEF PhysicalInv, WholeChunk, Shifted, PhysicalLate, InChunk, Agreed, AtBl2
    <3>3. Bl2Untouched' /\ Ended' /\ ImageBeforeBl2'
      BY <1>13, <2>1, <3>1, PhysicalBl2Kept DEF AtBl2
    <3> QED
      BY <1>0, <3>2, <3>3 DEF PhysicalInv
  <2>2. CASE pc = "writeSpan"
    BY <1>0, <1>13, <2>2, HalfEffect, PhysicalWrite DEF PhysicalInv
  <2>3. CASE pc \in {"eraseBl2", "writeBl2"}
    BY <1>0, <1>13, <2>3, HalfEffect, PhysicalBl2 DEF PhysicalInv, AtBl2
  <2> QED
    BY <1>13, <2>1, <2>2, <2>3
<1>14. CASE CommandFailed
  <2>1. /\ pc' = "done" /\ outcome' = "failed" /\ UNCHANGED <<off, left>>
        /\ pc \in {"eraseUbi", "writeSpan", "eraseBl2", "writeBl2"}
    BY <1>14 DEF CommandFailed, End, Persistent
  <2>2. CASE pc \in {"eraseBl2", "writeBl2"}
    BY <1>0, <1>14, <2>1, <2>2, HalfEffect, PhysicalBl2 DEF CommandFailed, PhysicalInv, AtBl2
  <2>3. CASE pc \in {"eraseUbi", "writeSpan"}
    <3>1. content'[Bl2] = content[Bl2]
      BY <1>14, <2>3, HalfEffect DEF CommandFailed, PhysicalInv
    <3>2. content'[Bl2] = Original
      BY <2>3, <3>1 DEF PhysicalInv, Bl2Untouched
    <3>3. WholeChunk' /\ Shifted' /\ Ended'
      BY <2>1 DEF WholeChunk, Shifted, Ended, PhysicalLate, InChunk, Agreed, AtBl2
    <3>4. Bl2Untouched' /\ ImageBeforeBl2'
      BY <3>2 DEF Bl2Untouched, ImageBeforeBl2, Original
    <3> QED
      BY <1>0, <3>3, <3>4 DEF PhysicalInv
  <2> QED
    BY <2>1, <2>2, <2>3
<1> QED
  BY <1>1, <1>2, <1>3, <1>4, <1>5, <1>6, <1>7, <1>8, <1>9, <1>10, <1>11, <1>12, <1>13,
     <1>14 DEF Next, Core, Operator

LEMMA PhysicalInvariant == ASSUME Format = "physical" PROVE Spec => []PhysicalInv
<1>1. Init => PhysicalInv
  BY PhysicalInit
<1>2. PhysicalInv /\ [Next]_vars => PhysicalInv'
  BY PhysicalNext
<1> QED
  BY <1>1, <1>2, PTL DEF Spec

(***************************************************************************)
(* Both formats implement FlashContract: what that takes of their          *)
(* invariants is the same.                                                 *)
(***************************************************************************)
Safe ==
  /\ TypeInv /\ Bl2Untouched /\ Ended /\ ImageBeforeBl2
  /\ pc \in Agreed => InPlace = Image

LEMMA RestoreSafe == Spec => []Safe
<1>1. ASSUME Format = "stock" PROVE Spec => []Safe
  <2>1. IInv => Safe
    BY <1>1, AgreedInPlace DEF IInv, Safe
  <2>2. Spec => []IInv
    BY <1>1, StockInvariant
  <2> QED
    BY <2>1, <2>2, PTL
<1>2. ASSUME Format = "physical" PROVE Spec => []Safe
  <2>1. PhysicalInv => Safe
    BY <1>2, AllRead DEF PhysicalInv, Safe
  <2>2. Spec => []PhysicalInv
    BY <1>2, PhysicalInvariant
  <2> QED
    BY <2>1, <2>2, PTL
<1> QED
  BY <1>1, <1>2, RestoreAssumption

\* For every partition, image, chunk size and set of bad blocks, of either format: BL2 is
\* erased only when the image is in place.
THEOREM RestoreImageBeforeBl2 == Spec => []ImageBeforeBl2
<1>1. Safe => ImageBeforeBl2
  BY DEF Safe
<1> QED
  BY <1>1, RestoreSafe, PTL

\* What FlashContract sees of BL2 (the substitution of the instance Contract).
Bl2Seen == CASE content[Bl2] = Original -> "original"
             [] content[Bl2] = Bl2      -> "image"
             [] OTHER                   -> "unsafe"

LEMMA Bl2SeenCases ==
  /\ Bl2Seen = "original" <=> content[Bl2] = Original
  /\ Bl2Seen \in {"original", "image", "unsafe"}
  /\ content[Bl2] = Bl2 => Bl2Seen = "image"
BY Layout DEF Bl2Seen, Original

LEMMA Bl2SeenCasesPrimed ==
  /\ Bl2Seen' = "original" <=> content'[Bl2] = Original
  /\ Bl2Seen' \in {"original", "image", "unsafe"}
BY Layout DEF Bl2Seen, Original

\* A step that keeps the old BL2, or changes the rest of flash, while it may.
LEMMA WorkBeforeBl2 ==
  ASSUME outcome = "running", content[Bl2] = Original, content'[Bl2] = Original,
         outcome' \in {"running", "failed"}
  PROVE  Contract!Next
<1>1. Bl2Seen = "original" /\ Bl2Seen' = "original" /\ InPlace' \in SUBSET Image
  BY Bl2SeenCases, Bl2SeenCasesPrimed DEF InPlace
<1> HIDE DEF Bl2Seen
<1> QED
  BY <1>1 DEF Contract!Next, Contract!Work, Contract!Fail, Contract!WriteParts, Bl2Seen

\* A step on BL2, when everything else is in place.
LEMMA WorkOnBl2 ==
  ASSUME outcome = "running", InPlace = Image, InPlace' = Image,
         outcome' \in {"running", "failed"},
         content'[Bl2] = Original => content[Bl2] = Original
  PROVE  Contract!Next
<1>1. CASE content'[Bl2] = Original
  BY <1>1, WorkBeforeBl2
<1>2. CASE content'[Bl2] # Original
  <2>1. Bl2Seen' \in {"unsafe", "image"}
    BY <1>2, Bl2SeenCasesPrimed
  <2> QED
    BY <2>1 DEF Contract!Next, Contract!Work, Contract!Fail, Contract!TouchBl2, Bl2Seen
<1> QED
  BY <1>1, <1>2

LEMMA ContractStep ==
  ASSUME Safe, Safe', [Next]_vars
  PROVE  [Contract!Next]_(Contract!vars)
<1>0. pc # "done" => outcome = "running"
  BY DEF Safe, Ended
<1>1. ASSUME UNCHANGED <<content, bad, outcome>> PROVE UNCHANGED Contract!vars
  <2>1. InPlace' = InPlace
    BY <1>1, InPlaceFrame
  <2> QED
    BY <1>1, <2>1 DEF Contract!vars
<1>2. ASSUME pc \notin {"writeBl2", "readBl2", "done"} PROVE content[Bl2] = Original
  BY <1>2 DEF Safe, Bl2Untouched
<1>3. ASSUME pc' \notin {"writeBl2", "readBl2", "done"} PROVE content'[Bl2] = Original
  BY <1>3 DEF Safe, Bl2Untouched
<1>4. CASE \/ ReadFirstMap \/ LoadFirstChunk \/ Confirm \/ Arm \/ CheckpointAfterErase
           \/ RereadMap \/ LoadChunk \/ ReadbackSpan \/ CheckpointAfterChunk
           \/ CompareMap \/ LoadBl2 \/ CheckpointBeforeBl2 \/ BlockStop
           \/ RequestStop \/ UNCHANGED vars
  BY <1>4, <1>1 DEF ReadFirstMap, LoadFirstChunk, Confirm, Arm, CheckpointAfterErase,
     RereadMap, LoadChunk, ReadbackSpan, CheckpointAfterChunk, CompareMap, LoadBl2,
     CheckpointBeforeBl2, BlockStop, RequestStop, vars
<1>5. CASE EraseUbi \/ WriteSpan
  BY <1>0, <1>2, <1>3, <1>5, WorkBeforeBl2 DEF EraseUbi, WriteSpan
<1>6. CASE Decline \/ StopBeforeCommand \/ CheckpointStops
  <2>1. outcome = "running" /\ outcome' = "cancelled" /\ UNCHANGED <<content, bad>>
        /\ content[Bl2] = Original
    BY <1>0, <1>2, <1>6 DEF Decline, StopBeforeCommand, CheckpointStops, Stopped, Aborted, End
  <2>2. InPlace' = InPlace /\ Bl2Seen = "original" /\ Bl2Seen' = Bl2Seen
    BY <2>1, InPlaceFrame, Bl2SeenCases, Bl2SeenCasesPrimed
  <2> QED
    BY <2>1, <2>2 DEF Contract!Next, Contract!Cancel, Bl2Seen
<1>7. CASE RefuseFirstMap \/ StepFailed
  <2>1. outcome = "running" /\ outcome' = "failed" /\ UNCHANGED <<content, bad>>
    BY <1>0, <1>7 DEF RefuseFirstMap, StepFailed, Aborted, End
  <2>2. CASE content[Bl2] = Original
    BY <2>1, <2>2, WorkBeforeBl2
  <2>3. CASE content[Bl2] # Original
    <3>1. InPlace = Image
      BY <2>3 DEF Safe, ImageBeforeBl2
    <3> QED
      BY <2>1, <3>1, InPlaceFrame, WorkOnBl2
  <2> QED
    BY <2>2, <2>3
<1>8. CASE EraseBl2 \/ WriteBl2
  <2>1. outcome = "running" /\ outcome' = "running" /\ pc \in Agreed /\ UNCHANGED bad
        /\ \A b \in Image : content'[b] = content[b]
    BY <1>0, <1>8, Layout DEF EraseBl2, WriteBl2, Agreed, AtBl2, Safe, TypeInv, TypeOK
  <2>2. content'[Bl2] # Original
    BY <1>8, Layout DEF EraseBl2, WriteBl2, Safe, TypeInv, TypeOK, Original, Erased, Garbage
  <2> QED
    BY <2>1, <2>2, InPlaceFrame, WorkOnBl2 DEF Safe
<1>9. CASE ReadbackBl2
  <2>1. outcome = "running" /\ outcome' = "success" /\ UNCHANGED <<content, bad>>
        /\ content[Bl2] = Bl2 /\ pc \in Agreed
    BY <1>0, <1>9 DEF ReadbackBl2, End, Agreed, AtBl2
  <2>2. InPlace = Image /\ InPlace' = InPlace
    BY <2>1, InPlaceFrame DEF Safe
  <2>3. Bl2Seen = "image" /\ Bl2Seen' = Bl2Seen
    BY <2>1, Bl2SeenCases DEF Bl2Seen
  <2> QED
    BY <2>1, <2>2, <2>3 DEF Contract!Next, Contract!Succeed, Bl2Seen
<1>10. CASE CommandLost \/ CommandFailed
  <2>1. /\ outcome = "running" /\ outcome' \in {"running", "failed"}
        /\ pc \in DOMAIN Persistent /\ NotWhole
        /\ pc \in {"eraseUbi", "writeSpan", "eraseBl2", "writeBl2"}
    BY <1>0, <1>10 DEF CommandLost, CommandFailed, End, Persistent
  <2>2. CASE pc \in {"eraseBl2", "writeBl2"}
    <3>1. /\ bad' = bad /\ \A b \in Image : content'[b] = content[b]
          /\ content'[Bl2] = Original => content[Bl2] = Original
      BY <2>1, <2>2, HalfEffect DEF Safe
    <3> QED
      BY <2>1, <2>2, <3>1, InPlaceFrame, WorkOnBl2 DEF Agreed, AtBl2, Safe
  <2>3. CASE pc \in {"eraseUbi", "writeSpan"}
    <3>1. content'[Bl2] = content[Bl2]
      BY <2>1, <2>3, HalfEffect DEF Safe
    <3> QED
      BY <1>2, <2>1, <2>3, <3>1, WorkBeforeBl2
  <2> QED
    BY <2>1, <2>2, <2>3
<1> QED
  BY <1>4, <1>5, <1>6, <1>7, <1>8, <1>9, <1>10 DEF Next, Core, Operator

\* Either format, for every value of the constants: the restore keeps FlashContract.
THEOREM RestoreImplementsContract == Spec => ImplementsContract
<1>1. Init => Contract!Init
  <2> SUFFICES ASSUME Init PROVE Contract!Init
    OBVIOUS
  <2>1. content[Bl2] = Original /\ outcome = "running"
    BY DEF Init
  <2>2. Bl2Seen = "original" /\ InPlace \in SUBSET Image
    BY <2>1, Bl2SeenCases DEF InPlace
  <2> QED
    BY <2>1, <2>2 DEF Contract!Init, Bl2Seen
<1>2. Safe /\ Safe' /\ [Next]_vars => [Contract!Next]_(Contract!vars)
  BY ContractStep
<1> QED
  BY <1>1, <1>2, RestoreSafe, PTL DEF Spec, ImplementsContract, Contract!Spec

(***************************************************************************)
(* The buffer.  readbackCRC reads into the place in RAM that the span was  *)
(* written from, so the part of the buffer that is still needed is what    *)
(* remains of the chunk.                                                   *)
(***************************************************************************)
Preparing == {"badBlocks", "preflight", "confirm", "arm", "eraseUbi", "erased", "rereadMap"}

\* Chunk 0 stays in RAM from the preflight until its spans are written.
FirstChunkKept == pc \in Preparing \cup {"loadChunk"} /\ off = 0 => ram = [file |-> 0, spoiled |-> {}]

ChunkInRam ==
  pc \in {"writeSpan", "readSpan"} =>
    /\ left # {} /\ left \subseteq Chunk(off)
    /\ ram.file = off /\ ram.spoiled \cap left = {}

BufferInv == TypeInv /\ FirstChunkKept /\ ChunkInRam

LEMMA BufferInit ==
  ASSUME Init
  PROVE  BufferInv
BY TypeInit DEF Init, BufferInv, FirstChunkKept, ChunkInRam

\* Steps of the wizard that neither load a file nor begin or end a span.
LEMMA BufferKept ==
  ASSUME BufferInv, TypeInv', UNCHANGED <<off, left, ram>>,
         pc' # pc => pc' \notin {"writeSpan", "readSpan"} \/ (pc = "writeSpan" /\ pc' = "readSpan"),
         pc' \in Preparing \cup {"loadChunk"} => pc \in Preparing \cup {"loadChunk"}
  PROVE  BufferInv'
BY DEF BufferInv, FirstChunkKept, ChunkInRam, Chunk

LEMMA BufferNext ==
  ASSUME BufferInv, [Next]_vars
  PROVE  BufferInv'
<1>0. TypeInv'
  BY TypeNext DEF BufferInv
<1> USE DEF Preparing
<1>1. CASE \/ ReadFirstMap \/ RefuseFirstMap \/ LoadFirstChunk \/ StopBeforeCommand \/ Confirm
           \/ Decline \/ Arm \/ StepFailed \/ CheckpointStops \/ RequestStop \/ UNCHANGED vars
  BY <1>0, <1>1, BufferKept DEF ReadFirstMap, RefuseFirstMap, LoadFirstChunk, StopBeforeCommand,
     Confirm, Decline, Arm, StepFailed, CheckpointStops, RequestStop, vars, Stopped, Aborted, End
<1>2. CASE EraseUbi \/ CheckpointAfterErase \/ RereadMap
  BY <1>0, <1>2, BufferKept DEF EraseUbi, CheckpointAfterErase, RereadMap
<1>3. CASE LoadChunk
  <2>1. left' # {} /\ left' \subseteq Chunk(off)
    BY <1>3 DEF LoadChunk
  <2>2. ram'.file = off /\ ram'.spoiled = {}
    BY <1>3 DEF LoadChunk, BufferInv, FirstChunkKept
  <2> QED
    BY <1>0, <1>3, <2>1, <2>2 DEF LoadChunk, BufferInv, FirstChunkKept, ChunkInRam, Chunk
<1>4. CASE WriteSpan \/ CommandLost
  BY <1>0, <1>4, BufferKept DEF WriteSpan, CommandLost, Persistent
<1>5. CASE ReadbackSpan
  <2>1. left' = left \ FirstSpan(left) /\ off' = off /\ ram'.file = ram.file
        /\ ram'.spoiled = ram.spoiled \cup FirstSpan(left)
    BY <1>5 DEF ReadbackSpan, BufferInv, TypeInv, TypeOK
  <2>2. pc' \in {"writeSpan", "chunkDone"} /\ (pc' = "writeSpan" => left' # {})
    BY <1>5 DEF ReadbackSpan
  <2> QED
    BY <1>0, <1>5, <2>1, <2>2 DEF ReadbackSpan, BufferInv, FirstChunkKept, ChunkInRam, Chunk
<1>6. CASE CheckpointAfterChunk
  <2>1. off' # 0
    BY <1>6, RestoreAssumption DEF CheckpointAfterChunk, BufferInv, TypeInv, TypeOK
  <2> QED
    BY <1>0, <1>6, <2>1 DEF CheckpointAfterChunk, BufferInv, FirstChunkKept, ChunkInRam
<1>7. CASE CompareMap \/ LoadBl2 \/ CheckpointBeforeBl2 \/ BlockStop
  BY <1>0, <1>7 DEF CompareMap, LoadBl2, CheckpointBeforeBl2, BlockStop, BufferInv,
     FirstChunkKept, ChunkInRam
<1>8. CASE EraseBl2 \/ WriteBl2 \/ ReadbackBl2 \/ CommandFailed
  BY <1>0, <1>8, BufferKept DEF EraseBl2, WriteBl2, ReadbackBl2, CommandFailed, End
<1> QED
  BY <1>1, <1>2, <1>3, <1>4, <1>5, <1>6, <1>7, <1>8 DEF Next, Core, Operator

\* Whatever the sizes, the bad blocks and the order of the spans, a span is never written from
\* RAM that a readback or another file has overwritten (both formats).
THEOREM SpansFromIntactRam == Spec => []SourceInRam
<1>1. Init => BufferInv
  BY BufferInit
<1>2. BufferInv /\ [Next]_vars => BufferInv'
  BY BufferNext
<1>3. BufferInv => SourceInRam
  BY DEF BufferInv, ChunkInRam, SourceInRam, FirstSpan
<1> QED
  BY <1>1, <1>2, <1>3, PTL DEF Spec

(***************************************************************************)
(* STOP between chunks (stock).  Of what the wizard has not come to there  *)
(* is nothing in flash; what it has finished is in place.  Both hold as    *)
(* long as no block has gone bad since the listing the spans go around.    *)
(***************************************************************************)
\* The first block the wizard has not come to yet.
Frontier == IF pc \in InChunk THEN off + ChunkBlocks ELSE off

Untouched(b) == content[b] \notin Image

Fresh ==
  /\ pc \in Preparing => \A b \in Blocks : Untouched(b)
  /\ pc \in Late /\ bad = maps[2] => \A b \in Image : Frontier <= b => Untouched(b)

\* The last listing is the second one until the comparison.
TwoListings == pc \in Late \ Agreed => Len(maps) = 2

StopInv == IInv /\ Fresh /\ TwoListings /\ NoHalfChunkWhenStopped

\* Neither what a block held at first nor what an erase leaves is of the image.
LEMMA NotOfImage == Original \notin Image /\ Erased \notin Image /\ Garbage \notin Image
BY Layout DEF Original, Erased, Garbage

LEMMA StopInit ==
  ASSUME Init
  PROVE  StopInv
<1>1. Fresh
  BY NotOfImage DEF Init, Fresh, Untouched, Late, InChunk, Agreed, AtBl2
<1>2. TwoListings /\ NoHalfChunkWhenStopped
  BY DEF Init, TwoListings, NoHalfChunkWhenStopped, Late, InChunk, Agreed, AtBl2
<1> QED
  BY <1>1, <1>2, IInvInit DEF StopInv

\* Where the wizard looks for STOP, each chunk is finished or was not begun.
LEMMA NoHalfChunkHere ==
  ASSUME Format = "stock", StopInv, UNCHANGED <<content, bad, maps, off>>,
         pc \in Preparing \cup {"chunkDone", "beforeBl2"}
  PROVE  NoHalfChunkWhenStopped'
<1> DEFINE Whole(w) == \A b \in Image \ bad : IF b < w THEN content[b] = b ELSE Untouched(b)
<1> SUFFICES ASSUME maps # <<>> => maps[Len(maps)] = bad
             PROVE  \E w \in {0, off, off + ChunkBlocks} : Whole(w)
  BY DEF NoHalfChunkWhenStopped, Untouched, Image
<1>0. /\ off \in Nat /\ ChunkBlocks \in Nat /\ Image \subseteq Nat /\ Image \subseteq Blocks
  BY RestoreAssumption, Layout DEF StopInv, IInv, TypeInv, TypeOK
<1>1. CASE pc \in Preparing
  <2>1. Whole(0)
    BY <1>0, <1>1 DEF StopInv, Fresh
  <2> QED
    BY <2>1
<1>2. CASE pc = "chunkDone"
  <2>1. bad = maps[2]
    <3>1. Len(maps) = 2
      BY <1>2 DEF StopInv, TwoListings, Late, InChunk, Agreed, AtBl2
    <3>2. maps # <<>>
      BY <3>1
    <3> QED
      BY <3>1, <3>2
  <2>2. \A b \in Finished \ bad : content[b] = b
    BY <1>2, <2>1 DEF StopInv, IInv, Placed, Late, InChunk
  <2>3. left = {}
    BY <1>2 DEF StopInv, IInv, Remaining
  <2>4. \A b \in Image : b < off + ChunkBlocks => b \in Finished
    BY <1>0, <1>2, <2>3 DEF Finished, InChunk, Chunk
  <2>5. \A b \in Image : off + ChunkBlocks <= b => Untouched(b)
    BY <1>2, <2>1 DEF StopInv, Fresh, Frontier, Late, InChunk
  <2>6. Whole(off + ChunkBlocks)
    BY <1>0, <2>2, <2>4, <2>5
  <2> QED
    BY <2>6
<1>3. CASE pc = "beforeBl2"
  <2>1. bad = maps[2] /\ off >= RestoreBlocks
    BY <1>3 DEF StopInv, IInv, Compared, Agreed
  <2>2. \A b \in Image : b < off
    BY <1>0, <2>1, RestoreAssumption DEF Image
  <2>3. Whole(off)
    BY <1>3, <2>1, <2>2 DEF StopInv, IInv, Placed, Finished, Late, Agreed
  <2> QED
    BY <2>3
<1> QED
  BY <1>1, <1>2, <1>3

\* Steps that leave flash, listings and chunk alone.
LEMMA FreshKept ==
  ASSUME StopInv, UNCHANGED <<content, bad, maps, off>>,
         pc' \in Preparing => pc \in Preparing,
         pc' \in Late => pc \in Late,
         pc' \in Late \ Agreed => pc \in Late \ Agreed,
         pc \in InChunk /\ pc' \in Late => pc' \in InChunk
  PROVE  Fresh' /\ TwoListings'
<1>1. pc' \in Late => Frontier <= Frontier'
  BY RestoreAssumption DEF StopInv, IInv, TypeInv, TypeOK, Frontier
<1>2. Frontier \in Nat /\ Frontier' \in Nat /\ Image \subseteq Nat
  BY RestoreAssumption, Layout DEF StopInv, IInv, TypeInv, TypeOK, Frontier
<1> QED
  BY <1>1, <1>2 DEF StopInv, Fresh, Untouched, TwoListings, Image

\* An erase, whole or not, puts nothing of the image into flash.
LEMMA FreshAfterErase ==
  ASSUME StopInv, pc = "eraseUbi", pc' = "erased", UNCHANGED maps,
         \A b \in Blocks : content'[b] \in {content[b], Erased, Garbage}
  PROVE  Fresh' /\ TwoListings'
BY NotOfImage DEF StopInv, Fresh, TwoListings, Untouched, Preparing, Late, InChunk, Agreed, AtBl2, Image

\* A write, whole or not, puts nothing of the image beyond its chunk, or a block has gone bad.
LEMMA FreshAfterWrite ==
  ASSUME StopInv, pc = "writeSpan", pc' = "readSpan", UNCHANGED <<maps, off>>, bad \subseteq bad',
         \A b \in Blocks : \/ content'[b] = content[b]
                           \/ content'[b] = AfterWrite(FirstSpan(left), bad')[b]
                           \/ content'[b] = Garbage /\ Lowest(left) <= b
  PROVE  Fresh' /\ TwoListings'
<1> USE DEF Preparing, Late, InChunk, Agreed, AtBl2
<1>1. /\ left \in SUBSET Nat /\ left # {} /\ IsFiniteSet(left) /\ left \subseteq Chunk(off)
      /\ left \cap maps[2] = {} /\ maps[2] \subseteq bad /\ bad \subseteq bad'
  BY Layout DEF StopInv, IInv, TypeInv, TypeOK, Remaining, Listings
<1>2. Fresh'
  <2> SUFFICES ASSUME bad' = maps[2], NEW b \in Image, Frontier <= b
               PROVE  content'[b] \notin Image
    BY DEF Fresh, Frontier, Untouched, Image
  <2>1. bad = maps[2]
    BY <1>1
  <2>2. content[b] \notin Image
    BY <2>1 DEF StopInv, Fresh, Untouched
  <2>3. b \notin left
    BY <1>1, RestoreAssumption, Layout DEF Frontier, Chunk, StopInv, IInv, TypeInv, TypeOK
  <2>4. b \notin Reached(FirstSpan(left), bad')
    <3>1. Reached(FirstSpan(left), bad') \subseteq FirstSpan(left)
      BY <1>1, <2>1, WriteStaysInSpan
    <3> QED
      BY <2>3, <3>1 DEF FirstSpan
  <2>5. AfterWrite(FirstSpan(left), bad')[b] = content[b]
    BY <2>4, Layout DEF AfterWrite, StopInv, IInv, TypeInv, TypeOK
  <2> QED
    BY <2>2, <2>5, Layout, NotOfImage
<1> QED
  BY <1>2 DEF StopInv, TwoListings

LEMMA StopNext ==
  ASSUME Format = "stock", StopInv, [Next]_vars
  PROVE  StopInv'
<1>0. IInv'
  BY IInvNext DEF StopInv
<1> USE DEF Preparing, Late, InChunk, Agreed, AtBl2
<1>4. ASSUME UNCHANGED outcome, pc # "done" PROVE NoHalfChunkWhenStopped'
  BY <1>4 DEF StopInv, IInv, Ended, NoHalfChunkWhenStopped
<1>1. CASE \/ LoadFirstChunk \/ Confirm \/ Arm \/ CheckpointAfterErase \/ LoadChunk \/ ReadbackSpan
           \/ LoadBl2 \/ CheckpointBeforeBl2 \/ BlockStop \/ RequestStop \/ UNCHANGED vars
  <2>1. Fresh' /\ TwoListings'
    BY <1>1, FreshKept DEF LoadFirstChunk, Confirm, Arm, CheckpointAfterErase, IsStock, LoadChunk,
       ReadbackSpan, LoadBl2, CheckpointBeforeBl2, BlockStop, RequestStop, vars
  <2>2. UNCHANGED <<content, bad, maps, off, outcome>>
    BY <1>1 DEF LoadFirstChunk, Confirm, Arm, CheckpointAfterErase, LoadChunk,
       ReadbackSpan, LoadBl2, CheckpointBeforeBl2, BlockStop, RequestStop, vars
  <2>3. NoHalfChunkWhenStopped'
    BY <2>2 DEF StopInv, NoHalfChunkWhenStopped, Image
  <2> QED
    BY <1>0, <2>1, <2>3 DEF StopInv
<1>2. CASE StopBeforeCommand \/ Decline \/ CheckpointStops
  <2>1. /\ pc' = "done" /\ UNCHANGED <<content, bad, maps, off>>
        /\ pc \in Preparing \cup {"chunkDone", "beforeBl2"}
    BY <1>2 DEF StopBeforeCommand, Decline, CheckpointStops, Stopped, Aborted, End
  <2> QED
    BY <1>0, <2>1, FreshKept, NoHalfChunkHere DEF StopInv
<1>3. CASE RefuseFirstMap \/ StepFailed \/ CommandFailed \/ ReadbackBl2
  <2>1. pc' = "done" /\ outcome' \in {"failed", "success"}
    BY <1>3 DEF RefuseFirstMap, StepFailed, CommandFailed, ReadbackBl2, Aborted, End
  <2> QED
    BY <1>0, <2>1 DEF StopInv, Fresh, TwoListings, NoHalfChunkWhenStopped
<1>5. CASE ReadFirstMap
  <2>1. Fresh' /\ TwoListings'
    BY <1>5 DEF ReadFirstMap, StopInv, Fresh, Untouched, TwoListings
  <2> QED
    BY <1>0, <1>4, <1>5, <2>1 DEF StopInv, ReadFirstMap
<1>11. CASE EraseUbi
  <2>1. \A b \in Blocks : content'[b] \in {content[b], Erased, Garbage}
    BY <1>11, Layout DEF EraseUbi, AfterErase, StopInv, IInv, TypeInv, TypeOK
  <2> QED
    BY <1>0, <1>4, <1>11, <2>1, FreshAfterErase DEF StopInv, EraseUbi
<1>6. CASE RereadMap
  <2>1. Len(maps') = 2
    <3>1. Len(maps) = 1 /\ maps \in Seq(SUBSET Blocks)
      BY <1>6 DEF RereadMap, StopInv, IInv, Listings, TypeInv, TypeOK
    <3>2. PICK map \in SUBSET Blocks : maps' = Append(maps, map)
      BY <1>6 DEF RereadMap, StopInv, IInv, TypeInv, TypeOK, Bl2Good
    <3> QED
      BY <3>1, <3>2, AppendOne
  <2>2. Fresh' /\ TwoListings'
    BY <1>6, <2>1, Layout DEF RereadMap, StopInv, Fresh, Untouched, TwoListings, Image
  <2> QED
    BY <1>0, <1>4, <1>6, <2>2 DEF StopInv, RereadMap
<1>7. CASE WriteSpan
  <2>1. bad \subseteq bad' /\ content' = AfterWrite(FirstSpan(left), bad')
    BY <1>7 DEF WriteSpan, GrowsBad
  <2> QED
    BY <1>0, <1>4, <1>7, <2>1, FreshAfterWrite DEF StopInv, WriteSpan
<1>12. CASE CommandLost
  <2> USE DEF CommandLost, Persistent
  <2>1. CASE pc = "eraseUbi"
    BY <1>0, <1>4, <1>12, <2>1, HalfEffect, FreshAfterErase DEF StopInv, IInv
  <2>2. CASE pc = "writeSpan"
    BY <1>0, <1>4, <1>12, <2>2, HalfEffect, FreshAfterWrite DEF StopInv, IInv
  <2>3. CASE pc \in {"eraseBl2", "writeBl2"}
    <3>1. bad' = bad /\ \A b \in Image : content'[b] = content[b]
      BY <1>12, <2>3, HalfEffect DEF StopInv, IInv
    <3>2. Fresh' /\ TwoListings'
      BY <1>12, <2>3, <3>1 DEF StopInv, Fresh, Untouched, TwoListings, Frontier, Image
    <3> QED
      BY <1>0, <1>4, <1>12, <2>3, <3>2 DEF StopInv
  <2> QED
    BY <1>12, <2>1, <2>2, <2>3
<1>8. CASE CheckpointAfterChunk
  <2>2. Frontier' = Frontier /\ pc' \in {"loadChunk", "compareMap"}
    BY <1>8 DEF CheckpointAfterChunk, Frontier, IsStock
  <2>3. Fresh' /\ TwoListings'
    BY <1>8, <2>2 DEF CheckpointAfterChunk, StopInv, Fresh, Untouched, TwoListings, Image
  <2> QED
    BY <1>0, <1>4, <1>8, <2>3 DEF StopInv, CheckpointAfterChunk
<1>9. CASE CompareMap
  <2>1. maps'[2] = maps[2]
    <3>1. Len(maps) >= 2 /\ maps \in Seq(SUBSET Blocks) /\ bad \in SUBSET Blocks
      BY <1>9 DEF CompareMap, StopInv, IInv, Listings, TypeInv, TypeOK, Bl2Good
    <3> QED
      BY <1>9, <3>1 DEF CompareMap
  <2>2. Fresh' /\ TwoListings'
    BY <1>9, <2>1 DEF CompareMap, StopInv, Fresh, Untouched, TwoListings, Frontier, Image
  <2> QED
    BY <1>0, <1>4, <1>9, <2>2 DEF StopInv, CompareMap
<1>10. CASE EraseBl2 \/ WriteBl2
  <2>1. \A b \in Image : content'[b] = content[b]
    BY <1>10, Layout DEF EraseBl2, WriteBl2, StopInv, IInv, TypeInv, TypeOK
  <2>2. Fresh' /\ TwoListings'
    BY <1>10, <2>1 DEF EraseBl2, WriteBl2, StopInv, Fresh, Untouched, TwoListings, Frontier, Image
  <2> QED
    BY <1>0, <1>4, <1>10, <2>2 DEF StopInv, EraseBl2, WriteBl2
<1> QED
  BY <1>1, <1>2, <1>3, <1>5, <1>6, <1>7, <1>8, <1>9, <1>10, <1>11, <1>12 DEF Next, Core, Operator

LEMMA StockStop == ASSUME Format = "stock" PROVE Spec => []NoHalfChunkWhenStopped
<1>1. Init => StopInv
  BY StopInit
<1>2. StopInv /\ [Next]_vars => StopInv'
  BY StopNext
<1>3. StopInv => NoHalfChunkWhenStopped
  BY DEF StopInv
<1> QED
  BY <1>1, <1>2, <1>3, PTL DEF Spec

(***************************************************************************)
(* The same for physical restore, whose one listing was empty: as long as  *)
(* no block has gone bad, a write stays in its chunk.                      *)
(***************************************************************************)
OneListing ==
  /\ maps \in {<<>>, <<{}>>}
  /\ pc \notin {"badBlocks", "done"} => maps = <<{}>>

PhysicalFresh ==
  /\ pc \in Preparing => \A b \in Blocks : Untouched(b)
  /\ pc \in PhysicalLate /\ bad = {} => \A b \in Image : Frontier <= b => Untouched(b)

PhysicalStopInv == PhysicalInv /\ OneListing /\ PhysicalFresh /\ NoHalfChunkWhenStopped

LEMMA PhysicalStopInit ==
  ASSUME Init
  PROVE  PhysicalStopInv
<1>1. PhysicalFresh /\ OneListing
  BY NotOfImage DEF Init, PhysicalFresh, OneListing, Untouched, PhysicalLate, InChunk, Agreed, AtBl2
<1>2. NoHalfChunkWhenStopped
  BY DEF Init, NoHalfChunkWhenStopped
<1> QED
  BY <1>1, <1>2, PhysicalInit DEF PhysicalStopInv

LEMMA PhysicalNoHalfChunkHere ==
  ASSUME Format = "physical", PhysicalStopInv, UNCHANGED <<content, bad, maps, off>>,
         pc \in Preparing \cup {"chunkDone", "beforeBl2"}
  PROVE  NoHalfChunkWhenStopped'
<1> DEFINE Whole(w) == \A b \in Image \ bad : IF b < w THEN content[b] = b ELSE Untouched(b)
<1> SUFFICES ASSUME maps # <<>> => maps[Len(maps)] = bad
             PROVE  \E w \in {0, off, off + ChunkBlocks} : Whole(w)
  BY DEF NoHalfChunkWhenStopped, Untouched, Image
<1>0. /\ off \in Nat /\ ChunkBlocks \in Nat /\ Image \subseteq Nat /\ Image \subseteq Blocks
  BY RestoreAssumption, Layout DEF PhysicalStopInv, PhysicalInv, TypeInv, TypeOK
<1>1. CASE pc \in Preparing
  <2>1. Whole(0)
    BY <1>0, <1>1 DEF PhysicalStopInv, PhysicalFresh
  <2> QED
    BY <2>1
<1>2. CASE pc \in {"chunkDone", "beforeBl2"}
  <2>1. bad = {}
    <3>1. maps = <<{}>>
      BY <1>2 DEF PhysicalStopInv, OneListing, PhysicalLate, InChunk, Agreed
    <3> QED
      BY <3>1
  <2>2. \A b \in Image : b < Front => content[b] = b
    BY <1>2, <2>1 DEF PhysicalStopInv, PhysicalInv, Shifted, BadBelow, PhysicalLate, InChunk, Agreed
  <2>3. Front = Frontier /\ Frontier \in {off, off + ChunkBlocks} /\ Frontier \in Nat
    BY <1>0, <1>2 DEF Front, Frontier, InChunk
  <2>4. \A b \in Image : Frontier <= b => Untouched(b)
    BY <1>2, <2>1 DEF PhysicalStopInv, PhysicalFresh, PhysicalLate, InChunk, Agreed
  <2>5. Whole(Frontier)
    BY <1>0, <2>2, <2>3, <2>4
  <2> QED
    BY <2>3, <2>5
<1> QED
  BY <1>1, <1>2

\* Steps that leave flash, listings and chunk alone.
LEMMA PhysicalFreshKept ==
  ASSUME PhysicalStopInv, UNCHANGED <<content, bad, maps, off>>,
         pc' \in Preparing => pc \in Preparing,
         pc' \in PhysicalLate => pc \in PhysicalLate,
         pc \in {"badBlocks", "done"} => pc' \in {"badBlocks", "done"},
         pc \in InChunk /\ pc' \in PhysicalLate => pc' \in InChunk
  PROVE  PhysicalFresh' /\ OneListing'
<1>1. pc' \in PhysicalLate => Frontier <= Frontier'
  BY RestoreAssumption DEF PhysicalStopInv, PhysicalInv, TypeInv, TypeOK, Frontier
<1>2. Frontier \in Nat /\ Frontier' \in Nat /\ Image \subseteq Nat
  BY RestoreAssumption, Layout DEF PhysicalStopInv, PhysicalInv, TypeInv, TypeOK, Frontier
<1> QED
  BY <1>1, <1>2 DEF PhysicalStopInv, PhysicalFresh, Untouched, OneListing, Image

LEMMA PhysicalFreshAfterErase ==
  ASSUME PhysicalStopInv, pc = "eraseUbi", pc' = "erased", UNCHANGED maps,
         \A b \in Blocks : content'[b] \in {content[b], Erased, Garbage}
  PROVE  PhysicalFresh' /\ OneListing'
BY NotOfImage DEF PhysicalStopInv, PhysicalFresh, OneListing, Untouched, Preparing, PhysicalLate,
   InChunk, Agreed, AtBl2, Image

LEMMA PhysicalFreshAfterWrite ==
  ASSUME PhysicalStopInv, pc = "writeSpan", pc' = "readSpan", UNCHANGED <<maps, off>>,
         bad \subseteq bad',
         \A b \in Blocks : \/ content'[b] = content[b]
                           \/ content'[b] = AfterWrite(FirstSpan(left), bad')[b]
                           \/ content'[b] = Garbage /\ Lowest(left) <= b
  PROVE  PhysicalFresh' /\ OneListing'
<1> USE DEF Preparing, PhysicalLate, InChunk, Agreed, AtBl2
<1>1. /\ off \in Image /\ left = Chunk(off) /\ Chunk(off) \in SUBSET Nat /\ Chunk(off) # {}
      /\ IsFiniteSet(Chunk(off))
  BY ChunkIsSpan, Layout DEF PhysicalStopInv, PhysicalInv, WholeChunk
<1>2. PhysicalFresh'
  <2> SUFFICES ASSUME bad' = {}, NEW b \in Image, off + ChunkBlocks <= b
               PROVE  content'[b] \notin Image
    BY DEF PhysicalFresh, Frontier, Untouched, Image
  <2>1. bad = {} /\ content[b] \notin Image
    BY DEF PhysicalStopInv, PhysicalFresh, Frontier, Untouched
  <2>2. b \notin FirstSpan(Chunk(off))
    BY <1>1, RestoreAssumption, Layout DEF FirstSpan, Chunk
  <2>3. b \notin Reached(FirstSpan(left), bad')
    <3>1. Reached(FirstSpan(Chunk(off)), bad') \subseteq FirstSpan(Chunk(off))
      BY <1>1, WriteStaysInSpan
    <3> QED
      BY <1>1, <2>2, <3>1
  <2>4. AfterWrite(FirstSpan(left), bad')[b] = content[b]
    BY <2>3, Layout DEF AfterWrite, PhysicalStopInv, PhysicalInv, TypeInv, TypeOK
  <2> QED
    BY <2>1, <2>4, Layout, NotOfImage
<1> QED
  BY <1>2 DEF PhysicalStopInv, OneListing

LEMMA PhysicalStopNext ==
  ASSUME Format = "physical", PhysicalStopInv, [Next]_vars
  PROVE  PhysicalStopInv'
<1>0. PhysicalInv' /\ ~IsStock
  BY PhysicalNext DEF PhysicalStopInv, IsStock
<1> USE DEF Preparing, PhysicalLate, InChunk, Agreed, AtBl2
<1>4. ASSUME UNCHANGED outcome, pc # "done" PROVE NoHalfChunkWhenStopped'
  BY <1>4 DEF PhysicalStopInv, PhysicalInv, Ended, NoHalfChunkWhenStopped
<1>1. CASE \/ LoadFirstChunk \/ Confirm \/ Arm \/ LoadChunk \/ ReadbackSpan
           \/ LoadBl2 \/ CheckpointBeforeBl2 \/ BlockStop \/ RequestStop \/ UNCHANGED vars
  <2>1. PhysicalFresh' /\ OneListing'
    BY <1>1, PhysicalFreshKept DEF LoadFirstChunk, Confirm, Arm, LoadChunk,
       ReadbackSpan, LoadBl2, CheckpointBeforeBl2, BlockStop, RequestStop, vars
  <2>2. UNCHANGED <<content, bad, maps, off, outcome>>
    BY <1>1 DEF LoadFirstChunk, Confirm, Arm, LoadChunk,
       ReadbackSpan, LoadBl2, CheckpointBeforeBl2, BlockStop, RequestStop, vars
  <2>3. NoHalfChunkWhenStopped'
    BY <2>2 DEF PhysicalStopInv, NoHalfChunkWhenStopped, Image
  <2> QED
    BY <1>0, <2>1, <2>3 DEF PhysicalStopInv
<1>2. CASE StopBeforeCommand \/ Decline \/ CheckpointStops
  <2>1. /\ pc' = "done" /\ UNCHANGED <<content, bad, maps, off>>
        /\ pc \in Preparing \cup {"chunkDone", "beforeBl2"}
    BY <1>2 DEF StopBeforeCommand, Decline, CheckpointStops, Stopped, Aborted, End
  <2> QED
    BY <1>0, <2>1, PhysicalFreshKept, PhysicalNoHalfChunkHere DEF PhysicalStopInv
<1>3. CASE RefuseFirstMap \/ StepFailed \/ CommandFailed \/ ReadbackBl2
  <2>1. pc' = "done" /\ outcome' \in {"failed", "success"} /\ UNCHANGED maps
    BY <1>3 DEF RefuseFirstMap, StepFailed, CommandFailed, ReadbackBl2, Aborted, End
  <2> QED
    BY <1>0, <2>1 DEF PhysicalStopInv, PhysicalFresh, OneListing, NoHalfChunkWhenStopped
<1>5. CASE ReadFirstMap
  <2>1. PhysicalFresh' /\ OneListing'
    BY <1>0, <1>5 DEF ReadFirstMap, PhysicalStopInv, PhysicalFresh, OneListing, Untouched
  <2> QED
    BY <1>0, <1>4, <1>5, <2>1 DEF PhysicalStopInv, ReadFirstMap
<1>11. CASE EraseUbi
  <2>1. \A b \in Blocks : content'[b] \in {content[b], Erased, Garbage}
    BY <1>11, Layout DEF EraseUbi, AfterErase, PhysicalStopInv, PhysicalInv, TypeInv, TypeOK
  <2> QED
    BY <1>0, <1>4, <1>11, <2>1, PhysicalFreshAfterErase DEF PhysicalStopInv, EraseUbi
<1>6. CASE RereadMap \/ CompareMap
  BY <1>6 DEF RereadMap, CompareMap, PhysicalStopInv, PhysicalInv, WholeChunk
<1>7. CASE WriteSpan
  <2>1. FirstSpan(left) = left
    BY <1>7, ChunkIsSpan DEF WriteSpan, PhysicalStopInv, PhysicalInv, WholeChunk
  <2>2. bad \subseteq bad' /\ content' = AfterWrite(FirstSpan(left), bad')
    BY <1>7, <2>1 DEF WriteSpan, GrowsBad
  <2> QED
    BY <1>0, <1>4, <1>7, <2>2, PhysicalFreshAfterWrite DEF PhysicalStopInv, WriteSpan
<1>12. CASE CommandLost
  <2> USE DEF CommandLost, Persistent
  <2>1. CASE pc = "eraseUbi"
    BY <1>0, <1>4, <1>12, <2>1, HalfEffect, PhysicalFreshAfterErase DEF PhysicalStopInv, PhysicalInv
  <2>2. CASE pc = "writeSpan"
    BY <1>0, <1>4, <1>12, <2>2, HalfEffect, PhysicalFreshAfterWrite DEF PhysicalStopInv, PhysicalInv
  <2>3. CASE pc \in {"eraseBl2", "writeBl2"}
    <3>1. bad' = bad /\ \A b \in Image : content'[b] = content[b]
      BY <1>12, <2>3, HalfEffect DEF PhysicalStopInv, PhysicalInv
    <3>2. PhysicalFresh' /\ OneListing'
      BY <1>12, <2>3, <3>1 DEF PhysicalStopInv, PhysicalFresh, Untouched, OneListing, Frontier, Image
    <3> QED
      BY <1>0, <1>4, <1>12, <2>3, <3>2 DEF PhysicalStopInv
  <2> QED
    BY <1>12, <2>1, <2>2, <2>3
<1>8. CASE CheckpointAfterErase
  <2>1. maps = <<{}>>
    BY <1>8 DEF CheckpointAfterErase, PhysicalStopInv, OneListing
  <2>2. PhysicalFresh' /\ OneListing'
    BY <1>8, <2>1, Layout DEF CheckpointAfterErase, PhysicalStopInv, PhysicalFresh, OneListing, Untouched
  <2> QED
    BY <1>0, <1>4, <1>8, <2>2 DEF PhysicalStopInv, CheckpointAfterErase
<1>9. CASE CheckpointAfterChunk
  <2>2. Frontier' = Frontier /\ pc' \in {"loadChunk", "loadBl2"}
    BY <1>0, <1>9 DEF CheckpointAfterChunk, Frontier
  <2>3. PhysicalFresh' /\ OneListing'
    BY <1>9, <2>2 DEF CheckpointAfterChunk, PhysicalStopInv, PhysicalFresh, Untouched, OneListing, Image
  <2> QED
    BY <1>0, <1>4, <1>9, <2>3 DEF PhysicalStopInv, CheckpointAfterChunk
<1>10. CASE EraseBl2 \/ WriteBl2
  <2>1. \A b \in Image : content'[b] = content[b]
    BY <1>10, Layout DEF EraseBl2, WriteBl2, PhysicalStopInv, PhysicalInv, TypeInv, TypeOK
  <2>2. PhysicalFresh' /\ OneListing'
    BY <1>10, <2>1 DEF EraseBl2, WriteBl2, PhysicalStopInv, PhysicalFresh, Untouched, OneListing, Frontier, Image
  <2> QED
    BY <1>0, <1>4, <1>10, <2>2 DEF PhysicalStopInv, EraseBl2, WriteBl2
<1> QED
  BY <1>1, <1>2, <1>3, <1>5, <1>6, <1>7, <1>8, <1>9, <1>10, <1>11, <1>12 DEF Next, Core, Operator

LEMMA PhysicalStop == ASSUME Format = "physical" PROVE Spec => []NoHalfChunkWhenStopped
<1>1. Init => PhysicalStopInv
  BY PhysicalStopInit
<1>2. PhysicalStopInv /\ [Next]_vars => PhysicalStopInv'
  BY PhysicalStopNext
<1>3. PhysicalStopInv => NoHalfChunkWhenStopped
  BY DEF PhysicalStopInv
<1> QED
  BY <1>1, <1>2, <1>3, PTL DEF Spec

\* Of either format, for every partition, image, chunk size and set of bad blocks, and whatever a
\* command that failed unseen left behind: STOP ends the restore between chunks, unless a block
\* has gone bad that no listing has shown yet.
THEOREM StopLeavesWholeChunks == Spec => []NoHalfChunkWhenStopped
BY StockStop, PhysicalStop, RestoreAssumption

(***************************************************************************)
(* STOP before BL2.                                                        *)
(***************************************************************************)
\* What a STOP accepted before the last look makes of the rest of the operation.
Honoured ==
  /\ stop # "none" /\ content[Bl2] = Original /\ outcome # "success"
  /\ BeforeLastLook \/ pc = "done"

LEMMA HonouredHere ==
  ASSUME Safe, stop # "none", BeforeLastLook
  PROVE  Honoured
BY DEF Safe, Bl2Untouched, Ended, BeforeLastLook, Honoured

LEMMA HonouredNext ==
  ASSUME Safe, Safe', Honoured, [Next]_vars
  PROVE  Honoured'
<1> USE DEF Honoured, BeforeLastLook
<1>1. TypeInv /\ mode \in {"now", "checkpoint", "unavailable"} /\ pc \in Steps
      /\ (pc = "done" <=> outcome # "running")
  BY DEF Safe, TypeInv, TypeOK, Ended
<1>2. CASE \/ ReadFirstMap \/ RefuseFirstMap \/ LoadFirstChunk \/ StopBeforeCommand \/ Confirm
           \/ Decline \/ Arm \/ CheckpointAfterErase \/ RereadMap \/ LoadChunk
  BY <1>1, <1>2 DEF ReadFirstMap, RefuseFirstMap, LoadFirstChunk, StopBeforeCommand, Confirm,
     Decline, Arm, CheckpointAfterErase, RereadMap, LoadChunk, Stopped, Aborted, End
<1>3. CASE \/ ReadbackSpan \/ CheckpointAfterChunk \/ CompareMap \/ LoadBl2 \/ CheckpointBeforeBl2
           \/ BlockStop \/ EraseBl2 \/ WriteBl2 \/ ReadbackBl2
  BY <1>1, <1>3 DEF ReadbackSpan, CheckpointAfterChunk, CompareMap, LoadBl2, CheckpointBeforeBl2,
     BlockStop, EraseBl2, WriteBl2, ReadbackBl2
<1>4. CASE StepFailed \/ CheckpointStops \/ RequestStop \/ UNCHANGED vars
  BY <1>1, <1>4 DEF StepFailed, CheckpointStops, RequestStop, vars, Stopped, Aborted, End
<1>5. CASE EraseUbi
  BY <1>1, <1>5, Layout DEF EraseUbi, AfterErase, TypeInv, TypeOK
<1>6. CASE WriteSpan
  BY <1>1, <1>6, WholeWrite DEF WriteSpan
<1>7. CASE CommandLost \/ CommandFailed
  <2>1. pc \in {"eraseUbi", "writeSpan"} /\ content'[Bl2] = content[Bl2]
    BY <1>1, <1>7, HalfEffect DEF CommandLost, CommandFailed
  <2> QED
    BY <1>7, <2>1 DEF CommandLost, CommandFailed, Persistent, End
<1> QED
  BY <1>2, <1>3, <1>4, <1>5, <1>6, <1>7 DEF Next, Core, Operator

\* Either format, for every value of the constants: a STOP accepted before the last look for it
\* ends the operation without a success and with the old BL2 in place.
THEOREM EarlyStopHonoured == Spec => EarlyStopKeepsBl2
<1>1. Safe /\ stop # "none" /\ BeforeLastLook => Honoured
  BY HonouredHere
<1>2. Safe /\ Safe' /\ Honoured /\ [Next]_vars => Honoured'
  BY HonouredNext
<1>3. Honoured => content[Bl2] = Original /\ outcome # "success"
  BY DEF Honoured
<1> QED
  BY <1>1, <1>2, <1>3, RestoreSafe, PTL DEF Spec, EarlyStopKeepsBl2
==============================================================================
