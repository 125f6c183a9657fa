--------------------------- MODULE BootRescueProofs ---------------------------
(***************************************************************************)
(* The wizards that write the boot chain, for any number of commands lost, *)
(* damaged or failing half way: success means written, nothing is          *)
(* destroyed before its replacement is in RAM, and the boot wizards keep   *)
(* the flash contract.                                                     *)
(*                                                                         *)
(* Different as they are, the wizards have one shape: gates and loads, the *)
(* end of STOP, the second stage written and shown by its checksum, then   *)
(* BL2 written and shown by its own.  Marks says where these places are in *)
(* each wizard, Fits what its steps do between them, and the invariant is  *)
(* about the place the wizard has come to, not about the wizard.           *)
(***************************************************************************)
EXTENDS BootRescue, TLAPS

Places(seen, loaded, loaded2, blocked, written, shown, written2, shown2) ==
  [layout |-> seen,          \* past it, the device is known to carry UBI
   fipLoad |-> loaded, bl2Load |-> loaded2,
   block |-> blocked,        \* from here STOP waits
   fipWrite |-> written,     \* the last step that changes the second stage
   fipCrc |-> shown,
   bl2Write |-> written2,    \* the last step that changes BL2
   bl2Crc |-> shown2]

\* A part that is not written has its places where the part before it ends.
Marks ==
  [bl2 |-> Places(4, 4, 2, 4, 4, 4, 6, 9),
   bootChain |-> Places(3, 4, 11, 6, 7, 10, 13, 16),
   total |-> Places(8, 3, 4, 8, 16, 18, 20, 23),
   fipRepair |-> Places(2, 3, 8, 5, 6, 8, 8, 9),
   noRead |-> Places(2, 3, 8, 5, 6, 8, 8, 9),
   volume |-> Places(2, 3, 8, 5, 6, 8, 8, 9),
   install |-> Places(2, 7, 12, 9, 10, 12, 12, 13),
   vanilla |-> Places(2, 7, 12, 9, 10, 12, 12, 13),
   stock |-> Places(9, 7, 7, 9, 11, 14, 16, 19),
   stockArea |-> Places(9, 7, 14, 9, 11, 14, 14, 18),
   stockFirst |-> Places(9, 9, 7, 9, 9, 9, 11, 14),
   raw |-> Places(3, 3, 1, 3, 3, 3, 4, 7),
   recovery |-> Places(4, 4, 4, 4, 4, 4, 4, 4)]

Mark == Marks[flow]

TouchFip == {"eraseUbi", "createFip", "writeFip", "eraseArea", "writeArea"}
TouchBl2 == {"eraseBl2", "writeBl2"}
FillLoad == {"loadBl2", "loadArea", "readCurrent", "peek", "bootm"}
FillVerify == {"wipe", "readBl2", "readFip", "readArea", "readRest"}
Reads == {"install", "vanilla"} \cup StockFlows     \* what the device holds is read first
ShowsBl2 == BootFlows \cup StockFlows \cup {"raw"}
OnUbi == Flows \ ({"bl2", "total", "raw", "recovery"} \cup StockFlows)

Sends(s, cs) == s.do \in {"blind", "once", "sure"} /\ s.what \in cs

\* What the step at k does, by its place.
FitsFlash(k) ==
  LET s == Program[flow][k] IN
  /\ Sends(s, TouchFip) => Mark.block < k /\ k <= Mark.fipWrite
  /\ Sends(s, TouchBl2) => Mark.fipCrc < k /\ Mark.bl2Load < k /\ k <= Mark.bl2Write
  /\ Sends(s, {"eraseUbi"}) => flow = "total"
  /\ Sends(s, FillVerify) => k > Mark.block
  /\ Sends(s, {"readFip", "readArea"}) => k > Mark.fipWrite
  /\ Sends(s, {"readBl2", "readRest"}) => k > Mark.bl2Write
  /\ Sends(s, {"bootm"}) => flow = "recovery" /\ k = Length

FitsRam(k) ==
  LET s == Program[flow][k] IN
  /\ s.do = "load" => s.to \in {"load", "high"}
  /\ Mark.fipLoad < k /\ k <= Mark.fipWrite => ~Sends(s, FillLoad) /\ (s.do = "load" => s.to # "load")
  /\ Mark.bl2Load < k /\ k <= Mark.bl2Write => ~Sends(s, FillLoad) /\ s.do # "load"
  /\ flow \in Reads /\ k <= 6 => s.do # "load"
  /\ flow \in Reads /\ k = 1 => ~Sends(s, FillLoad \ {"peek"})

FitsHost(k) ==
  LET s == Program[flow][k] IN
  /\ s.do \in {"load", "confirm"} => k <= Mark.fipCrc + 1
  /\ s.do = "mode" => \/ k = Mark.block /\ s.what = "blocked"
                      \/ k = Length /\ s.what = "now"
  /\ s.do = "layout" => k = 2 /\ flow \in {"install", "vanilla"}
  /\ s.do = "check" /\ s.what = "notInstalled" => k = 6 /\ flow \in Reads

FitsMarks ==
  /\ Length \in Nat
  /\ \A x \in DOMAIN Mark : Mark[x] \in 1..Length
  /\ Mark.block <= Mark.fipWrite /\ Mark.fipWrite <= Mark.fipCrc /\ Mark.fipCrc <= Mark.bl2Write
  /\ Mark.layout <= Mark.block /\ Mark.fipLoad <= Mark.block /\ Mark.bl2Load <= Mark.fipCrc + 1
  /\ flow \in Reads => 6 < Mark.block
  /\ flow # "recovery" => Program[flow][Mark.block] = Blocked
  /\ flow = "recovery" => Mark.block = Length
  /\ Mark.block < Mark.fipWrite =>
       /\ Mark.fipWrite < Mark.fipCrc /\ Program[flow][Mark.fipCrc] = Crc("fip")
       /\ Program[flow][Mark.fipLoad] = Load(FipImage, "load")
  /\ Mark.block < Mark.fipWrite \/ Mark.fipLoad = Mark.fipWrite
  /\ flow \notin {"bl2", "stockFirst", "raw", "recovery"} => Mark.block < Mark.fipWrite
  /\ Mark.fipCrc < Mark.bl2Write => Program[flow][Mark.bl2Load] = Load(Bl2Image, Bl2Source)
  /\ Mark.fipCrc < Mark.bl2Write \/ Mark.bl2Load = Mark.bl2Write
  /\ flow \in ShowsBl2 =>
       Mark.bl2Write < Mark.bl2Crc /\ Program[flow][Mark.bl2Crc] \in {Crc("bl2"), Crc("boot")}
  /\ flow \in OnUbi => Program[flow][Mark.layout] \in {Check("fipVolume"), Layout}
  /\ flow \in BootFlows \cup StockFlows => Program[flow][1] = Check("bl2Good")
  /\ flow \in StockFlows => Program[flow][2] = Check("areaGood")
  /\ flow = "total" => Mark.bl2Load < Mark.block

Fits == FitsMarks /\ \A k \in 1..Length : FitsFlash(k) /\ FitsRam(k) /\ FitsHost(k)

(***************************************************************************)
(* The wizards have that shape.                                            *)
(***************************************************************************)
LEMMA Bl2Fits == flow = "bl2" => Fits
<1> SUFFICES ASSUME flow = "bl2" PROVE Fits
  OBVIOUS
<1>1. Program[flow] = Bl2Rescue /\ Mark = Places(4, 4, 2, 4, 4, 4, 6, 9)
  BY DEF Program, Mark, Marks
<1> USE DEF Blind, Once, Sure, Check, Crc, Load, ProveRam, Confirm, Layout, Blocked, Free, Places, Sends
<1> USE DEF Bl2Rescue, BlindBl2
<1>2. Length = 10
  BY <1>1 DEF Length
<1>3. \A k \in 1..Length : FitsFlash(k)
  BY <1>1, <1>2 DEF FitsFlash, TouchFip, TouchBl2, FillVerify
<1>4. \A k \in 1..Length : FitsRam(k)
  BY <1>1, <1>2 DEF FitsRam, FillLoad, Reads, StockFlows
<1>5. \A k \in 1..Length : FitsHost(k)
  BY <1>1, <1>2 DEF FitsHost, Reads, StockFlows
<1>6. FitsMarks
  BY <1>1, <1>2 DEF FitsMarks, Reads, ShowsBl2, OnUbi, StockFlows, BootFlows, Bl2Source, Bl2Image,
     FipImage
<1> QED
  BY <1>3, <1>4, <1>5, <1>6 DEF Fits

LEMMA BootChainFits == flow = "bootChain" => Fits
<1> SUFFICES ASSUME flow = "bootChain" PROVE Fits
  OBVIOUS
<1>1. Program[flow] = BootChainRescue /\ Mark = Places(3, 4, 11, 6, 7, 10, 13, 16)
  BY DEF Program, Mark, Marks
<1> USE DEF Blind, Once, Sure, Check, Crc, Load, ProveRam, Confirm, Layout, Blocked, Free, Places, Sends
<1> USE DEF BootChainRescue, BlindFip, BlindBl2
<1>2. Length = 17
  BY <1>1 DEF Length
<1>3. \A k \in 1..Length : FitsFlash(k)
  BY <1>1, <1>2 DEF FitsFlash, TouchFip, TouchBl2, FillVerify
<1>4. \A k \in 1..Length : FitsRam(k)
  BY <1>1, <1>2 DEF FitsRam, FillLoad, Reads, StockFlows
<1>5. \A k \in 1..Length : FitsHost(k)
  BY <1>1, <1>2 DEF FitsHost, Reads, StockFlows
<1>6. FitsMarks
  BY <1>1, <1>2 DEF FitsMarks, Reads, ShowsBl2, OnUbi, StockFlows, BootFlows, Bl2Source, Bl2Image,
     FipImage
<1> QED
  BY <1>3, <1>4, <1>5, <1>6 DEF Fits

LEMMA TotalFits == flow = "total" => Fits
<1> SUFFICES ASSUME flow = "total" PROVE Fits
  OBVIOUS
<1>1. Program[flow] = TotalRescue /\ Mark = Places(8, 3, 4, 8, 16, 18, 20, 23)
  BY DEF Program, Mark, Marks
<1> USE DEF Blind, Once, Sure, Check, Crc, Load, ProveRam, Confirm, Layout, Blocked, Free, Places, Sends
<1> USE DEF TotalRescue, FreshUbi, VerifiedFip, VerifiedBl2
<1>2. Length = 24
  BY <1>1 DEF Length
<1>3. \A k \in 1..Length : FitsFlash(k)
  BY <1>1, <1>2 DEF FitsFlash, TouchFip, TouchBl2, FillVerify
<1>4. \A k \in 1..Length : FitsRam(k)
  BY <1>1, <1>2 DEF FitsRam, FillLoad, Reads, StockFlows
<1>5. \A k \in 1..Length : FitsHost(k)
  BY <1>1, <1>2 DEF FitsHost, Reads, StockFlows
<1>6. FitsMarks
  BY <1>1, <1>2 DEF FitsMarks, Reads, ShowsBl2, OnUbi, StockFlows, BootFlows, Bl2Source, Bl2Image,
     FipImage
<1> QED
  BY <1>3, <1>4, <1>5, <1>6 DEF Fits

LEMMA FipFits == flow \in {"fipRepair", "noRead", "volume"} => Fits
<1> SUFFICES ASSUME flow \in {"fipRepair", "noRead", "volume"} PROVE Fits
  OBVIOUS
<1>1. Program[flow] = FipRepair /\ Mark = Places(2, 3, 8, 5, 6, 8, 8, 9)
  <2>1. InstallNoRead = FipRepair /\ ExpertVolume = FipRepair
    BY DEF FipRepair, InstallNoRead, ExpertVolume
  <2>2. CASE flow = "fipRepair"
    BY <2>2 DEF Program, Mark, Marks
  <2>3. CASE flow = "noRead"
    BY <2>1, <2>3 DEF Program, Mark, Marks
  <2>4. CASE flow = "volume"
    BY <2>1, <2>4 DEF Program, Mark, Marks
  <2> QED
    BY <2>2, <2>3, <2>4
<1> USE DEF Blind, Once, Sure, Check, Crc, Load, ProveRam, Confirm, Layout, Blocked, Free, Places, Sends
<1> USE DEF FipRepair, InstallNoRead, ExpertVolume, ExistingFip, VerifiedFip
<1>2. Length = 9
  BY <1>1 DEF Length
<1>3. \A k \in 1..Length : FitsFlash(k)
  BY <1>1, <1>2 DEF FitsFlash, TouchFip, TouchBl2, FillVerify
<1>4. \A k \in 1..Length : FitsRam(k)
  BY <1>1, <1>2 DEF FitsRam, FillLoad, Reads, StockFlows
<1>5. \A k \in 1..Length : FitsHost(k)
  BY <1>1, <1>2 DEF FitsHost, Reads, StockFlows
<1>6. FitsMarks
  BY <1>1, <1>2 DEF FitsMarks, Reads, ShowsBl2, OnUbi, StockFlows, BootFlows, Bl2Source, Bl2Image,
     FipImage
<1> QED
  BY <1>3, <1>4, <1>5, <1>6 DEF Fits

LEMMA InstallFits == flow \in {"install", "vanilla"} => Fits
<1> SUFFICES ASSUME flow \in {"install", "vanilla"} PROVE Fits
  OBVIOUS
<1>1. Program[flow] = WhereLayout \o Install /\ Mark = Places(2, 7, 12, 9, 10, 12, 12, 13)
  <2>1. CASE flow = "install"
    BY <2>1 DEF Program, Mark, Marks
  <2>2. CASE flow = "vanilla"
    BY <2>2 DEF Program, Mark, Marks
  <2> QED
    BY <2>1, <2>2
<1> USE DEF Blind, Once, Sure, Check, Crc, Load, ProveRam, Confirm, Layout, Blocked, Free, Places, Sends
<1> USE DEF WhereLayout, Install, ExistingFip, VerifiedFip
<1>2. Length = 13
  BY <1>1 DEF Length
<1>3. \A k \in 1..Length : FitsFlash(k)
  BY <1>1, <1>2 DEF FitsFlash, TouchFip, TouchBl2, FillVerify
<1>4. \A k \in 1..Length : FitsRam(k)
  BY <1>1, <1>2 DEF FitsRam, FillLoad, Reads, StockFlows
<1>5. \A k \in 1..Length : FitsHost(k)
  BY <1>1, <1>2 DEF FitsHost, Reads, StockFlows
<1>6. FitsMarks
  BY <1>1, <1>2 DEF FitsMarks, Reads, ShowsBl2, OnUbi, StockFlows, BootFlows, Bl2Source, Bl2Image,
     FipImage
<1> QED
  BY <1>3, <1>4, <1>5, <1>6 DEF Fits

LEMMA StockFits == flow = "stock" => Fits
<1> SUFFICES ASSUME flow = "stock" PROVE Fits
  OBVIOUS
<1>1. Program[flow] = StockInstall(TRUE, TRUE) /\ Mark = Places(9, 7, 7, 9, 11, 14, 16, 19)
  BY DEF Program, Mark, Marks
<1> USE DEF Blind, Once, Sure, Check, Crc, Load, ProveRam, Confirm, Layout, Blocked, Free, Places, Sends
<1> USE DEF StockInstall, VerifiedArea, VerifiedBl2, WholeArea
<1>2. Length = 24
  BY <1>1 DEF Length
<1>3. \A k \in 1..Length : FitsFlash(k)
  BY <1>1, <1>2 DEF FitsFlash, TouchFip, TouchBl2, FillVerify
<1>4. \A k \in 1..Length : FitsRam(k)
  BY <1>1, <1>2 DEF FitsRam, FillLoad, Reads, StockFlows
<1>5. \A k \in 1..Length : FitsHost(k)
  BY <1>1, <1>2 DEF FitsHost, Reads, StockFlows
<1>6. FitsMarks
  BY <1>1, <1>2 DEF FitsMarks, Reads, ShowsBl2, OnUbi, StockFlows, BootFlows, Bl2Source, Bl2Image,
     FipImage
<1> QED
  BY <1>3, <1>4, <1>5, <1>6 DEF Fits

LEMMA StockAreaFits == flow = "stockArea" => Fits
<1> SUFFICES ASSUME flow = "stockArea" PROVE Fits
  OBVIOUS
<1>1. Program[flow] = StockInstall(TRUE, FALSE) /\ Mark = Places(9, 7, 14, 9, 11, 14, 14, 18)
  BY DEF Program, Mark, Marks
<1> USE DEF Blind, Once, Sure, Check, Crc, Load, ProveRam, Confirm, Layout, Blocked, Free, Places, Sends
<1> USE DEF StockInstall, VerifiedArea, WholeArea
<1>2. Length = 19
  BY <1>1 DEF Length
<1>3. \A k \in 1..Length : FitsFlash(k)
  BY <1>1, <1>2 DEF FitsFlash, TouchFip, TouchBl2, FillVerify
<1>4. \A k \in 1..Length : FitsRam(k)
  BY <1>1, <1>2 DEF FitsRam, FillLoad, Reads, StockFlows
<1>5. \A k \in 1..Length : FitsHost(k)
  BY <1>1, <1>2 DEF FitsHost, Reads, StockFlows
<1>6. FitsMarks
  BY <1>1, <1>2 DEF FitsMarks, Reads, ShowsBl2, OnUbi, StockFlows, BootFlows, Bl2Source, Bl2Image,
     FipImage
<1> QED
  BY <1>3, <1>4, <1>5, <1>6 DEF Fits

LEMMA StockFirstFits == flow = "stockFirst" => Fits
<1> SUFFICES ASSUME flow = "stockFirst" PROVE Fits
  OBVIOUS
<1>1. Program[flow] = StockInstall(FALSE, TRUE) /\ Mark = Places(9, 9, 7, 9, 9, 9, 11, 14)
  BY DEF Program, Mark, Marks
<1> USE DEF Blind, Once, Sure, Check, Crc, Load, ProveRam, Confirm, Layout, Blocked, Free, Places, Sends
<1> USE DEF StockInstall, VerifiedBl2, WholeArea
<1>2. Length = 19
  BY <1>1 DEF Length
<1>3. \A k \in 1..Length : FitsFlash(k)
  BY <1>1, <1>2 DEF FitsFlash, TouchFip, TouchBl2, FillVerify
<1>4. \A k \in 1..Length : FitsRam(k)
  BY <1>1, <1>2 DEF FitsRam, FillLoad, Reads, StockFlows
<1>5. \A k \in 1..Length : FitsHost(k)
  BY <1>1, <1>2 DEF FitsHost, Reads, StockFlows
<1>6. FitsMarks
  BY <1>1, <1>2 DEF FitsMarks, Reads, ShowsBl2, OnUbi, StockFlows, BootFlows, Bl2Source, Bl2Image,
     FipImage
<1> QED
  BY <1>3, <1>4, <1>5, <1>6 DEF Fits

LEMMA RawFits == flow = "raw" => Fits
<1> SUFFICES ASSUME flow = "raw" PROVE Fits
  OBVIOUS
<1>1. Program[flow] = RawBl2 /\ Mark = Places(3, 3, 1, 3, 3, 3, 4, 7)
  BY DEF Program, Mark, Marks
<1> USE DEF Blind, Once, Sure, Check, Crc, Load, ProveRam, Confirm, Layout, Blocked, Free, Places, Sends
<1> USE DEF RawBl2, VerifiedBl2
<1>2. Length = 8
  BY <1>1 DEF Length
<1>3. \A k \in 1..Length : FitsFlash(k)
  BY <1>1, <1>2 DEF FitsFlash, TouchFip, TouchBl2, FillVerify
<1>4. \A k \in 1..Length : FitsRam(k)
  BY <1>1, <1>2 DEF FitsRam, FillLoad, Reads, StockFlows
<1>5. \A k \in 1..Length : FitsHost(k)
  BY <1>1, <1>2 DEF FitsHost, Reads, StockFlows
<1>6. FitsMarks
  BY <1>1, <1>2 DEF FitsMarks, Reads, ShowsBl2, OnUbi, StockFlows, BootFlows, Bl2Source, Bl2Image,
     FipImage
<1> QED
  BY <1>3, <1>4, <1>5, <1>6 DEF Fits

LEMMA RecoveryFits == flow = "recovery" => Fits
<1> SUFFICES ASSUME flow = "recovery" PROVE Fits
  OBVIOUS
<1>1. Program[flow] = Recovery /\ Mark = Places(4, 4, 4, 4, 4, 4, 4, 4)
  BY DEF Program, Mark, Marks
<1> USE DEF Blind, Once, Sure, Check, Crc, Load, ProveRam, Confirm, Layout, Blocked, Free, Places, Sends
<1> USE DEF Recovery
<1>2. Length = 4
  BY <1>1 DEF Length
<1>3. \A k \in 1..Length : FitsFlash(k)
  BY <1>1, <1>2 DEF FitsFlash, TouchFip, TouchBl2, FillVerify
<1>4. \A k \in 1..Length : FitsRam(k)
  BY <1>1, <1>2 DEF FitsRam, FillLoad, Reads, StockFlows
<1>5. \A k \in 1..Length : FitsHost(k)
  BY <1>1, <1>2 DEF FitsHost, Reads, StockFlows
<1>6. FitsMarks
  BY <1>1, <1>2 DEF FitsMarks, Reads, ShowsBl2, OnUbi, StockFlows, BootFlows, Bl2Source, Bl2Image,
     FipImage
<1> QED
  BY <1>3, <1>4, <1>5, <1>6 DEF Fits

LEMMA FlowFits == flow \in Flows => Fits
<1>1. Flows = {"bl2", "bootChain", "total", "fipRepair", "noRead", "install", "vanilla", "stock",
               "stockArea", "stockFirst", "volume", "raw", "recovery"}
  BY DEF Flows, Program
<1> QED
  BY <1>1, Bl2Fits, BootChainFits, TotalFits, FipFits, InstallFits, StockFits, StockAreaFits,
     StockFirstFits, RawFits, RecoveryFits

(***************************************************************************)
(* The invariant, by the place a running wizard has come to.               *)
(***************************************************************************)
Addresses == {"load", "high", "verify"}

Typing ==
  /\ flow \in Flows /\ at \in 1..(Length + 1)
  /\ ram = [a \in Addresses |-> ram[a]]
  /\ bl2 \in {"original", "erased", "torn", "image"}

\* STOP waits from the first change of flash to the last step.
Waits == Mark.block < at /\ at <= Length => mode = "blocked"

Gates ==
  /\ flow \in BootFlows \cup StockFlows /\ at > 1 => "bl2" \notin bad
  /\ flow \in StockFlows /\ at > 2 => "area" \notin bad
  /\ flow # "total" /\ attached => layout = "ubi"
  /\ flow \in OnUbi /\ at > Mark.layout => layout = "ubi"
  /\ flow \in StockFlows => layout = "stock"

\* What an installation reads before it loads anything is what the device holds.
Found ==
  /\ flow \in Reads /\ at <= 2 => ram["load"] = "junk"
  /\ flow \in Reads /\ at <= 6 /\ ram["load"] \in {"fip", "boot"} => fip = "image"
  /\ flow \in Reads /\ at <= 6 /\ ram["load"] \in {"bl2", "boot"} => bl2 = Bl2Wanted

\* From its load until its last write, an image stays where it was loaded.
PayloadIn ==
  /\ Mark.fipLoad < at /\ at <= Mark.fipWrite => ram["load"] = FipImage
  /\ Mark.bl2Load < at /\ at <= Mark.bl2Write => ram[Bl2Source] = Bl2Image

Untouched == at <= Mark.fipCrc + 1 /\ flow # "raw" => bl2 = "original"

\* The verify buffer is wiped before it is filled: what it holds was read behind the last write.
Readback ==
  /\ at <= Mark.block => ram["verify"] = "junk"
  /\ ram["verify"] \in {"bl2", "boot"} => bl2 = Bl2Wanted /\ at > Mark.bl2Write
  /\ ram["verify"] \in {"fip", "boot"} => fip = "image" /\ at > Mark.fipWrite

\* Past its checksum a part holds its image.
Shown ==
  /\ Mark.block < Mark.fipWrite /\ at > Mark.fipCrc => fip = "image"
  /\ flow \in ShowsBl2 /\ at > Mark.bl2Crc => bl2 = Bl2Wanted
  /\ flow = "stockFirst" => fip = "image"

Running == Waits /\ Gates /\ Found /\ PayloadIn /\ Untouched /\ Readback /\ Shown

BootInv == Typing /\ (outcome = "running" => Running) /\ SuccessIsWritten

(***************************************************************************)
(* A step.  Advances is all that the invariant has to know of one.         *)
(***************************************************************************)
\* What a read of the device, or a wipe, leaves in RAM.
LoadRead(c) ==
  \/ ram'["load"] = "junk"
  \/ c = "loadBl2" /\ ram'["load"] = "bl2" /\ bl2 = Bl2Wanted
  \/ c = "loadArea" /\ ram'["load"] = "boot" /\ ram["load"] = "bl2" /\ fip = "image"
  \/ c = "readCurrent" /\ ram'["load"] = "fip" /\ fip = "image"

VerifyRead(c) ==
  \/ ram'["verify"] \in {"zero", "junk"}
  \/ c = "readBl2" /\ ram'["verify"] = "bl2" /\ bl2 = Bl2Wanted
  \/ c \in {"readFip", "readArea"} /\ ram'["verify"] = "fip" /\ fip = "image"
  \/ c = "readRest" /\ ram'["verify"] = "boot" /\ ram["verify"] = "bl2" /\ fip = "image"

\* What has come of the command c, whatever the host hears of it.
Came(c) == (Able(c) /\ Do(c)) \/ Spoil(c) \/ UNCHANGED device

Changes(c) ==
  /\ bad' = bad
  /\ bl2' # bl2 => c \in TouchBl2 /\ bl2' \in {"erased", "torn", "image"}
  /\ fip' # fip => c \in TouchFip
  /\ layout' # layout \/ volumes' # volumes => c = "eraseUbi"
  /\ attached' => attached \/ layout = "ubi"
  /\ ram' = [a \in Addresses |-> ram'[a]]
  /\ ram'["load"] # ram["load"] => c \in FillLoad /\ LoadRead(c)
  /\ ram'["high"] # ram["high"] => c = "bootm"
  /\ ram'["verify"] # ram["verify"] => c \in FillVerify \cup {"bootm"} /\ VerifyRead(c)

LEMMA CommandChanges ==
  ASSUME Typing, NEW c, Came(c)
  PROVE  Changes(c)
<1> USE DEF Typing, Changes, device, flash
<1>1. CASE UNCHANGED device
  BY <1>1
<1>2. CASE Spoil(c)
  BY <1>2 DEF Spoil, TouchBl2, TouchFip
<1>3. ASSUME Able(c), Do(c)
      PROVE  Changes(c)
  <2>1. ASSUME NEW x, Fill("verify", x)
        PROVE  /\ UNCHANGED <<bl2, layout, bad, fip, volumes, attached>>
               /\ ram' = [a \in Addresses |-> ram'[a]] /\ ram'["verify"] = x
               /\ ram'["load"] = ram["load"] /\ ram'["high"] = ram["high"]
    BY <2>1 DEF Fill, Addresses
  <2>2. ASSUME NEW x, Fill("load", x)
        PROVE  /\ UNCHANGED <<bl2, layout, bad, fip, volumes, attached>>
               /\ ram' = [a \in Addresses |-> ram'[a]] /\ ram'["load"] = x
               /\ ram'["verify"] = ram["verify"] /\ ram'["high"] = ram["high"]
    BY <2>2 DEF Fill, Addresses
  <2>3. CASE c \in TouchBl2 \cup TouchFip \cup {"iminfo"}
    <3>1. UNCHANGED <<bad, ram>> /\ (attached' = attached \/ attached' = FALSE)
      BY <1>3, <2>3 DEF Do, WriteFip, TouchBl2, TouchFip
    <3>2. /\ bl2' # bl2 => c \in TouchBl2 /\ bl2' \in {"erased", "torn", "image"}
          /\ fip' # fip => c \in TouchFip
          /\ layout' # layout \/ volumes' # volumes => c = "eraseUbi"
      BY <1>3, <2>3 DEF Do, WriteFip, TouchBl2, TouchFip
    <3> QED
      BY <3>1, <3>2
  <2>7. CASE c \in {"attach", "detach"}
    <3>1. UNCHANGED <<flash, ram>> /\ attached' = (c = "attach")
      BY <1>3, <2>7 DEF Do
    <3>2. c = "attach" => layout = "ubi"
      BY <1>3 DEF Able
    <3>3. attached' => attached \/ layout = "ubi"
      BY <3>1, <3>2, Zenon
    <3> QED
      BY <3>1, <3>3
  <2>4. CASE c \in FillVerify
    BY <1>3, <2>1, <2>4 DEF Do, FillVerify, VerifyRead
  <2>5. CASE c \in FillLoad \ {"bootm"}
    BY <1>3, <2>2, <2>5 DEF Do, FillLoad, LoadRead
  <2>6. CASE c = "bootm"
    BY <1>3, <2>6 DEF Do, FillLoad, LoadRead, VerifyRead, Addresses
  <2> QED
    BY <1>3, <2>3, <2>4, <2>5, <2>6, <2>7 DEF Do, TouchBl2, TouchFip, FillVerify, FillLoad
<1> QED
  BY <1>1, <1>2, <1>3 DEF Came

Advances ==
  /\ at <= Length /\ at' = at + 1 /\ UNCHANGED <<flow, outcome, bad>>
  /\ mode' = IF Step.do = "mode" THEN Step.what ELSE mode
  /\ bl2' # bl2 => Sends(Step, TouchBl2) /\ bl2' \in {"erased", "torn", "image"}
  /\ fip' # fip => Sends(Step, TouchFip)
  /\ layout' # layout => Sends(Step, {"eraseUbi"})
  /\ attached' => attached \/ layout = "ubi"
  /\ ram' = [a \in Addresses |-> ram'[a]]
  /\ ram'["load"] # ram["load"] =>
       \/ Sends(Step, FillLoad) /\ LoadRead(Step.what)
       \/ Step.do = "load" /\ Step.to = "load"
  /\ ram'["high"] # ram["high"] => Sends(Step, {"bootm"}) \/ (Step.do = "load" /\ Step.to = "high")
  /\ ram'["verify"] # ram["verify"] =>
       Sends(Step, FillVerify \cup {"bootm"}) /\ VerifyRead(Step.what)
  /\ Step.do = "load" => ram'[Step.to] = Step.what
  /\ Step.do = "crc" => ram["verify"] = Step.what
  /\ Step.do = "check" /\ Step.what # "notInstalled" => Passes(Step.what)
  /\ Step.do = "layout" => layout = "ubi"

LEMMA AtStep ==
  ASSUME Typing, at <= Length
  PROVE  FitsMarks /\ FitsFlash(at) /\ FitsRam(at) /\ FitsHost(at)
<1>1. Fits
  BY FlowFits DEF Typing
<1>2. Length \in Nat
  BY <1>1 DEF Fits, FitsMarks
<1>3. at \in 1..Length
  BY <1>2 DEF Typing
<1> QED
  BY <1>1, <1>3 DEF Fits

LEMMA MarksAreNumbers ==
  ASSUME Typing
  PROVE  /\ FitsMarks /\ Length \in Nat
         /\ Mark.layout \in Nat /\ Mark.fipLoad \in Nat /\ Mark.bl2Load \in Nat /\ Mark.block \in Nat
         /\ Mark.fipWrite \in Nat /\ Mark.fipCrc \in Nat /\ Mark.bl2Write \in Nat /\ Mark.bl2Crc \in Nat
<1>1. FitsMarks
  BY FlowFits DEF Typing, Fits
<1>2. DOMAIN Mark = {"layout", "fipLoad", "bl2Load", "block", "fipWrite", "fipCrc", "bl2Write", "bl2Crc"}
  BY FlowFits DEF Typing, Mark, Marks, Places, Flows, Program
<1>3. Length \in Nat /\ \A x \in DOMAIN Mark : Mark[x] \in Nat
  BY <1>1 DEF FitsMarks
<1> QED
  BY <1>1, <1>2, <1>3

\* A step forward leaves the places where they are.
LEMMA SamePlaces ==
  ASSUME Typing, at <= Length, at' = at + 1, UNCHANGED flow
  PROVE  /\ Length \in Nat /\ at \in 1..Length /\ at' \in 1..(Length + 1) /\ Length' = Length
         /\ Mark' = Mark /\ FipImage' = FipImage /\ Bl2Image' = Bl2Image
         /\ Bl2Source' = Bl2Source /\ Bl2Wanted' = Bl2Wanted
         /\ Mark.layout \in Nat /\ Mark.fipLoad \in Nat /\ Mark.bl2Load \in Nat /\ Mark.block \in Nat
         /\ Mark.fipWrite \in Nat /\ Mark.fipCrc \in Nat /\ Mark.bl2Write \in Nat /\ Mark.bl2Crc \in Nat
<1>1. Length' = Length /\ Mark' = Mark
  BY DEF Length, Mark
<1> QED
  BY <1>1, MarksAreNumbers DEF Typing, FipImage, Bl2Image, Bl2Source, Bl2Wanted

LEMMA WaitsKeeps ==
  ASSUME Typing, Waits, Advances
  PROVE  Waits'
<1>1. FitsMarks /\ FitsHost(at)
  BY AtStep DEF Advances
<1>2. Mark' = Mark /\ Length' = Length /\ at \in 1..Length /\ Mark.block \in Nat /\ Length \in Nat
  BY SamePlaces DEF Advances
<1>3. at = Mark.block /\ flow # "recovery" => Step.do = "mode" /\ Step.what = "blocked"
  BY <1>1 DEF FitsMarks, Step, Blocked
<1> QED
  BY <1>1, <1>2, <1>3 DEF Waits, Advances, FitsMarks, FitsHost, Step

LEMMA GatesKeep ==
  ASSUME Typing, Gates, Advances
  PROVE  Gates'
<1>1. FitsMarks /\ FitsFlash(at)
  BY AtStep DEF Advances
<1>2. Mark' = Mark /\ Length' = Length /\ at \in 1..Length /\ Mark.layout \in Nat
  BY SamePlaces DEF Advances
<1>3. layout' = layout \/ flow = "total"
  BY <1>1 DEF Advances, FitsFlash, Step
<1>4. flow \in BootFlows \cup StockFlows /\ at = 1 => "bl2" \notin bad
  <2>1. ASSUME flow \in BootFlows \cup StockFlows, at = 1
        PROVE  Passes("bl2Good")
    <3>1. Step = Check("bl2Good")
      BY <1>1, <2>1 DEF FitsMarks, Step
    <3> QED
      BY <3>1 DEF Advances, Check
  <2> QED
    BY <2>1 DEF Passes
<1>5. flow \in StockFlows /\ at = 2 => "area" \notin bad
  <2>1. ASSUME flow \in StockFlows, at = 2
        PROVE  Passes("areaGood")
    <3>1. Step = Check("areaGood")
      BY <1>1, <2>1 DEF FitsMarks, Step
    <3> QED
      BY <3>1 DEF Advances, Check
  <2> QED
    BY <2>1 DEF Passes
<1>6. flow \in OnUbi /\ at = Mark.layout => layout = "ubi"
  <2>1. ASSUME flow \in OnUbi, at = Mark.layout, Step = Check("fipVolume")
        PROVE  layout = "ubi"
    <3>1. attached
      BY <2>1 DEF Advances, Check, Passes
    <3> QED
      BY <2>1, <3>1 DEF Gates, OnUbi
  <2> QED
    BY <1>1, <2>1 DEF FitsMarks, Advances, Step, Layout
<1>7. flow # "total" /\ attached' => layout' = "ubi"
  BY <1>3 DEF Advances, Gates
<1>8. "total" \notin OnUbi \cup StockFlows
  BY DEF OnUbi, StockFlows
<1> QED
  BY <1>2, <1>3, <1>4, <1>5, <1>6, <1>7, <1>8 DEF Gates, Advances

LEMMA UntouchedKeeps ==
  ASSUME Typing, Untouched, Advances
  PROVE  Untouched'
<1>1. FitsFlash(at)
  BY AtStep DEF Advances
<1>2. Mark' = Mark /\ at \in 1..Length /\ Mark.fipCrc \in Nat
  BY SamePlaces DEF Advances
<1> QED
  BY <1>1, <1>2 DEF Untouched, Advances, FitsFlash, Step

LEMMA ShownKeeps ==
  ASSUME Typing, Shown, Readback, Advances
  PROVE  Shown'
<1>1. FitsMarks /\ FitsFlash(at)
  BY AtStep DEF Advances
<1>2. /\ Mark' = Mark /\ Bl2Wanted' = Bl2Wanted /\ at \in 1..Length /\ Mark.block \in Nat
      /\ Mark.fipWrite \in Nat /\ Mark.fipCrc \in Nat /\ Mark.bl2Write \in Nat /\ Mark.bl2Crc \in Nat
  BY SamePlaces DEF Advances
<1>3. Mark.block < Mark.fipWrite /\ at' > Mark.fipCrc => fip' = "image"
  <2> SUFFICES ASSUME Mark.block < Mark.fipWrite, at' > Mark.fipCrc
               PROVE  fip' = "image"
    OBVIOUS
  <2>1. fip = "image"
    BY <1>1, <1>2 DEF Shown, Readback, Advances, FitsMarks, Step, Crc
  <2>2. fip' = fip
    BY <1>1, <1>2 DEF Advances, FitsMarks, FitsFlash, Step
  <2> QED
    BY <2>1, <2>2
<1>4. flow \in ShowsBl2 /\ at' > Mark.bl2Crc => bl2' = Bl2Wanted
  <2> SUFFICES ASSUME flow \in ShowsBl2, at' > Mark.bl2Crc
               PROVE  bl2' = Bl2Wanted
    OBVIOUS
  <2>1. bl2 = Bl2Wanted
    BY <1>1, <1>2 DEF Shown, Readback, Advances, FitsMarks, Step, Crc
  <2>2. bl2' = bl2
    BY <1>1, <1>2 DEF Advances, FitsMarks, FitsFlash, Step
  <2> QED
    BY <2>1, <2>2
<1>5. flow = "stockFirst" => fip' = fip
  <2>1. flow = "stockFirst" => Mark.fipWrite = Mark.block
    BY DEF Mark, Marks, Places
  <2> QED
    BY <1>1, <1>2, <2>1 DEF Advances, FitsFlash, Step
<1> QED
  BY <1>2, <1>3, <1>4, <1>5 DEF Shown, Advances

LEMMA ReadbackKeeps ==
  ASSUME Typing, Readback, Advances
  PROVE  Readback'
<1>1. FitsMarks /\ FitsFlash(at)
  BY AtStep DEF Advances
<1>2. /\ Mark' = Mark /\ Bl2Wanted' = Bl2Wanted /\ at \in 1..Length /\ Length \in Nat
      /\ Mark.block \in Nat /\ Mark.fipWrite \in Nat /\ Mark.fipCrc \in Nat /\ Mark.bl2Write \in Nat
  BY SamePlaces DEF Advances
<1>3. at > Mark.bl2Write => bl2' = bl2
  BY <1>1, <1>2 DEF Advances, FitsFlash, Step
<1>4. at > Mark.fipWrite => fip' = fip
  BY <1>1, <1>2 DEF Advances, FitsFlash, Step
<1>5. Mark.fipWrite <= Mark.bl2Write
  BY <1>1, <1>2 DEF FitsMarks
<1>6. CASE ram'["verify"] = ram["verify"]
  BY <1>2, <1>3, <1>4, <1>6 DEF Readback, Advances
<1>7. CASE ram'["verify"] # ram["verify"]
  <2>1. Sends(Step, FillVerify \cup {"bootm"}) /\ VerifyRead(Step.what)
    BY <1>7 DEF Advances
  <2>2. at' > Mark.block
    BY <1>1, <1>2, <2>1 DEF FitsFlash, FitsMarks, Sends, Step, Advances
  <2>3. Step.what = "readBl2" => at > Mark.bl2Write
    BY <1>1, <2>1 DEF FitsFlash, Sends, Step
  <2>4. Step.what = "readRest" => at > Mark.bl2Write
    BY <1>1, <2>1 DEF FitsFlash, Sends, Step
  <2>5. Step.what \in {"readFip", "readArea"} => at > Mark.fipWrite
    BY <1>1, <2>1 DEF FitsFlash, Sends, Step
  <2>6. CASE ram'["verify"] \in {"zero", "junk"}
    BY <1>2, <2>2, <2>6 DEF Readback, Advances
  <2>7. CASE Step.what = "readBl2" /\ ram'["verify"] = "bl2" /\ bl2 = Bl2Wanted
    BY <1>2, <1>3, <2>2, <2>3, <2>7 DEF Readback, Advances
  <2>8. CASE Step.what \in {"readFip", "readArea"} /\ ram'["verify"] = "fip" /\ fip = "image"
    BY <1>2, <1>4, <2>2, <2>5, <2>8 DEF Readback, Advances
  <2>9. CASE Step.what = "readRest" /\ ram'["verify"] = "boot" /\ ram["verify"] = "bl2" /\ fip = "image"
    BY <1>2, <1>3, <1>4, <1>5, <2>2, <2>4, <2>9 DEF Readback, Advances
  <2> QED
    BY <2>1, <2>6, <2>7, <2>8, <2>9 DEF VerifyRead
<1> QED
  BY <1>6, <1>7

LEMMA PayloadStaysIn ==
  ASSUME Typing, PayloadIn, Advances
  PROVE  PayloadIn'
<1>1. FitsMarks /\ FitsFlash(at) /\ FitsRam(at)
  BY AtStep DEF Advances
<1>2. /\ Mark' = Mark /\ FipImage' = FipImage /\ Bl2Image' = Bl2Image /\ Bl2Source' = Bl2Source
      /\ at' = at + 1 /\ at \in 1..Length /\ Length \in Nat /\ Mark.fipLoad \in Nat
      /\ Mark.bl2Load \in Nat
      /\ Mark.block \in Nat /\ Mark.fipWrite \in Nat /\ Mark.fipCrc \in Nat /\ Mark.bl2Write \in Nat
  BY SamePlaces DEF Advances
<1>3. ASSUME Mark.fipLoad < at', at' <= Mark.fipWrite
      PROVE  ram'["load"] = FipImage
  <2>1. CASE at = Mark.fipLoad
    <3>1. Mark.block < Mark.fipWrite => Step = Load(FipImage, "load")
      BY <1>1, <2>1 DEF FitsMarks, Step
    <3>2. Mark.block < Mark.fipWrite
      BY <1>1, <1>2, <1>3, <2>1 DEF FitsMarks
    <3> QED
      BY <3>1, <3>2 DEF Advances, Load
  <2>2. CASE at > Mark.fipLoad
    <3>1. ram["load"] = FipImage
      BY <1>2, <1>3, <2>2 DEF PayloadIn, Advances
    <3>2. ram'["load"] = ram["load"]
      BY <1>1, <1>2, <1>3, <2>2 DEF FitsRam, Advances, Step
    <3> QED
      BY <3>1, <3>2
  <2> QED
    BY <1>2, <1>3, <2>1, <2>2 DEF Advances
<1>4. ASSUME Mark.bl2Load < at', at' <= Mark.bl2Write
      PROVE  ram'[Bl2Source] = Bl2Image
  <2>1. CASE at = Mark.bl2Load
    <3>1. Mark.fipCrc < Mark.bl2Write
      BY <1>1, <1>2, <1>4, <2>1 DEF FitsMarks
    <3>2. Step = Load(Bl2Image, Bl2Source)
      BY <1>1, <2>1, <3>1 DEF FitsMarks, Step
    <3> QED
      BY <3>2 DEF Advances, Load
  <2>2. CASE at > Mark.bl2Load
    <3>1. ram[Bl2Source] = Bl2Image
      BY <1>2, <1>4, <2>2 DEF PayloadIn, Advances
    <3>2. ~Sends(Step, FillLoad) /\ Step.do # "load"
      BY <1>1, <1>2, <1>4, <2>2 DEF FitsRam, Advances, Step
    <3>3. ~Sends(Step, {"bootm"})
      BY <3>2 DEF Sends, FillLoad
    <3>4. ram'["load"] = ram["load"] /\ ram'["high"] = ram["high"]
      BY <3>2, <3>3 DEF Advances
    <3> QED
      BY <3>1, <3>4 DEF Bl2Source
  <2> QED
    BY <1>2, <1>4, <2>1, <2>2 DEF Advances
<1> QED
  BY <1>2, <1>3, <1>4 DEF PayloadIn

LEMMA FoundKeeps ==
  ASSUME Typing, Found, Advances
  PROVE  Found'
<1>1. FitsMarks /\ FitsFlash(at) /\ FitsRam(at)
  BY AtStep DEF Advances
<1>2. Mark' = Mark /\ Bl2Wanted' = Bl2Wanted /\ at \in 1..Length /\ Mark.block \in Nat
      /\ Mark.fipCrc \in Nat /\ Mark.fipWrite \in Nat
  BY SamePlaces DEF Advances
<1> SUFFICES ASSUME flow \in Reads, at <= 5
             PROVE  Found'
  BY <1>2 DEF Found, Advances
<1>3. bl2' = bl2 /\ fip' = fip
  BY <1>1, <1>2 DEF FitsMarks, FitsFlash, Advances, Step
<1>4. CASE ram'["load"] = ram["load"]
  BY <1>2, <1>3, <1>4 DEF Found, Advances
<1>5. CASE ram'["load"] # ram["load"]
  <2>1. Sends(Step, FillLoad) /\ LoadRead(Step.what)
    BY <1>1, <1>2, <1>5 DEF FitsRam, Advances, Step
  <2>2. at = 1 => Step.what = "peek"
    BY <1>1, <2>1 DEF FitsRam, Step, Sends
  <2>3. CASE ram'["load"] = "junk"
    BY <2>3 DEF Found
  <2>4. CASE at # 1
    BY <1>2, <1>3, <2>1, <2>4 DEF Found, Advances, LoadRead
  <2> QED
    BY <2>1, <2>2, <2>3, <2>4 DEF LoadRead
<1> QED
  BY <1>4, <1>5

LEMMA AdvanceKeeps ==
  ASSUME BootInv, outcome = "running", Advances
  PROVE  BootInv'
<1>1. Typing /\ Running
  BY DEF BootInv
<1>2. Typing'
  <2>1. Length' = Length /\ at' \in 1..(Length + 1)
    BY <1>1, SamePlaces DEF Advances
  <2> QED
    BY <1>1, <2>1 DEF Typing, Advances
<1>3. Running'
  BY <1>1, WaitsKeeps, GatesKeep, FoundKeeps, PayloadStaysIn, UntouchedKeeps, ReadbackKeeps, ShownKeeps
     DEF Running
<1>4. SuccessIsWritten'
  BY DEF SuccessIsWritten, Advances
<1> QED
  BY <1>2, <1>3, <1>4 DEF BootInv

LEMMA EndKeeps ==
  ASSUME BootInv, NEW r, r \notin {"running", "success"}, End(r), ram' = [a \in Addresses |-> ram'[a]],
         bl2' # bl2 => bl2' \in {"erased", "torn", "image"}
  PROVE  BootInv'
BY DEF BootInv, End, Typing, SuccessIsWritten, Length

(***************************************************************************)
(* The actions.                                                            *)
(***************************************************************************)
Sent ==
  /\ outcome = "running" /\ at <= Length /\ Step.do \in {"blind", "once", "sure"}
  /\ Came(Step.what) /\ (GoOn \/ End("failed"))

LEMMA SendsCome == SendBlind \/ SendOnce \/ SendSure => Sent
<1> DEFINE c == Step.what
<1>1. Runs(c) \/ Refused(c) \/ Damaged(c) \/ Spoiled(c) \/ LosesAnswer(c) => Came(c)
  BY DEF Runs, Refused, Damaged, Spoiled, LosesAnswer, Came
<1>2. CASE SendBlind
  BY <1>1, <1>2 DEF SendBlind, Is, Sent
<1>3. CASE SendOnce
  BY <1>1, <1>3 DEF SendOnce, Is, Sent
<1>4. CASE SendSure
  BY <1>1, <1>4 DEF SendSure, Is, Sent
<1> QED
  BY <1>2, <1>3, <1>4

LEMMA SentKeeps ==
  ASSUME BootInv, Sent
  PROVE  BootInv'
<1>1. Typing
  BY DEF BootInv
<1>2. Changes(Step.what)
  BY <1>1, CommandChanges DEF Sent
<1>3. CASE GoOn
  <2>1. Advances
    BY <1>2, <1>3 DEF Sent, GoOn, Changes, Advances, Sends, TouchBl2, TouchFip, FillLoad, FillVerify
  <2> QED
    BY <2>1, AdvanceKeeps DEF Sent
<1>4. CASE End("failed")
  BY <1>2, <1>4, EndKeeps DEF Changes
<1> QED
  BY <1>3, <1>4 DEF Sent

\* A step that only looks.
Looked ==
  /\ outcome = "running" /\ at <= Length /\ Step.do \notin {"blind", "once", "sure", "load"}
  /\ UNCHANGED device /\ at' = at + 1 /\ UNCHANGED <<flow, outcome>>
  /\ mode' = IF Step.do = "mode" THEN Step.what ELSE mode
  /\ Step.do = "crc" => ram["verify"] = Step.what
  /\ Step.do = "check" /\ Step.what # "notInstalled" => Passes(Step.what)
  /\ Step.do = "layout" => layout = "ubi"

LEMMA LookedKeeps ==
  ASSUME BootInv, Looked
  PROVE  BootInv'
<1>1. Advances
  BY DEF BootInv, Typing, Looked, Advances, device, flash
<1> QED
  BY <1>1, AdvanceKeeps DEF Looked

LEMMA LoadKeeps ==
  ASSUME BootInv, DoLoad
  PROVE  BootInv'
<1>1. Typing /\ outcome = "running" /\ at <= Length /\ Step.do = "load"
  BY DEF BootInv, DoLoad, Is
<1>2. Step.to \in {"load", "high"}
  BY <1>1, AtStep DEF FitsRam, Step
<1>3. CASE ram' = [ram EXCEPT ![Step.to] = Step.what] /\ GoOn
  <2>1. /\ ram' = [a \in Addresses |-> ram'[a]] /\ ram'[Step.to] = Step.what
        /\ ram'["verify"] = ram["verify"]
        /\ ram'["load"] # ram["load"] => Step.to = "load"
        /\ ram'["high"] # ram["high"] => Step.to = "high"
    BY <1>1, <1>2, <1>3 DEF Typing, Addresses
  <2>2. UNCHANGED <<flash, attached>>
    BY DEF DoLoad
  <2>3. Advances
    BY <1>1, <1>3, <2>1, <2>2 DEF GoOn, Advances, flash
  <2> QED
    BY <1>1, <2>3, AdvanceKeeps
<1>4. CASE ram' = [ram EXCEPT ![Step.to] = "junk"] /\ End("failed")
  BY <1>1, <1>4, EndKeeps DEF Typing, DoLoad, flash
<1>5. CASE UNCHANGED ram /\ End("cancelled")
  BY <1>1, <1>5, EndKeeps DEF Typing, DoLoad, flash
<1> QED
  BY <1>3, <1>4, <1>5 DEF DoLoad

\* On the stock layout an installation begins again as another wizard.
Switched ==
  /\ outcome = "running" /\ at <= Length /\ Step.do = "layout" /\ layout = "stock"
  /\ flow' \in StockFlows /\ (flow' = "stockFirst" => fip = "image")
  /\ at' = 1 /\ UNCHANGED <<mode, outcome, device>>

LEMMA SwitchedKeeps ==
  ASSUME BootInv, Switched
  PROVE  BootInv'
<1>1. Typing /\ Running
  BY DEF BootInv, Switched
<1>2. FitsMarks /\ FitsHost(at)
  BY <1>1, AtStep DEF Switched
<1>3. at = 2 /\ flow \in Reads /\ flow # "raw"
  BY <1>2 DEF FitsHost, Switched, Step, Reads, StockFlows
<1>4. ram["load"] = "junk"
  BY <1>1, <1>3 DEF Running, Found
<1>5. Mark.block \in Nat /\ Mark.fipCrc \in Nat /\ Mark.fipWrite \in Nat /\ 6 < Mark.block
  BY <1>1, <1>3, MarksAreNumbers DEF FitsMarks
<1>6. ram["verify"] = "junk"
  BY <1>1, <1>3, <1>5 DEF Running, Readback
<1>7. bl2 = "original"
  BY <1>1, <1>2, <1>3, <1>5 DEF Running, Untouched, FitsMarks
<1>8. Mark' = Marks[flow'] /\ flow' \in Flows /\ Length' = Len(Program[flow'])
  BY DEF Mark, Length, Switched, StockFlows, Flows, Program
<1>9. /\ Mark'.layout = 9 /\ Mark'.block = 9 /\ Mark'.fipCrc \in 9..14 /\ Mark'.bl2Crc \in 14..19
      /\ Mark'.fipLoad \in 7..9 /\ Mark'.bl2Load \in 7..14
  BY <1>8 DEF Switched, StockFlows, Marks, Places
<1>10. Length' \in Nat /\ Length' >= 1
  BY <1>8 DEF Switched, StockFlows, Program, StockInstall
<1>11. flow' \notin OnUbi /\ flow' # "total"
  BY DEF Switched, OnUbi, StockFlows
<1>12. Typing'
  BY <1>1, <1>8, <1>10 DEF Typing, Switched, device, flash
<1>13. at' = 1 /\ UNCHANGED <<bl2, fip, layout, attached, ram>>
  BY DEF Switched, device, flash
<1>14. Waits' /\ Untouched' /\ PayloadIn'
  BY <1>7, <1>9, <1>13 DEF Waits, Untouched, PayloadIn
<1>15. Found' /\ Readback'
  BY <1>4, <1>6, <1>13 DEF Found, Readback
<1>16. Shown'
  BY <1>9, <1>13 DEF Shown, Switched
<1>17. Gates'
  <2>1. ~attached
    BY <1>1, <1>3 DEF Running, Gates, Switched, Reads, StockFlows
  <2> QED
    BY <1>9, <1>11, <1>13, <2>1 DEF Gates, Switched
<1>18. Running'
  BY <1>14, <1>15, <1>16, <1>17 DEF Running
<1> QED
  BY <1>12, <1>18 DEF BootInv, Switched, SuccessIsWritten

\* An installation that finds its image in flash has nothing to do.
LEMMA InstalledKeeps ==
  ASSUME BootInv, CheckInstalled
  PROVE  BootInv'
<1>1. Typing /\ Running /\ outcome = "running" /\ at <= Length /\ Step.do = "check" /\ Step.what = "notInstalled"
  BY DEF BootInv, CheckInstalled, Is
<1>2. UNCHANGED device
  BY DEF CheckInstalled
<1>3. at = 6 /\ flow \in Reads
  BY <1>1, AtStep DEF FitsHost, Step
<1>4. CASE ram["load"] = FipImage
  <2>1. outcome' = "success" /\ at' = Length + 1 /\ UNCHANGED flow
    BY <1>4 DEF CheckInstalled
  <2>2. Typing'
    BY <1>1, <1>2, <2>1, MarksAreNumbers DEF Typing, device, flash, Length
  <2>3. fip = "image" /\ (flow \in StockFlows => bl2 = Bl2Wanted)
    BY <1>1, <1>3, <1>4 DEF Running, Found, FipImage
  <2>4. flow \in StockFlows => "bl2" \notin bad /\ "area" \notin bad
    BY <1>1, <1>3 DEF Running, Gates
  <2>5. SuccessIsWritten'
    BY <1>2, <1>3, <2>1, <2>3, <2>4
       DEF SuccessIsWritten, device, flash, Reads, StockFlows, BootFlows, Bl2Wanted
  <2> QED
    BY <2>1, <2>2, <2>5 DEF BootInv
<1>5. CASE GoOn
  <2>1. Looked
    BY <1>1, <1>2, <1>5 DEF Looked, GoOn
  <2> QED
    BY <2>1, LookedKeeps
<1> QED
  BY <1>4, <1>5 DEF CheckInstalled

LEMMA SucceedKeeps ==
  ASSUME BootInv, Succeed
  PROVE  BootInv'
<1>1. Typing /\ Running /\ at = Length + 1 /\ UNCHANGED <<flow, at, device>>
  BY DEF BootInv, Succeed, End
<1>2. /\ FitsMarks /\ Length \in Nat /\ Mark.fipCrc \in Nat /\ Mark.bl2Crc \in Nat
  BY <1>1, MarksAreNumbers
<1>3. DOMAIN Mark = {"layout", "fipLoad", "bl2Load", "block", "fipWrite", "fipCrc", "bl2Write", "bl2Crc"}
  BY FlowFits, <1>1 DEF Typing, Mark, Marks, Places, Flows, Program
<1>4. at > Mark.fipCrc /\ at > Mark.bl2Crc
  BY <1>1, <1>2, <1>3 DEF FitsMarks
<1>5. flow \notin {"bl2", "raw", "recovery"} => fip = "image"
  BY <1>1, <1>2, <1>4 DEF Running, Shown, FitsMarks
<1>6. flow \in ShowsBl2 => bl2 = Bl2Wanted
  BY <1>1, <1>4 DEF Running, Shown
<1>7. /\ flow \in BootFlows \cup StockFlows => at > 1
      /\ flow \in StockFlows => at > 2
  <2>1. 9 <= Length \/ flow \notin BootFlows \cup StockFlows
    BY <1>2, <1>3 DEF FitsMarks, Mark, Marks, Places, BootFlows, StockFlows
  <2> QED
    BY <1>1, <1>2, <2>1
<1>8. /\ flow \in BootFlows \cup StockFlows => "bl2" \notin bad
      /\ flow \in StockFlows => "area" \notin bad
  BY <1>1, <1>7 DEF Running, Gates
<1>9. SuccessIsWritten'
  BY <1>1, <1>5, <1>6, <1>8
     DEF SuccessIsWritten, device, flash, ShowsBl2, StockFlows, BootFlows, Bl2Wanted
<1> QED
  BY <1>1, <1>9 DEF BootInv, Typing, Length, device, flash, Succeed, End

LEMMA NextKeeps ==
  ASSUME BootInv, Next
  PROVE  BootInv'
<1>1. Typing
  BY DEF BootInv
<1>2. ASSUME NEW r \in {"failed", "cancelled"}, End(r), UNCHANGED device
      PROVE  BootInv'
  BY <1>1, <1>2, EndKeeps DEF Typing, device, flash
<1>3. CASE Stop
  BY <1>2, <1>3 DEF Stop
<1>4. CASE SendBlind \/ SendOnce \/ SendSure
  BY <1>4, SendsCome, SentKeeps
<1>5. CASE DoCheck
  <2>1. CASE Passes(Step.what) /\ GoOn
    <3>1. Looked
      BY <1>5, <2>1 DEF DoCheck, Is, Looked, GoOn
    <3> QED
      BY <3>1, LookedKeeps
  <2> QED
    BY <1>2, <1>5, <2>1 DEF DoCheck
<1>6. CASE DoLayout
  <2>1. CASE layout = "ubi" /\ GoOn
    <3>1. Looked
      BY <1>6, <2>1 DEF DoLayout, Is, Looked, GoOn
    <3> QED
      BY <3>1, LookedKeeps
  <2>2. CASE /\ layout = "stock" /\ flow = "install"
             /\ flow' \in {"stockArea", IF fip = "image" THEN "stockFirst" ELSE "stock"}
             /\ at' = 1 /\ UNCHANGED <<mode, outcome>>
    <3>1. Switched
      BY <1>6, <2>2 DEF DoLayout, Is, Switched, StockFlows
    <3> QED
      BY <3>1, SwitchedKeeps
  <2> QED
    BY <1>2, <1>6, <2>1, <2>2 DEF DoLayout
<1>7. CASE DoProve
  <2>1. CASE GoOn
    <3>1. Looked
      BY <1>7, <2>1 DEF DoProve, Is, Looked, GoOn
    <3> QED
      BY <3>1, LookedKeeps
  <2> QED
    BY <1>2, <1>7, <2>1 DEF DoProve
<1>8. CASE DoConfirm
  <2>1. CASE GoOn
    <3>1. Looked
      BY <1>8, <2>1 DEF DoConfirm, Is, Looked, GoOn
    <3> QED
      BY <3>1, LookedKeeps
  <2> QED
    BY <1>2, <1>8, <2>1 DEF DoConfirm
<1>9. CASE SetMode
  <2>1. Looked
    BY <1>9 DEF SetMode, Is, Looked
  <2> QED
    BY <2>1, LookedKeeps
<1>10. CASE Compare
  <2>1. CASE ram["verify"] = Step.what /\ GoOn
    <3>1. Looked
      BY <1>10, <2>1 DEF Compare, Is, Looked, GoOn
    <3> QED
      BY <3>1, LookedKeeps
  <2> QED
    BY <1>2, <1>10, <2>1 DEF Compare
<1> QED
  BY <1>3, <1>4, <1>5, <1>6, <1>7, <1>8, <1>9, <1>10, LoadKeeps, InstalledKeeps, SucceedKeeps DEF Next

LEMMA InitHolds == Init => BootInv
<1> SUFFICES ASSUME Init PROVE BootInv
  OBVIOUS
<1>1. flow \in Flows /\ at = 1
  BY DEF Init
<1>2. FitsMarks /\ Length \in Nat
  BY <1>1, FlowFits DEF Fits, FitsMarks
<1>3. DOMAIN Mark = {"layout", "fipLoad", "bl2Load", "block", "fipWrite", "fipCrc", "bl2Write", "bl2Crc"}
  BY <1>1 DEF Mark, Marks, Places, Flows, Program
<1>4. \A x \in DOMAIN Mark : Mark[x] \in 1..Length
  BY <1>2 DEF FitsMarks
<1>5. Typing
  BY <1>1, <1>2 DEF Init, Typing, Addresses
<1>6. ram["load"] = "junk" /\ ram["verify"] = "junk"
  BY DEF Init
<1>7. Waits /\ PayloadIn /\ Found /\ Readback
  BY <1>1, <1>2, <1>3, <1>4, <1>6 DEF Waits, PayloadIn, Found, Readback
<1>8. Gates /\ Untouched /\ Shown
  BY <1>1, <1>2, <1>3, <1>4 DEF Init, Gates, Untouched, Shown, StockFlows
<1> QED
  BY <1>5, <1>7, <1>8 DEF Init, BootInv, Running, SuccessIsWritten

LEMMA BootInvariant == Spec => []BootInv
<1>1. BootInv /\ [Next]_vars => BootInv'
  <2>1. BootInv /\ UNCHANGED vars => BootInv'
    BY DEF BootInv, vars, host, device, flash, Typing, Running, Waits, Gates, Found, PayloadIn,
       Untouched,
           Readback, Shown, SuccessIsWritten, Mark, Length, Bl2Wanted, Bl2Image, FipImage, Bl2Source
  <2> QED
    BY <2>1, NextKeeps
<1> QED
  BY <1>1, InitHolds, PTL DEF Spec

\* A wizard that reports success has written what it names, however many commands were lost,
\* damaged or failed half way, and although the blind ones tell the host nothing.
THEOREM SuccessAlwaysWritten == Spec => []SuccessIsWritten
<1>1. BootInv => SuccessIsWritten
  BY DEF BootInv
<1> QED
  BY <1>1, BootInvariant, PTL

(***************************************************************************)
(* What a step does to flash, and how it may end.                          *)
(***************************************************************************)
Quiet ==
  /\ outcome = "running" /\ UNCHANGED <<bl2, fip, volumes>>
  /\ \/ UNCHANGED flow /\ outcome' \in {"running", "failed", "success"}
     \/ UNCHANGED flow /\ outcome' = "cancelled" /\ (flow # "raw" => bl2 = "original")
     \/ flow = "install" /\ flow' \in StockFlows /\ outcome' = "running" /\ bl2 = "original"

LEMMA CancelledEarly ==
  ASSUME BootInv, outcome = "running", flow # "raw",
         \/ at <= Length /\ mode = "now"
         \/ at <= Length /\ Step.do \in {"load", "confirm"}
  PROVE  bl2 = "original"
<1>1. Typing /\ Running
  BY DEF BootInv
<1>2. /\ FitsMarks /\ Length \in Nat /\ Mark.block \in Nat /\ Mark.fipCrc \in Nat
      /\ Mark.fipWrite \in Nat
      /\ at \in 1..(Length + 1)
  BY <1>1, MarksAreNumbers DEF Typing
<1>3. FitsHost(at)
  BY <1>1, AtStep
<1>4. at <= Mark.fipCrc + 1
  <2>1. CASE mode = "now"
    BY <1>1, <1>2, <2>1 DEF Running, Waits, FitsMarks
  <2>2. CASE mode # "now"
    BY <1>3, <2>2 DEF FitsHost, Step
  <2> QED
    BY <2>1, <2>2
<1> QED
  BY <1>1, <1>4 DEF Running, Untouched

LEMMA StepKinds ==
  ASSUME BootInv, Next
  PROVE  Sent \/ Quiet
<1> USE DEF GoOn, End, device, flash, Is
<1>1. CASE SendBlind \/ SendOnce \/ SendSure
  BY <1>1, SendsCome
<1>2. CASE Stop
  BY <1>2, CancelledEarly DEF Stop, Quiet
<1>3. CASE DoLoad
  BY <1>3, CancelledEarly DEF DoLoad, Quiet
<1>4. CASE DoConfirm
  BY <1>4, CancelledEarly DEF DoConfirm, Quiet
<1>5. CASE DoLayout
  <2>1. CASE flow' = flow
    BY <1>5, <2>1 DEF DoLayout, Quiet
  <2>2. CASE flow' # flow
    <3>1. /\ outcome = "running" /\ at <= Length /\ Step.do = "layout" /\ flow = "install"
          /\ flow' \in StockFlows /\ outcome' = "running" /\ UNCHANGED <<bl2, fip, volumes>>
      BY <1>5, <2>2 DEF DoLayout, StockFlows
    <3>2. Typing /\ Running
      BY <3>1 DEF BootInv
    <3>3. at = 2 /\ Mark.fipCrc = 12
      BY <3>1, <3>2, AtStep DEF FitsHost, Step, Mark, Marks, Places
    <3>4. bl2 = "original"
      BY <3>1, <3>2, <3>3 DEF Running, Untouched
    <3> QED
      BY <3>1, <3>4 DEF Quiet
  <2> QED
    BY <2>1, <2>2
<1>6. CASE DoCheck \/ DoProve \/ Compare
  BY <1>6 DEF DoCheck, DoProve, Compare, Quiet
<1>7. CASE CheckInstalled \/ SetMode \/ Succeed
  BY <1>7 DEF CheckInstalled, SetMode, Succeed, Quiet
<1> QED
  BY <1>1, <1>2, <1>3, <1>4, <1>5, <1>6, <1>7 DEF Next

\* Where the command is sent that changes a part.
LEMMA WhereChanged ==
  ASSUME BootInv, Sent
  PROVE  /\ Typing /\ Running /\ FitsMarks /\ at \in Nat
         /\ Mark.layout \in Nat /\ Mark.fipLoad \in Nat /\ Mark.bl2Load \in Nat /\ Mark.block \in Nat
         /\ Mark.fipWrite \in Nat /\ Mark.fipCrc \in Nat /\ Mark.bl2Write \in Nat
         /\ UNCHANGED flow /\ outcome' \in {"running", "failed"}
         /\ bl2' # bl2 => /\ bl2' \in {"erased", "torn", "image"}
                          /\ Mark.fipCrc < at /\ Mark.bl2Load < at /\ at <= Mark.bl2Write
         /\ fip' # fip \/ volumes' # volumes => Mark.block < at /\ at <= Mark.fipWrite
         /\ volumes' # volumes => flow = "total"
<1>1. Typing /\ Running /\ at <= Length
  BY DEF BootInv, Sent
<1>2. Changes(Step.what)
  BY <1>1, CommandChanges DEF Sent
<1>3. FitsFlash(at)
  BY <1>1, AtStep
<1>4. bl2' # bl2 => Sends(Step, TouchBl2)
  BY <1>2 DEF Sent, Sends, Changes
<1>5. fip' # fip \/ volumes' # volumes => Sends(Step, TouchFip)
  BY <1>2 DEF Sent, Sends, Changes, TouchFip
<1>6. volumes' # volumes => Sends(Step, {"eraseUbi"})
  BY <1>2 DEF Sent, Sends, Changes
<1>7. UNCHANGED flow /\ outcome' \in {"running", "failed"}
  BY DEF Sent, GoOn, End
<1>8. at \in Nat
  BY <1>1, MarksAreNumbers DEF Typing
<1>9. bl2' # bl2 => bl2' \in {"erased", "torn", "image"}
  BY <1>2 DEF Changes
<1> QED
  BY <1>1, <1>3, <1>4, <1>5, <1>6, <1>7, <1>8, <1>9, MarksAreNumbers DEF FitsFlash, Step

\* Nothing is erased, overwritten or spoiled while its replacement is not in RAM, and no wizard
\* writes a device of a layout that it is not for.
THEOREM PayloadAlwaysFirst == Spec => PayloadBeforeErase
<1> DEFINE A == /\ bl2' # bl2 => ram[Bl2Source] = Bl2Image
                /\ fip' # fip \/ volumes' # volumes => ram["load"] = FipImage
                /\ fip' # fip /\ flow # "total" => (layout = "stock") = (flow \in StockFlows)
                /\ volumes' # volumes => flow = "total" /\ ram["high"] = "bl2"
<1>1. ASSUME BootInv, [Next]_vars
      PROVE  A
  <2>1. CASE UNCHANGED <<bl2, fip, volumes>>
    BY <2>1
  <2>2. CASE Sent
    <3>1. bl2' # bl2 => ram[Bl2Source] = Bl2Image
      BY <2>2, <1>1, WhereChanged DEF Running, PayloadIn
    <3>2. ASSUME fip' # fip \/ volumes' # volumes
          PROVE  /\ ram["load"] = FipImage
                 /\ flow \in OnUbi => layout = "ubi"
                 /\ flow \in StockFlows => layout = "stock"
      BY <2>2, <1>1, <3>2, WhereChanged DEF Running, PayloadIn, Gates, FitsMarks
    <3>3. ASSUME fip' # fip, flow # "total"
          PROVE  flow \in OnUbi \cup StockFlows
      <4>1. flow \notin {"bl2", "raw", "recovery"}
        BY <2>2, <1>1, <3>3, WhereChanged DEF Mark, Marks, Places
      <4> QED
        BY <1>1, <3>3, <4>1 DEF OnUbi, BootInv, Typing
    <3>4. "ubi" # "stock" /\ OnUbi \cap StockFlows = {}
      BY DEF OnUbi
    <3>5. ASSUME volumes' # volumes
          PROVE  flow = "total" /\ ram["high"] = "bl2"
      BY <2>2, <1>1, <3>5, WhereChanged DEF Running, PayloadIn, Bl2Source, Bl2Image, FitsMarks,
         StockFlows
    <3>6. ASSUME fip' # fip, flow # "total"
          PROVE  (layout = "stock") = (flow \in StockFlows)
      <4>1. CASE flow \in StockFlows
        BY <3>2, <3>6, <4>1
      <4>2. CASE flow \notin StockFlows
        BY <3>2, <3>3, <3>6, <4>2
      <4> QED
        BY <4>1, <4>2
    <3> QED
      BY <3>1, <3>2, <3>5, <3>6
  <2> QED
    BY <1>1, <2>1, <2>2, StepKinds DEF Quiet, vars, device, flash
<1>2. [][A]_vars <=> PayloadBeforeErase
  BY DEF PayloadBeforeErase
<1> QED
  BY <1>1, <1>2, BootInvariant, PTL DEF Spec

(***************************************************************************)
(* The flash contract.                                                     *)
(***************************************************************************)
Proven == IF flow = "bl2" \/ (flow \in BootFlows /\ fip = "image") THEN {"fip"} ELSE {}
Bl2Seen == IF flow = "raw" THEN "original" ELSE IF bl2 \in {"erased", "torn"} THEN "unsafe" ELSE bl2
OutcomeSeen == IF flow \in BootFlows THEN outcome ELSE "running"

LEMMA ContractVars ==
  /\ Contract!vars = <<Proven, Bl2Seen, OutcomeSeen>>
  /\ Contract!WriteParts =
       (Bl2Seen = "original" /\ Proven' \in SUBSET {"fip"} /\ Bl2Seen' = Bl2Seen)
  /\ Contract!TouchBl2 =
       (Proven = {"fip"} /\ Bl2Seen' \in {"unsafe", "image"} /\ Proven' = Proven)
BY DEF Contract!vars, Contract!WriteParts, Contract!TouchBl2, Proven, Bl2Seen, OutcomeSeen

LEMMA ContractStutters ==
  ASSUME UNCHANGED <<Proven, Bl2Seen, OutcomeSeen>>
  PROVE  UNCHANGED Contract!vars
BY DEF Contract!vars, Proven, Bl2Seen, OutcomeSeen

\* A wizard that has touched BL2, or is about to, has the second stage in place.
LEMMA FipBeforeBl2 ==
  ASSUME BootInv, outcome = "running", flow \in BootFlows,
         bl2 # "original" \/ at > Mark.fipCrc
  PROVE  Proven = {"fip"}
<1>1. Typing /\ Running
  BY DEF BootInv
<1>2. /\ FitsMarks /\ Mark.block \in Nat /\ Mark.fipCrc \in Nat /\ Mark.fipWrite \in Nat
      /\ at \in Nat
  BY <1>1, MarksAreNumbers DEF Typing
<1>3. at > Mark.fipCrc
  BY <1>1, <1>2 DEF Running, Untouched, BootFlows
<1>4. flow \notin {"bl2", "stockFirst"} => fip = "image"
  BY <1>1, <1>2, <1>3 DEF Running, Shown, FitsMarks, BootFlows
<1> QED
  BY <1>1, <1>4 DEF Proven, Running, Shown

LEMMA OthersLeaveBl2 ==
  ASSUME BootInv, Sent, flow \notin BootFlows
  PROVE  Bl2Seen' = Bl2Seen /\ Proven' = Proven /\ OutcomeSeen' = OutcomeSeen
<1>1. flow # "raw" => Mark.bl2Write = Mark.fipCrc
  <2>1. flow \in Flows
    BY DEF BootInv, Typing
  <2> QED
    BY <2>1 DEF Flows, Program, BootFlows, Mark, Marks, Places
<1>2. flow # "raw" => bl2' = bl2
  BY <1>1, WhereChanged
<1>3. flow' = flow /\ flow # "bl2"
  BY WhereChanged DEF BootFlows
<1> QED
  BY <1>2, <1>3 DEF Bl2Seen, Proven, OutcomeSeen

LEMMA SentSteps ==
  ASSUME BootInv, Sent
  PROVE  [Contract!Next]_(Contract!vars)
<1>1. CASE flow \notin BootFlows
  BY <1>1, OthersLeaveBl2, ContractStutters
<1>2. CASE flow \in BootFlows
  <2>1. /\ outcome = "running" /\ flow' = flow /\ outcome' \in {"running", "failed"} /\ flow # "raw"
        /\ OutcomeSeen = "running" /\ OutcomeSeen' = outcome'
    BY <1>2, WhereChanged DEF Sent, OutcomeSeen, BootFlows
  <2>2. Contract!WriteParts \/ Contract!TouchBl2
    <3>1. CASE bl2' # bl2
      <4>1. Proven = {"fip"}
        BY <1>2, <2>1, <3>1, FipBeforeBl2, WhereChanged
      <4>2. fip' = fip
        BY <3>1, WhereChanged DEF FitsMarks
      <4> QED
        BY <2>1, <3>1, <4>1, <4>2, ContractVars, WhereChanged DEF Proven, Bl2Seen
    <3>2. CASE bl2' = bl2 /\ bl2 = "original"
      BY <2>1, <3>2, ContractVars DEF Proven, Bl2Seen
    <3>3. CASE bl2' = bl2 /\ bl2 # "original"
      <4>1. Proven = {"fip"}
        BY <1>2, <2>1, <3>3, FipBeforeBl2
      <4>2. fip' = fip
        BY <1>2, <3>3, WhereChanged DEF Running, Untouched, FitsMarks, BootFlows
      <4>3. bl2 \in {"erased", "torn", "image"}
        BY <3>3 DEF BootInv, Typing
      <4> QED
        BY <2>1, <3>3, <4>1, <4>2, <4>3, ContractVars DEF Proven, Bl2Seen
    <3> QED
      BY <3>1, <3>2, <3>3
  <2> QED
    BY <2>1, <2>2 DEF Contract!Next, Contract!Work, Contract!Fail, OutcomeSeen
<1> QED
  BY <1>1, <1>2

LEMMA QuietSteps ==
  ASSUME BootInv, BootInv', Quiet
  PROVE  [Contract!Next]_(Contract!vars)
<1>1. CASE UNCHANGED flow /\ (flow \notin BootFlows \/ outcome' = "running")
  <2>1. UNCHANGED <<Proven, Bl2Seen, OutcomeSeen>>
    BY <1>1 DEF Quiet, Proven, Bl2Seen, OutcomeSeen
  <2> QED
    BY <2>1, ContractStutters
<1>2. CASE UNCHANGED flow /\ flow \in BootFlows /\ outcome' # "running"
  <2>1. UNCHANGED <<Proven, Bl2Seen>> /\ OutcomeSeen = "running" /\ OutcomeSeen' = outcome' /\ flow # "raw"
    BY <1>2 DEF Quiet, Proven, Bl2Seen, OutcomeSeen, BootFlows
  <2>2. CASE outcome' = "failed"
    <3>1. Contract!WriteParts \/ Contract!TouchBl2
      <4>1. CASE bl2 = "original"
        BY <2>1, <4>1, ContractVars DEF Proven, Bl2Seen
      <4>2. CASE bl2 # "original"
        <5>1. Proven = {"fip"}
          BY <1>2, <4>2, FipBeforeBl2 DEF Quiet
        <5>2. bl2 \in {"erased", "torn", "image"}
          BY <4>2 DEF BootInv, Typing
        <5> QED
          BY <2>1, <5>1, <5>2, ContractVars DEF Bl2Seen
      <4> QED
        BY <4>1, <4>2
    <3> QED
      BY <2>1, <2>2, <3>1 DEF Contract!Next, Contract!Fail, OutcomeSeen
  <2>3. CASE outcome' = "cancelled"
    BY <2>1, <2>3 DEF Quiet, Contract!Next, Contract!Cancel, OutcomeSeen, Bl2Seen, Proven
  <2>4. CASE outcome' = "success"
    <3>1. bl2' = "image" /\ (flow # "bl2" => fip' = "image")
      BY <1>2, <2>1, <2>4 DEF BootInv, SuccessIsWritten, BootFlows
    <3>2. Proven = {"fip"} /\ Bl2Seen = "image"
      BY <1>2, <2>1, <3>1 DEF Quiet, Proven, Bl2Seen
    <3> QED
      BY <2>1, <2>4, <3>2 DEF Contract!Next, Contract!Succeed, OutcomeSeen, Bl2Seen, Proven
  <2> QED
    BY <1>2, <2>2, <2>3, <2>4 DEF Quiet
<1>3. CASE flow = "install" /\ flow' \in StockFlows /\ outcome' = "running" /\ bl2 = "original"
  <2>1. /\ Bl2Seen = "original" /\ Bl2Seen' = "original" /\ Proven' \in SUBSET {"fip"}
        /\ OutcomeSeen = "running" /\ OutcomeSeen' = "running"
    BY <1>3 DEF Quiet, Bl2Seen, Proven, OutcomeSeen, StockFlows, BootFlows
  <2>2. Contract!WriteParts
    BY <2>1, ContractVars
  <2> QED
    BY <2>1, <2>2 DEF Contract!Next, Contract!Work, OutcomeSeen
<1> QED
  BY <1>1, <1>2, <1>3 DEF Quiet

\* The boot wizards keep the flash contract: BL2 last and only over a second stage in place,
\* success when both hold their images, and a cancelled operation has not touched BL2.
THEOREM WizardsKeepContract == Spec => ImplementsContract
<1>1. Init => Contract!Init
  <2> SUFFICES ASSUME Init PROVE Contract!Init
    OBVIOUS
  <2>1. flow # "raw" => bl2 = "original"
    BY DEF Init
  <2> QED
    BY <2>1 DEF Init, Contract!Init
<1>2. BootInv /\ BootInv' /\ [Next]_vars => [Contract!Next]_(Contract!vars)
  <2> SUFFICES ASSUME BootInv, BootInv', [Next]_vars PROVE [Contract!Next]_(Contract!vars)
    OBVIOUS
  <2>1. CASE UNCHANGED vars
    <3>1. UNCHANGED <<Proven, Bl2Seen, OutcomeSeen>>
      BY <2>1 DEF vars, host, device, flash, Proven, Bl2Seen, OutcomeSeen
    <3> QED
      BY <3>1, ContractStutters
  <2>2. CASE Next
    BY <2>2, StepKinds, SentSteps, QuietSteps
  <2> QED
    BY <2>1, <2>2
<1> QED
  BY <1>1, <1>2, BootInvariant, PTL DEF Spec, ImplementsContract, Contract!Spec

===============================================================================
