------------------------------ MODULE BootRescue ------------------------------
(***************************************************************************)
(* The wizards that write the boot chain of a device from a RAM U-Boot     *)
(* over a noisy UART: BL2 rescue, boot-chain rescue, total rescue, FIP     *)
(* repair, the installations of UrsusBoot and of the vanilla U-Boot, the   *)
(* expert volume and raw writes, and the start of a recovery image, which  *)
(* writes nothing.  Each wizard is the sequence of its steps; what a step  *)
(* does is said once.  A command may be damaged on its way and not run at  *)
(* all, run and fail half way, or run and lose its answer; the blind       *)
(* commands of the rescue do not even look.                                *)
(*                                                                         *)
(* A device carries UBI, with the second stage in the volume fip, or the   *)
(* stock layout, with the second stage in the blocks of the boot area that *)
(* follow BL2; "fip" stands for either.                                    *)
(***************************************************************************)
EXTENDS Integers, Sequences

CONSTANT MaxFaults   \* bound: commands damaged or failing, answers and loads lost

ASSUME RescueAssumption == MaxFaults \in Nat

VARIABLES
  flow,          \* the wizard
  at,            \* its next step
  mode,          \* "now" | "blocked": what STOP may do
  outcome,       \* "running" | "success" | "failed" | "cancelled"
  bl2,           \* "original" | "erased" | "torn" | "image"
  layout,        \* "ubi" | "stock" | "other"
  bad,           \* where a block is bad: in "bl2", in the "area" of ubi that follows it
  fip,           \* the second stage: "none" | "empty" | "original" | "torn" | "image"
  volumes,       \* "old" | "gone": the other volumes
  attached,      \* UBI is attached
  ram,           \* what "load", "high" (0x91000000) and "verify" hold
  faults

flash == <<bl2, layout, bad, fip, volumes>>
device == <<flash, attached, ram>>
host == <<flow, at, mode, outcome>>
vars == <<host, device, faults>>

-----------------------------------------------------------------------------
(***************************************************************************)
(* The wizards.                                                            *)
(***************************************************************************)
Blind(c) == [do |-> "blind", what |-> c]    \* sent once, the answer not looked at
Once(c) == [do |-> "once", what |-> c]      \* sent once, a lost answer is no error
Sure(c) == [do |-> "sure", what |-> c]      \* harmless: repeated until answered
Check(c) == [do |-> "check", what |-> c]
Crc(x) == [do |-> "crc", what |-> x]
Load(x, a) == [do |-> "load", what |-> x, to |-> a]
ProveRam(x, a) == [do |-> "prove", what |-> x, to |-> a]
Confirm == [do |-> "confirm"]
Layout == [do |-> "layout"]
Blocked == [do |-> "mode", what |-> "blocked"]
Free == [do |-> "mode", what |-> "now"]

BlindBl2 == <<Blind("eraseBl2"), Blind("writeBl2"), Blind("wipe"), Blind("readBl2"), Crc("bl2")>>
BlindFip == <<Blind("writeFip"), Blind("wipe"), Blind("readFip"), Crc("fip")>>
VerifiedBl2 == <<Once("eraseBl2"), Once("writeBl2"), Sure("wipe"), Sure("readBl2"), Crc("bl2")>>
VerifiedFip == <<Once("writeFip"), Sure("readFip"), Crc("fip")>>
VerifiedArea == <<Once("eraseArea"), Once("writeArea"), Sure("wipe"), Sure("readArea"), Crc("fip")>>
WholeArea == <<Sure("wipe"), Sure("readBl2"), Sure("readRest"), Crc("boot")>>
ExistingFip == <<Sure("attach"), Check("fipVolume")>>

Bl2Rescue ==
  <<Check("bl2Good"), Load("bl2", "load"), Confirm, Blocked>> \o BlindBl2 \o <<Free>>

\* Mutant: the BL2 image is fetched only after the old one is erased.
BootChainEraseFirst ==
  <<Check("bl2Good"), Blind("attach"), Check("fipVolume"), Load("fip", "load"), Confirm, Blocked>>
  \o BlindFip \o <<Blind("eraseBl2"), Load("bl2", "load")>> \o Tail(BlindBl2) \o <<Free>>

BootChainRescue ==
  <<Check("bl2Good"), Blind("attach"), Check("fipVolume"), Load("fip", "load"), Confirm, Blocked>>
  \o BlindFip \o <<Load("bl2", "load")>> \o BlindBl2 \o <<Free>>

FreshUbi ==
  <<Blind("detach"), Once("eraseUbi"), Check("listing"), Once("attach"), Check("attached"),
    Once("createFip"), Check("fipVolume")>>

TotalRescue ==
  <<Check("bl2Good"), Check("listing"), Load("fip", "load"), Load("bl2", "high"),
    ProveRam("fip", "load"), ProveRam("bl2", "high"), Confirm, Blocked>>
  \o FreshUbi \o VerifiedFip \o VerifiedBl2 \o <<Free>>

FipRepair ==
  ExistingFip \o <<Load("fip", "load"), Confirm, Blocked>> \o VerifiedFip \o <<Free>>

InstallNoRead ==
  ExistingFip \o <<Load("fip", "load"), Confirm, Blocked>> \o VerifiedFip \o <<Free>>

Install ==
  ExistingFip
  \o <<Sure("readCurrent"), Check("notInstalled"), Load("fip", "load"), Confirm, Blocked>>
  \o VerifiedFip \o <<Free>>

WhereLayout == <<Sure("peek"), Layout>>

\* Mutant: the blocks are written in the order of their addresses.
StockInAddressOrder(area, first) ==
  <<Check("bl2Good"), Check("areaGood"), Sure("loadBl2"), Sure("loadArea"), Check("dump"),
    Check("notInstalled"), Load("boot", "load"), Confirm, Blocked>>
  \o (IF first THEN VerifiedBl2 ELSE <<>>) \o (IF area THEN VerifiedArea ELSE <<>>)
  \o WholeArea \o <<Free>>

\* Only the blocks that change are written, the first one, which holds BL2, last.
StockInstall(area, first) ==
  <<Check("bl2Good"), Check("areaGood"), Sure("loadBl2"), Sure("loadArea"), Check("dump"),
    Check("notInstalled"), Load("boot", "load"), Confirm, Blocked>>
  \o (IF area THEN VerifiedArea ELSE <<>>) \o (IF first THEN VerifiedBl2 ELSE <<>>)
  \o WholeArea \o <<Free>>

\* Nothing is erased: the bytes go over what is there.
RawBl2 ==
  <<Load("bl2", "load"), Confirm, Blocked>> \o Tail(VerifiedBl2) \o <<Free>>

Recovery == <<Load("itb", "load"), Blind("iminfo"), Confirm, Blind("bootm")>>

ExpertVolume ==
  ExistingFip \o <<Load("fip", "load"), Confirm, Blocked>> \o VerifiedFip \o <<Free>>

Program ==
  [bl2 |-> Bl2Rescue, bootChain |-> BootChainRescue, total |-> TotalRescue,
   fipRepair |-> FipRepair, noRead |-> InstallNoRead,
   install |-> WhereLayout \o Install, vanilla |-> WhereLayout \o Install,
   stock |-> StockInstall(TRUE, TRUE), stockArea |-> StockInstall(TRUE, FALSE),
   stockFirst |-> StockInstall(FALSE, TRUE),
   volume |-> ExpertVolume, raw |-> RawBl2, recovery |-> Recovery]

Flows == DOMAIN Program
StockFlows == {"stock", "stockArea", "stockFirst"}
BootFlows == {"bl2", "bootChain", "total", "stock", "stockFirst"}

Length == Len(Program[flow])
Step == Program[flow][at]
Bl2Source == IF flow = "total" THEN "high" ELSE "load"
Bl2Image == IF flow \in StockFlows THEN "boot" ELSE "bl2"
FipImage == IF flow \in StockFlows THEN "boot" ELSE "fip"

\* What the wizard wants in bl2: an installation may leave the first block as it is.
Bl2Wanted == IF flow = "stockArea" THEN "original" ELSE "image"

Init ==
  /\ flow \in Flows \ StockFlows /\ at = 1 /\ mode = "now" /\ outcome = "running"
  /\ bl2 \in {"original"} \cup (IF flow = "raw" THEN {"erased"} ELSE {})
  /\ layout \in {"ubi", "stock", "other"} /\ bad \in SUBSET {"bl2", "area"}
  /\ fip \in CASE layout = "ubi" -> {"none", "original", "image"}
                [] layout = "stock" -> {"original", "image"}
                [] layout = "other" -> {"none"}
  /\ volumes = "old" /\ attached = FALSE
  /\ ram = [a \in {"load", "high", "verify"} |-> "junk"] /\ faults = 0

Fault == faults < MaxFaults /\ faults' = faults + 1
NoFault == UNCHANGED faults

GoOn == at' = at + 1 /\ UNCHANGED <<flow, mode, outcome>>
End(r) == outcome' = r /\ UNCHANGED <<flow, at, mode>>

-----------------------------------------------------------------------------
(***************************************************************************)
(* The device: what a command does, when it can, and what it spoils.       *)
(***************************************************************************)
Able(c) ==
  CASE c = "attach" -> layout = "ubi"
    [] c = "createFip" -> attached /\ fip = "none"
    [] c \in {"writeFip"} -> attached /\ fip # "none"
    [] c \in {"readFip", "readCurrent"} -> attached /\ fip \in {"original", "image"}
    [] OTHER -> TRUE

Fill(a, x) == ram' = [ram EXCEPT ![a] = x] /\ UNCHANGED <<flash, attached>>

WriteFip ==
  /\ fip' = IF ram["load"] = FipImage THEN "image" ELSE "torn"
  /\ UNCHANGED <<bl2, layout, bad, volumes, attached, ram>>

Do(c) ==
  \/ /\ c = "eraseBl2"
     /\ bl2' = "erased" /\ UNCHANGED <<layout, bad, fip, volumes, attached, ram>>
  \/ /\ c = "writeBl2"
     /\ bl2' = IF bl2 = "erased" /\ ram[Bl2Source] = Bl2Image THEN "image" ELSE "torn"
     /\ UNCHANGED <<layout, bad, fip, volumes, attached, ram>>
  \/ c = "readBl2" /\ Fill("verify", IF bl2 = Bl2Wanted THEN "bl2" ELSE "junk")
  \/ c = "loadBl2" /\ Fill("load", IF bl2 = Bl2Wanted THEN "bl2" ELSE "junk")
  \/ c = "wipe" /\ Fill("verify", "zero")
  \/ c \in {"readFip", "readArea"} /\ Fill("verify", IF fip = "image" THEN "fip" ELSE "junk")
  \/ c = "readRest"
     /\ Fill("verify", IF ram["verify"] = "bl2" /\ fip = "image" THEN "boot" ELSE "junk")
  \/ c = "loadArea"
     /\ Fill("load", IF ram["load"] = "bl2" /\ fip = "image" THEN "boot" ELSE "junk")
  \/ c = "readCurrent" /\ Fill("load", IF fip = "image" THEN "fip" ELSE "junk")
  \/ c = "peek" /\ Fill("load", "junk")
  \/ c = "iminfo" /\ UNCHANGED device
  \/ /\ c = "bootm"
     /\ attached' = FALSE /\ ram' = [a \in DOMAIN ram |-> "junk"] /\ UNCHANGED flash
  \/ /\ c \in {"attach", "detach"}
     /\ attached' = (c = "attach") /\ UNCHANGED <<flash, ram>>
  \/ /\ c = "eraseUbi"
     /\ fip' = "none" /\ volumes' = "gone" /\ attached' = FALSE /\ layout' = "ubi"
     /\ UNCHANGED <<bl2, bad, ram>>
  \/ /\ c \in {"createFip", "eraseArea"}
     /\ fip' = "empty" /\ UNCHANGED <<bl2, layout, bad, volumes, attached, ram>>
  \/ c = "writeFip" /\ WriteFip
  \/ c = "writeArea" /\ fip = "empty" /\ WriteFip
  \/ /\ c = "writeArea" /\ fip # "empty"      \* over what was not erased
     /\ fip' = "torn" /\ UNCHANGED <<bl2, layout, bad, volumes, attached, ram>>

\* The command fails half way.
Spoil(c) ==
  /\ bl2' = IF c \in {"eraseBl2", "writeBl2"} THEN "torn" ELSE bl2
  /\ fip' = IF c \in {"writeFip", "eraseArea", "writeArea", "eraseUbi"} /\ fip # "none"
            THEN "torn" ELSE fip
  /\ volumes' \in IF c = "eraseUbi" THEN {volumes, "gone"} ELSE {volumes}
  /\ layout' \in IF c = "eraseUbi" THEN {layout, "ubi", "other"} ELSE {layout}
  /\ UNCHANGED <<bad, attached, ram>>

\* What comes of a command that is sent once, and whether the device reports success.
Runs(c) == Able(c) /\ Do(c) /\ NoFault
Refused(c) == ~Able(c) /\ UNCHANGED device /\ NoFault
Damaged(c) == UNCHANGED device /\ Fault
Spoiled(c) == Spoil(c) /\ Fault
LosesAnswer(c) == ((Able(c) /\ Do(c)) \/ UNCHANGED device) /\ Fault

-----------------------------------------------------------------------------
(***************************************************************************)
(* The host.                                                               *)
(***************************************************************************)
Is(k) == outcome = "running" /\ at <= Length /\ Step.do = k

\* STOP before a command, where the mode allows it.
Stop ==
  /\ outcome = "running" /\ at <= Length /\ mode = "now" /\ Step.do \notin {"mode"}
  /\ End("cancelled") /\ UNCHANGED <<device, faults>>

\* Nothing is known of the command but that it was sent.
SendBlind ==
  /\ Is("blind") /\ GoOn
  /\ LET c == Step.what IN Runs(c) \/ Refused(c) \/ Damaged(c) \/ Spoiled(c)

\* A clean failure ends the wizard; a lost answer does not.
SendOnce ==
  /\ Is("once")
  /\ LET c == Step.what IN
     \/ Runs(c) /\ GoOn
     \/ Refused(c) /\ End("failed")
     \/ (Damaged(c) \/ Spoiled(c)) /\ (GoOn \/ End("failed"))
     \/ LosesAnswer(c) /\ GoOn

SendSure ==
  /\ Is("sure")
  /\ LET c == Step.what IN
     \/ Runs(c) /\ GoOn
     \/ Refused(c) /\ End("failed")
     \/ LosesAnswer(c) /\ End("failed")

Passes(c) ==
  CASE c = "bl2Good" -> "bl2" \notin bad
    [] c = "areaGood" -> "area" \notin bad
    [] c = "fipVolume" -> attached /\ fip # "none"
    [] c = "attached" -> attached
    [] c \in {"listing", "dump"} -> TRUE

DoCheck ==
  /\ Is("check") /\ Step.what # "notInstalled" /\ UNCHANGED device
  /\ \/ Passes(Step.what) /\ GoOn /\ NoFault
     \/ ~Passes(Step.what) /\ End("failed") /\ NoFault
     \/ End("failed") /\ Fault

\* The layout decides how UrsusBoot is installed, and which blocks the candidate changes; the
\* vanilla U-Boot is for UBI alone.
DoLayout ==
  /\ Is("layout") /\ UNCHANGED device
  /\ \/ layout = "ubi" /\ GoOn /\ NoFault
     \/ /\ layout = "stock" /\ flow = "install"
        /\ flow' \in {"stockArea", IF fip = "image" THEN "stockFirst" ELSE "stock"}
        /\ at' = 1 /\ UNCHANGED <<mode, outcome>> /\ NoFault
     \/ layout = "stock" /\ flow = "vanilla" /\ End("failed") /\ NoFault
     \/ layout = "other" /\ End("failed") /\ NoFault
     \/ End("failed") /\ Fault

\* The candidate is what the device holds already: nothing is written.
CheckInstalled ==
  /\ Is("check") /\ Step.what = "notInstalled" /\ UNCHANGED <<device, faults>>
  /\ IF ram["load"] = FipImage
     THEN outcome' = "success" /\ at' = Length + 1 /\ UNCHANGED <<flow, mode>>
     ELSE GoOn

\* TFTP or XMODEM with its RAM proof.  The search for the PC's address can be cancelled in
\* any mode; a load that fails leaves part of the file.
DoLoad ==
  /\ Is("load") /\ UNCHANGED <<flash, attached>>
  /\ \/ ram' = [ram EXCEPT ![Step.to] = Step.what] /\ GoOn /\ NoFault
     \/ ram' = [ram EXCEPT ![Step.to] = "junk"] /\ End("failed") /\ Fault
     \/ UNCHANGED ram /\ End("cancelled") /\ NoFault

DoProve ==
  /\ Is("prove") /\ UNCHANGED device
  /\ \/ ram[Step.to] = Step.what /\ GoOn /\ NoFault
     \/ ram[Step.to] # Step.what /\ End("failed") /\ NoFault
     \/ End("failed") /\ Fault

DoConfirm ==
  /\ Is("confirm") /\ (GoOn \/ End("cancelled"))
  /\ UNCHANGED <<device, faults>>

SetMode ==
  /\ Is("mode") /\ mode' = Step.what /\ at' = at + 1
  /\ UNCHANGED <<flow, outcome, device, faults>>

\* Mutant: an unreadable checksum counts as a match once the attempts are used up.
CompareLeniently ==
  /\ Is("crc") /\ UNCHANGED device
  /\ GoOn /\ (NoFault \/ Fault)

\* The expected CRC32 is seen, or the wizard ends: a mismatch is never repaired.
Compare ==
  /\ Is("crc") /\ UNCHANGED device
  /\ \/ ram["verify"] = Step.what /\ GoOn /\ NoFault
     \/ ram["verify"] # Step.what /\ End("failed") /\ NoFault
     \/ End("failed") /\ Fault

Succeed ==
  /\ outcome = "running" /\ at = Length + 1
  /\ End("success") /\ UNCHANGED <<device, faults>>

Next ==
  \/ Stop \/ SendBlind \/ SendOnce \/ SendSure \/ DoCheck \/ DoLayout \/ CheckInstalled \/ DoLoad
  \/ DoProve \/ DoConfirm \/ SetMode \/ Compare \/ Succeed

Spec == Init /\ [][Next]_vars

-----------------------------------------------------------------------------

\* A wizard that reports success has written what it names, although a blind command may have
\* been lost without a trace and the readback itself is sent blindly.
SuccessIsWritten ==
  outcome = "success" =>
    /\ flow \in BootFlows \cup {"raw"} => bl2 = "image"
    /\ flow \notin {"bl2", "raw", "recovery"} => fip = "image"
    /\ flow \in BootFlows \cup StockFlows => "bl2" \notin bad
    /\ flow \in StockFlows => "area" \notin bad /\ bl2 = Bl2Wanted

\* What is about to be destroyed is already in RAM: BL2 is erased only with the BL2 image at
\* the address it will be written from, and the second stage or the whole UBI only with its
\* image; an installation for one layout never writes a device of the other.
PayloadBeforeErase ==
  [][/\ bl2' # bl2 => ram[Bl2Source] = Bl2Image
     /\ fip' # fip \/ volumes' # volumes => ram["load"] = FipImage
     /\ fip' # fip /\ flow # "total" => (layout = "stock") = (flow \in StockFlows)
     /\ volumes' # volumes => flow = "total" /\ ram["high"] = "bl2"]_vars

\* The boot wizards keep the flash contract: BL2 last and only over a proven FIP, success when
\* all is in place, and no cancelled operation that touched BL2.  The others never touch BL2,
\* but for the expert raw write, which is held to nothing.
Contract ==
  INSTANCE FlashContract WITH
    Parts <- {"fip"},
    proven <- IF flow = "bl2" \/ (flow \in BootFlows /\ fip = "image") THEN {"fip"} ELSE {},
    bl2 <- IF flow = "raw" THEN "original" ELSE IF bl2 \in {"erased", "torn"} THEN "unsafe" ELSE bl2,
    outcome <- IF flow \in BootFlows THEN outcome ELSE "running"

ImplementsContract == Contract!Spec

\* After a total rescue the old volumes are gone.
TotalIsFresh == outcome = "success" /\ flow = "total" => volumes = "gone"
==============================================================================
