------------------------------ MODULE BootStages ------------------------------
(***************************************************************************)
(* The boot stages of a device, and what an operation that takes a device  *)
(* through them promises (RamBoot).  The stages are what the tests and     *)
(* docs of the program say of them.                                        *)
(***************************************************************************)
EXTENDS Naturals, Sequences, SequencesExt

VARIABLES
  dev,       \* the stage of the device
  device,    \* its SoC, whether its NAND is the expected one, what was on when the port was opened
  taken,     \* <<stage, image>>: what it was given, in order, since the power came on
  resets,    \* how often its power was cycled
  outcome,   \* of the operation: "running" | "success" | "failed" | "timeout" (of a receiver) | "cancelled"
  profile,   \* the SoC it has loaded its images for
  cHits      \* letters C it has heard within the last 3.5 s, 3 for more

SoCs == {"md", "mf"}

\* What a stage prints when it is reached: what the host looks for.  All but "C" stands for
\* ordinary text, which may hold any number of letters C itself.
Text(s) ==
  CASE s = "rom" -> <<"press">>
    [] s = "romX" -> <<"C", "C", "C">>
    [] s = "bl2" -> <<device.soc, "fipStage", "press">>
    [] s = "bl2X" -> <<"C", "C", "C">>
    [] s = "uboot" -> <<device.soc, "banner">>
    [] s = "menu" -> <<"menu">>
    [] s = "prompt" -> <<"prompt">>
    [] s = "erasing" -> <<"erase">>
    [] s = "linux" -> <<"kernel">>
    [] OTHER -> <<>>

\* What runs when a stage has been given an image of its SoC.
Next2(s, image) ==
  CASE s = "romX" /\ image = "preloader" -> "bl2"
    [] s = "bl2X" /\ image = "fip" -> "uboot"
    [] OTHER -> "dead"

-----------------------------------------------------------------------------
(***************************************************************************)
(* What must hold.                                                         *)
(***************************************************************************)
Given(stage, image) == \E i \in DOMAIN taken : taken[i] = <<stage, image>>

\* The preloader is given to the BootROM and the FIP to the preloader, whatever text is
\* lost, if the operation sees the device from its power-on (waitReceiver's phases).
RightImage ==
  device.early = "off" /\ resets = 0 =>
    ~Given("romX", "fip") /\ ~Given("bl2X", "preloader")

\* Once an image is acknowledged, STOP leaves the device alone until the stage it starts
\* has been heard: the letters C that count as the second receiver, or the prompt of the U-Boot
\* (cancelBlocked in xmodemSend, cancelNow in acquireRAMUBoot). After that STOP may end the
\* operation, in the second transfer or before "version" and "mtd list".
NoStopInHandOver ==
  outcome = "cancelled" /\ resets = 0 /\ taken # <<>> =>
    IF Last(taken)[2] = "fip" THEN dev = "prompt" ELSE cHits = 3

\* A wizard goes on only with the U-Boot it has just loaded, unless the device was
\* restarted behind its back, and with the NAND it is made for.
SuccessIsRamUBoot ==
  outcome = "success" =>
    /\ dev = "prompt" /\ device.nandOk
    /\ resets = 0 => Last(taken) = <<"bl2X", "fip">> /\ profile = device.soc
===============================================================================
