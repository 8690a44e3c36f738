---------------------------- MODULE UpgradeBoot ----------------------------
(***************************************************************************)
(* An upgrade that writes slot 2, byte by byte (WriteData), and the boot   *)
(* that follows, core by core (Kboot).  They share the slot: write_data in *)
(* Python lays the block out, app_check in C takes it apart.  The sectors  *)
(* are written as FirmwareUpgrade has it: the backup gets the entry in     *)
(* use, the main one the new entry, when write_data has returned; a cut    *)
(* after that return and before the main sector leaves the old entry.      *)
(***************************************************************************)
EXTENDS Kboot, WriteData

\* The firmware in use is one that Kboot starts; upgrade() refuses files over
\* MAX_FIRMWARE_SIZE, which is MAX_APP_FLASH_SIZE, and none for being too small.
ASSUME UpgradeBootAssumption ==
  /\ {"slot1", "slot2"} \subseteq Addresses \ {Default, OutOfRange}
  /\ OldSize \in MinSize..MaxSize
  /\ \A n \in FileSizes : n <= MaxSize

VARIABLE
  phase   \* "write", "boot" after it, "only" when there was no upgrade

allVars == <<vars, wvars, phase>>

OldEntry ==
  [active |-> TRUE, addr |-> "slot1", size |-> OldSize, sized |-> FALSE,
   check |-> "sha"]

\* update_boot_config_sector.
NewEntry ==
  [active |-> TRUE, addr |-> "slot2", size |-> dataSize, sized |-> TRUE,
   check |-> "sha"]

Installed == [key |-> TRUE, size |-> OldSize, sha |-> TRUE, crc |-> TRUE]
Empty == [key |-> FALSE, size |-> 0, sha |-> FALSE, crc |-> FALSE]

\* What Kboot finds in the slot: erased flash has no key byte; the size is the
\* one of the header; header and file are hashed, and the hash is looked for
\* behind them.
SlotBlock ==
  IF slot[1][1] # "header" THEN Empty
  ELSE LET age == slot[1][2][1]
           n == slot[1][2][2]
       IN  [key |-> TRUE, size |-> n, crc |-> FALSE, sha |-> Holds(age, n)]

\* Power comes back, RAM is empty, or upgrade() shut down after its last write.
PowerOn ==
  /\ phase = "write"
  /\ wpc \in {"returned", "failed", "cut"}
  /\ phase' = "boot"
  /\ apps' = [apps EXCEPT !["slot2"] = SlotBlock]
  /\ main' = IF wpc = "returned" THEN <<NewEntry>> ELSE main
  /\ i' = 0 /\ buffer' = <<>> /\ totalRead' = 0 /\ attempts' = 0
  /\ UNCHANGED <<backup, quiet, cores, id, go0, go1, low, high, choice>>
  /\ UNCHANGED <<slot, dataSize, wpc, past>>

WriteStep == phase = "write" /\ WriteNext /\ UNCHANGED <<vars, phase>>

CoreStep(c) ==
  /\ phase # "write"
  /\ Step(c)
  /\ UNCHANGED <<wvars, phase>>

\* Any boot, or an upgrade and its boot; the boot after an upgrade is without
\* console and with fresh flags, which the other case varies.
UpgradeInit ==
  /\ WriteInit
  /\ \/ /\ phase = "only" /\ Init
        /\ \A n \in FileSizes : dataSize <= n
     \/ /\ phase = "write" /\ Reset
        /\ main = <<OldEntry>> /\ backup = <<OldEntry>> /\ quiet = TRUE
        /\ ~go0["hi"]
        /\ apps = [a \in Addresses |-> IF a = "slot1" THEN Installed ELSE Empty]

UpgradeNext == WriteStep \/ PowerOn \/ \E c \in Cores : CoreStep(c)

\* Neither core is ever stopped for good once there is power.
UpgradeSpec ==
  /\ UpgradeInit /\ [][UpgradeNext]_allVars
  /\ \A c \in Cores : WF_allVars(CoreStep(c))

----------------------------------------------------------------------------

\* The variables of both stay in their types.
UpgradeTypeOK == KbootTypeOK /\ WriteTypeOK /\ phase \in {"write", "boot", "only"}

\* A boot without the console starts the new firmware when write_data came to
\* its end on whole chunks, and the one it replaces otherwise: a cut, a read
\* error, a hole in the file or a file that is too small for Kboot never stops
\* the device.  (Behind slot 1 would be the firmware in use: StaysInSlot is what
\* keeps an upgrade of slot 1 off it.)
UpgradeOrOld ==
  phase = "boot" /\ ~pin =>
    /\ pc[0] # "halt"
    /\ stage[0] = "app" =>
         low = IF wpc = "returned" /\ holes = 0 /\ dataSize >= MinSize
               THEN "slot2" ELSE "slot1"

\* The abstract boot: one choice.
Choice == INSTANCE BootChoice WITH
  outcome <- IF phase = "write" THEN "off" ELSE Outcome

\* Whatever the two cores do, they make one choice, and one that BootChoice
\* allows: the first good active entry of the main sector, else of the backup,
\* else the default application, never one that fails its checks.
ImplementsBootChoice == Choice!Spec

\* Both cores come to run the application, or core 0 halts, unless the race on
\* i goes wrong; with the user answering at the console.
BootStartsOrHalts == phase # "write" ~> Confused \/ pc[0] = "halt" \/ AllRun
=============================================================================
