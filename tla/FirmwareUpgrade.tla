-------------------------- MODULE FirmwareUpgrade --------------------------
(***************************************************************************)
(* The upgrade from the SD card, firmware.upgrade() called by the boot     *)
(* script, and Kboot, the bootloader that picks what runs at power-on.     *)
(* They meet in the SPI flash: two firmware slots and two copies of the    *)
(* boot configuration sector.                                              *)
(*                                                                         *)
(* write_data erases and then programs, so every write of a slot or of a   *)
(* sector is two actions, and power may fail before, between or after      *)
(* them.  Data: an image is the record of what the checks can tell apart;  *)
(* a sector is its one entry in use (config.bin fills only the first of    *)
(* eight, and update_boot_config_sector rewrites the one it found).        *)
(***************************************************************************)
EXTENDS Integers

CONSTANTS
  MaxVersion,   \* bound: versions of the firmware are 1..MaxVersion
  Sizes,        \* sizes a firmware file may have
  MinSize,      \* MIN_APP_FLASH_SIZE of Kboot
  MaxSize,      \* MAX_FIRMWARE_SIZE of the upgrade, MAX_APP_FLASH_SIZE of Kboot
  Signer,       \* SIGNER_PUBKEY is set and embit.ec is there
  MaxFaults,    \* bound: power losses while flash is written, and card failures
  None,         \* no image, no file, no sector
  Torn          \* flash that was erased and not, or not wholly, programmed

Locs == {"slot1", "slot2", "default"}
Flaws == {"none", "noSignature", "badSignature", "otherDevice"}
Images == [ver : 1..MaxVersion, size : Sizes, flaw : Flaws]
Entries == [active : BOOLEAN, addr : Locs, sized : BOOLEAN, size : Sizes]

ASSUME UpgradeAssumption ==
  /\ MaxVersion \in Nat \ {0} /\ MaxFaults \in Nat \ {0}
  /\ Sizes \subseteq Nat /\ MinSize \in Sizes /\ MaxSize \in Sizes
  /\ MinSize <= MaxSize
  /\ Signer \in BOOLEAN
  /\ None # Torn
  /\ {None, Torn} \cap Images = {}
  /\ {None, Torn} \cap Entries = {}

VARIABLES
  main, backup,  \* the boot configuration sectors
  apps,          \* what the firmware slots hold
  card,          \* /sd/firmware.bin with its signature, None when unreadable
  pc,
  running,       \* the image that Kboot copied to SRAM, None when off
  loc,           \* ... and the address it came from
  cfg,           \* upgrade(): boot_config_sector
  target,        \* upgrade(): new_address
  img,           \* upgrade(): the file, as verified
  floor,         \* history: the version that ran last
  faults         \* history: faults so far

flash == <<main, backup, apps>>
ram == <<running, loc, cfg, target, img>>
vars == <<flash, card, pc, ram, floor, faults>>

Writing == {"eraseSlot", "writeSlot", "eraseBackup", "writeBackup",
            "eraseMain", "writeMain"}
Pcs == Writing \cup {"off", "verify", "confirm", "complete", "app", "halted"}

----------------------------------------------------------------------------
(* Kboot.                                                                  *)

\* app_check: key byte, size and SHA-256 of the application block.  The entry
\* of config.bin carries no size flag, the one of an upgrade does.
AppCheck(e) ==
  /\ apps[e.addr] \notin {None, Torn}
  /\ e.sized => e.size = apps[e.addr].size

\* An entry that Kboot boots from.  Programming flash only clears bits, so a
\* torn entry keeps its SHA-256 flag and fails a check.
Bootable(e) ==
  /\ e # Torn
  /\ e.size \in MinSize..MaxSize
  /\ e.active
  /\ AppCheck(e)

\* The application at 0x10000, loaded when no entry is good.
DefaultOk == apps["default"] # None /\ apps["default"].size \in MinSize..MaxSize

\* Where Kboot loads from, "halt" when it stops with SYSTEM HALTED.
BootLoc ==
  IF Bootable(main) THEN main.addr
  ELSE IF Bootable(backup) THEN backup.addr
  ELSE IF DefaultOk THEN "default"
  ELSE "halt"

PowerOn ==
  /\ pc = "off"
  /\ IF BootLoc = "halt"
     THEN pc' = "halted" /\ UNCHANGED <<running, loc, floor>>
     ELSE /\ running' = apps[BootLoc] /\ loc' = BootLoc
          /\ floor' = apps[BootLoc].ver
          /\ pc' = IF card = None THEN "app" ELSE "verify"
  /\ UNCHANGED <<flash, card, cfg, target, img, faults>>

----------------------------------------------------------------------------
(* firmware.upgrade().                                                     *)

\* find_active_firmware looks at the active bit only, so an erased sector,
\* all ones, has an active entry.
HasActive(s) == s = Torn \/ s.active

\* Mutant: the size includes the header of the block.
UpdateSectorWithHeader(s, a, f) ==
  [active |-> TRUE, addr |-> a, sized |-> TRUE, size |-> f.size + 5]

\* update_boot_config_sector: address, size and the flags active, SHA-256 and
\* size; nothing of the entry found in s survives.
UpdateSector(s, a, f) ==
  [active |-> TRUE, addr |-> a, sized |-> TRUE, size |-> f.size]

\* The sector that the upgrade works from.
ReadConfig == IF HasActive(main) THEN main ELSE backup

\* Mutant: the file is taken without a look at its signature.
SignatureUnchecked(f) == TRUE

SignatureOk(f) == Signer => f.flaw \notin {"noSignature", "badSignature"}

\* Mutant: any version is installed.
AnyVersion(f) == TRUE

\* is_version_greater.
Newer(f) == f.ver > running.ver

\* The checks up to the prompt.  The prompt shows firmware_hash, which only
\* the signature check assigns: without it the NameError is a refusal.
Accepted(f) ==
  /\ HasActive(ReadConfig)
  /\ f.size <= MaxSize
  /\ SignatureOk(f)
  /\ f.flaw # "otherDevice"
  /\ Newer(f)
  /\ Signer

\* With the card gone, an unguarded read ends the boot script, and the
\* watchdog resets; a guarded one is a refusal.
Verify ==
  /\ pc = "verify"
  /\ \/ /\ card # None
        /\ IF Accepted(card)
           THEN pc' = "confirm" /\ cfg' = ReadConfig /\ img' = card
           ELSE pc' = "app" /\ UNCHANGED <<cfg, img>>
        /\ UNCHANGED <<running, loc>>
     \/ /\ card = None
        /\ \/ pc' = "app" /\ UNCHANGED <<running, loc>>
           \/ pc' = "off" /\ running' = None /\ loc' = None
        /\ UNCHANGED <<cfg, img>>
  /\ UNCHANGED <<flash, card, target, floor, faults>>

\* RAM after a reset.
ClearRam ==
  running' = None /\ loc' = None /\ cfg' = None /\ target' = None /\ img' = None

\* PAGE at the prompt.
Decline ==
  /\ pc = "confirm"
  /\ pc' = "app" /\ cfg' = None /\ img' = None
  /\ UNCHANGED <<flash, card, running, loc, target, floor, faults>>

\* Mutant: the slot that is in use is the one to write.
SameSlot(s) == IF s # Torn /\ s.addr = "slot1" THEN "slot1" ELSE "slot2"

\* new_address, from the address in the sector.
OtherSlot(s) == IF s # Torn /\ s.addr = "slot1" THEN "slot2" ELSE "slot1"

\* ENTER at the prompt; hashing the file again is outside any handler.
Install ==
  /\ pc = "confirm"
  /\ IF card = None
     THEN pc' = "off" /\ ClearRam
     ELSE /\ pc' = "eraseSlot" /\ target' = OtherSlot(cfg)
          /\ UNCHANGED <<running, loc, cfg, img>>
  /\ UNCHANGED <<flash, card, floor, faults>>

EraseSlot ==
  /\ pc = "eraseSlot"
  /\ apps' = [apps EXCEPT ![target] = Torn]
  /\ pc' = "writeSlot"
  /\ UNCHANGED <<main, backup, card, ram, floor, faults>>

\* The last chunk and the hash are in: the block is whole.  The file is hashed
\* and read anew here and not compared with what Verify accepted: img stands
\* for it because cards are only changed while the device is off.
WriteSlot ==
  /\ pc = "writeSlot" /\ card # None
  /\ apps' = [apps EXCEPT ![target] = img]
  /\ pc' = "eraseBackup"
  /\ UNCHANGED <<main, backup, card, ram, floor, faults>>

\* "Error read/write data": the boot goes on with the firmware in SRAM.
WriteSlotFails ==
  /\ pc = "writeSlot" /\ card = None
  /\ pc' = "app" /\ cfg' = None /\ target' = None /\ img' = None
  /\ UNCHANGED <<flash, card, running, loc, floor, faults>>

\* Mutant: one erase covers both sectors.
EraseBothSectors ==
  /\ pc = "eraseBackup"
  /\ backup' = Torn /\ main' = Torn
  /\ pc' = "writeBackup"
  /\ UNCHANGED <<apps, card, ram, floor, faults>>

EraseBackup ==
  /\ pc = "eraseBackup"
  /\ backup' = Torn
  /\ pc' = "writeBackup"
  /\ UNCHANGED <<main, apps, card, ram, floor, faults>>

WriteBackup ==
  /\ pc = "writeBackup"
  /\ backup' = cfg
  /\ pc' = "eraseMain"
  /\ UNCHANGED <<main, apps, card, ram, floor, faults>>

EraseMain ==
  /\ pc = "eraseMain"
  /\ main' = Torn
  /\ pc' = "writeMain"
  /\ UNCHANGED <<backup, apps, card, ram, floor, faults>>

\* Mutant: the entry keeps the address of the running firmware.
WriteMainOldAddress ==
  /\ pc = "writeMain"
  /\ main' = UpdateSector(cfg, loc, img)
  /\ pc' = "complete"
  /\ UNCHANGED <<backup, apps, card, ram, floor, faults>>

WriteMain ==
  /\ pc = "writeMain"
  /\ main' = UpdateSector(cfg, target, img)
  /\ pc' = "complete"
  /\ UNCHANGED <<backup, apps, card, ram, floor, faults>>

\* "Remove firmware files from SD Card?", then the shutdown; with the card
\* gone the removal ends the boot script and the watchdog resets.
Finish ==
  /\ pc = "complete"
  /\ card' \in {card, None}
  /\ pc' = "off" /\ ClearRam
  /\ UNCHANGED <<flash, floor, faults>>

----------------------------------------------------------------------------
(* The world.                                                              *)

\* Power off or a reset while no flash is written: costs nothing.
SwitchOff ==
  /\ pc \in {"verify", "confirm", "app"}
  /\ pc' = "off" /\ ClearRam
  /\ UNCHANGED <<flash, card, floor, faults>>

\* Power fails between an erase and a write.
PowerLoss ==
  /\ pc \in Writing /\ faults < MaxFaults
  /\ faults' = faults + 1
  /\ pc' = "off" /\ ClearRam
  /\ UNCHANGED <<flash, card, floor>>

\* The card is pulled, or stops answering.
CardFails ==
  /\ pc \in {"verify", "confirm", "writeSlot", "complete"}
  /\ card # None /\ faults < MaxFaults
  /\ faults' = faults + 1
  /\ card' = None
  /\ UNCHANGED <<flash, pc, ram, floor>>

\* Another card is put in while the device is off; never during an upgrade.
ChangeCard ==
  /\ pc = "off"
  /\ card' \in Images \cup {None}
  /\ UNCHANGED <<flash, pc, ram, floor, faults>>

----------------------------------------------------------------------------

Factory == [ver |-> 1, size |-> MinSize, flaw |-> "none"]
FactoryEntry == [active |-> TRUE, addr |-> "slot1", sized |-> FALSE, size |-> MinSize]
Inactive == [FactoryEntry EXCEPT !.active = FALSE]

\* kboot.kfpkg; a main sector that a flashing tool left without an active
\* entry, where an upgrade rewrites the only good sector and no fault is
\* budgeted; no active entry at all but a default application.
Init ==
  /\ \/ /\ main = FactoryEntry /\ backup = FactoryEntry /\ faults = 0
        /\ apps = [l \in Locs |-> IF l = "slot1" THEN Factory ELSE None]
     \/ /\ main = Inactive /\ backup = FactoryEntry /\ faults = MaxFaults
        /\ apps = [l \in Locs |-> IF l = "slot1" THEN Factory ELSE None]
     \/ /\ main = Inactive /\ backup = Inactive /\ faults = 0
        /\ apps = [l \in Locs |-> IF l = "default" THEN Factory ELSE None]
  /\ card = None /\ pc = "off"
  /\ running = None /\ loc = None /\ cfg = None /\ target = None /\ img = None
  /\ floor = 1

Next ==
  \/ PowerOn \/ Verify \/ Decline \/ Install
  \/ EraseSlot \/ WriteSlot \/ WriteSlotFails
  \/ EraseBackup \/ WriteBackup \/ EraseMain \/ WriteMain \/ Finish
  \/ SwitchOff \/ PowerLoss \/ CardFails \/ ChangeCard

Spec == Init /\ [][Next]_vars

----------------------------------------------------------------------------
(* Properties.                                                             *)

\* The variables stay in their types.
TypeOK ==
  /\ main \in Entries \cup {Torn} /\ backup \in Entries \cup {Torn}
  /\ apps \in [Locs -> Images \cup {None, Torn}]
  /\ card \in Images \cup {None} /\ img \in Images \cup {None}
  /\ running \in Images \cup {None} /\ loc \in Locs \cup {None}
  /\ cfg \in Entries \cup {Torn, None}
  /\ target \in {"slot1", "slot2", None}
  /\ pc \in Pcs
  /\ floor \in 1..MaxVersion /\ faults \in 0..MaxFaults

\* One power loss or card failure, in an upgrade or in the retry after it,
\* never leaves the device with nothing to boot.
NeverHalts == pc # "halted"

\* Until something has gone wrong, a power cut at any moment of an upgrade
\* leaves Kboot with the firmware that is running or the one that is being
\* installed.
CutIsSafe ==
  pc \in Writing /\ faults = 0 =>
    BootLoc # "halt" /\ apps[BootLoc] \in {running, img}

\* After "Upgrade complete." the next power-on starts the new firmware: the
\* block and the entry that the upgrade wrote pass every check of Kboot.
UpgradeTakesEffect ==
  pc = "complete" => BootLoc = target /\ apps[target] = img

\* Only what passed the checks of an upgrade ever runs: no half-written slot
\* and no file that was refused.
RunningIsVerified == running # None => running # Torn /\ running.flaw = "none"

\* The version that runs never goes down, whatever sector Kboot falls back to.
NoRollback == [][floor' >= floor]_vars

\* firmware.py: "Write new firmware to the opposite slot".
OppositeSlot == pc = "eraseSlot" => target # loc
=============================================================================
