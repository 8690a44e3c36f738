--------------------------- MODULE FirmwareProofs ---------------------------
(***************************************************************************)
(* Theorems about FirmwareUpgrade: what firmware.upgrade() and Kboot       *)
(* guarantee between them, for every set of versions and sizes.            *)
(***************************************************************************)
EXTENDS FirmwareUpgrade, TLAPS

Busy == Writing \cup {"confirm", "complete"}

(***************************************************************************)
(* Types.  Which local of upgrade() is set depends on where it is, and the *)
(* upgrade never writes the default application.                           *)
(***************************************************************************)

Control ==
  /\ pc \in Busy \cup {"verify"} => running \in Images
  /\ pc \in Busy => cfg \in Entries \cup {Torn} /\ img \in Images
  /\ pc \in Writing \cup {"complete"} => target \in {"slot1", "slot2"}
  /\ apps["default"] # Torn

Inv == TypeOK /\ Control

LEMMA Consts ==
  /\ Factory \in Images /\ FactoryEntry \in Entries /\ Inactive \in Entries
  /\ None \notin Images /\ Torn \notin Images
  /\ None \notin Entries /\ Torn \notin Entries
  /\ None # Torn /\ MaxFaults \in Nat \ {0} /\ 1 \in 1..MaxVersion
<1>1. Factory \in Images
  BY UpgradeAssumption DEF Factory, Images, Flaws
<1>2. FactoryEntry \in Entries
  BY UpgradeAssumption DEF FactoryEntry, Entries, Locs
<1>3. Inactive \in Entries
  BY <1>2 DEF Inactive, Entries
<1>4. QED
  BY <1>1, <1>2, <1>3, UpgradeAssumption

LEMMA BootIsImage ==
  ASSUME Inv, BootLoc # "halt"
  PROVE  BootLoc \in Locs /\ apps[BootLoc] \in Images
<1>1. CASE Bootable(main)
  BY <1>1 DEF Inv, TypeOK, BootLoc, Bootable, AppCheck, Entries
<1>2. CASE ~Bootable(main) /\ Bootable(backup)
  BY <1>2 DEF Inv, TypeOK, BootLoc, Bootable, AppCheck, Entries
<1>3. CASE ~Bootable(main) /\ ~Bootable(backup)
  BY <1>3 DEF Inv, TypeOK, Control, BootLoc, DefaultOk, Locs
<1>4. QED
  BY <1>1, <1>2, <1>3

LEMMA InitInv == Init => Inv
BY Consts, UpgradeAssumption DEF Init, Inv, TypeOK, Control, Pcs, Busy, Writing, Locs

LEMMA InvStep == Inv /\ [Next]_vars => Inv'
<1> SUFFICES ASSUME Inv, [Next]_vars PROVE Inv'
  OBVIOUS
<1> USE Consts DEF Inv, TypeOK, Control, Pcs, Busy, Writing
<1>1. CASE PowerOn
  <2>1. CASE BootLoc = "halt"
    BY <1>1, <2>1 DEF PowerOn, flash
  <2>2. CASE BootLoc # "halt"
    <3>1. BootLoc \in Locs /\ apps[BootLoc] \in Images
      BY <2>2, BootIsImage
    <3>2. apps[BootLoc].ver \in 1..MaxVersion
      BY <3>1 DEF Images
    <3>3. QED
      BY <1>1, <2>2, <3>1, <3>2 DEF PowerOn, flash
  <2>3. QED
    BY <2>1, <2>2
<1>2. CASE Verify
  BY <1>2 DEF Verify, ReadConfig, HasActive, Accepted, flash
<1>3. CASE Decline
  BY <1>3 DEF Decline, flash
<1>4. CASE Install
  BY <1>4 DEF Install, OtherSlot, ClearRam, flash
<1>5. CASE EraseSlot
  BY <1>5 DEF EraseSlot, ram, Locs
<1>6. CASE WriteSlot
  BY <1>6 DEF WriteSlot, ram, Locs
<1>7. CASE WriteSlotFails
  BY <1>7 DEF WriteSlotFails, flash
<1>8. CASE EraseBackup \/ WriteBackup \/ EraseMain
  BY <1>8 DEF EraseBackup, WriteBackup, EraseMain, ram
<1>9. CASE WriteMain
  <2>1. UpdateSector(cfg, target, img) \in Entries
    BY <1>9 DEF WriteMain, UpdateSector, Entries, Locs, Images
  <2>2. QED
    BY <1>9, <2>1 DEF WriteMain, ram
<1>10. CASE Finish \/ SwitchOff
  BY <1>10 DEF Finish, SwitchOff, ClearRam, flash
<1>11. CASE PowerLoss
  BY <1>11 DEF PowerLoss, ClearRam, flash
<1>12. CASE CardFails
  BY <1>12 DEF CardFails, flash, ram
<1>13. CASE ChangeCard
  BY <1>13 DEF ChangeCard, flash, ram
<1>14. CASE UNCHANGED vars
  BY <1>14 DEF vars, flash, ram
<1>15. QED
  BY <1>1, <1>2, <1>3, <1>4, <1>5, <1>6, <1>7, <1>8, <1>9, <1>10, <1>11, <1>12,
     <1>13, <1>14 DEF Next

LEMMA InvHolds == Spec => []Inv
BY InitInv, InvStep, PTL DEF Spec

\* Flash, card and RAM keep their types through upgrades, power losses and
\* card failures.
THEOREM TypeCorrect == Spec => []TypeOK
<1>1. Inv => TypeOK
  BY DEF Inv
<1>2. QED
  BY <1>1, InvHolds, PTL
(***************************************************************************)
(* Only verified images.  Everything in flash passed the checks, and so    *)
(* did the file that is being written.                                     *)
(***************************************************************************)

AllVerified ==
  /\ \A l \in Locs : apps[l] \notin {None, Torn} => apps[l].flaw = "none"
  /\ img # None => img.flaw = "none"
  /\ RunningIsVerified

LEMMA AllVerifiedStep == Inv /\ AllVerified /\ [Next]_vars => AllVerified'
<1> SUFFICES ASSUME Inv, AllVerified, [Next]_vars PROVE AllVerified'
  OBVIOUS
<1> USE Consts DEF AllVerified, RunningIsVerified
<1>1. CASE PowerOn
  <2>1. CASE BootLoc = "halt"
    BY <1>1, <2>1 DEF PowerOn, flash
  <2>2. CASE BootLoc # "halt"
    <3>1. BootLoc \in Locs /\ apps[BootLoc] \in Images
      BY <2>2, BootIsImage
    <3>2. QED
      BY <1>1, <2>2, <3>1 DEF PowerOn, flash
  <2>3. QED
    BY <2>1, <2>2
<1>2. CASE Verify
  <2>1. CASE card # None /\ Accepted(card)
    <3>1. card.flaw = "none"
      BY <2>1 DEF Accepted, SignatureOk, Inv, TypeOK, Images, Flaws
    <3>2. QED
      BY <1>2, <2>1, <3>1 DEF Verify, flash
  <2>2. CASE ~(card # None /\ Accepted(card))
    BY <1>2, <2>2 DEF Verify, flash
  <2>3. QED
    BY <2>1, <2>2
<1>3. CASE EraseSlot
  BY <1>3 DEF EraseSlot, ram, Inv, TypeOK
<1>4. CASE WriteSlot
  BY <1>4 DEF WriteSlot, ram, Inv, TypeOK, Control, Busy, Writing
<1>5. CASE Decline \/ WriteSlotFails
  BY <1>5 DEF Decline, WriteSlotFails, flash
<1>6. CASE Install \/ Finish \/ SwitchOff \/ PowerLoss
  BY <1>6 DEF Install, Finish, SwitchOff, PowerLoss, ClearRam, flash
<1>7. CASE EraseBackup \/ WriteBackup \/ EraseMain \/ WriteMain
  BY <1>7 DEF EraseBackup, WriteBackup, EraseMain, WriteMain, ram
<1>8. CASE CardFails \/ ChangeCard \/ UNCHANGED vars
  BY <1>8 DEF CardFails, ChangeCard, vars, flash, ram
<1>9. QED
  BY <1>1, <1>2, <1>3, <1>4, <1>5, <1>6, <1>7, <1>8 DEF Next

\* However often power or cards fail, what Kboot starts is the factory image
\* or a file that passed every check of upgrade(), never a torn slot.
THEOREM RunningIsVerifiedHolds == Spec => []RunningIsVerified
<1>1. Init => AllVerified
  BY Consts DEF Init, AllVerified, RunningIsVerified, Factory
<1>2. AllVerified => RunningIsVerified
  BY DEF AllVerified
<1>3. QED
  BY <1>1, <1>2, InvHolds, AllVerifiedStep, PTL DEF Spec

(***************************************************************************)
(* The upgrade in progress.  cfg is the main sector as long as that has an *)
(* active entry, so the slot being written is not the one main names; the  *)
(* new image is newer than the running one, small enough, and whole before *)
(* a sector is touched; the backup is written before main is erased.  With *)
(* a default application there is no active entry and never an upgrade.    *)
(***************************************************************************)

Newest == pc \in Busy \cup {"verify"} => floor = running.ver

Progress ==
  /\ pc \in Busy => img.ver > floor /\ img.size <= MaxSize
  /\ pc \in Busy \ {"writeMain", "complete"} => (HasActive(main) => cfg = main)
  /\ pc \in Writing \cup {"complete"} => target = OtherSlot(cfg)
  /\ pc \in (Writing \ {"eraseSlot", "writeSlot"}) \cup {"complete"}
       => apps[target] = img
  /\ pc \in {"eraseMain", "writeMain"} => backup = cfg
  /\ pc = "writeMain" => main = Torn
  /\ pc = "complete" => main = UpdateSector(cfg, target, img)

DefaultOnly ==
  apps["default"] # None =>
    /\ ~HasActive(main) /\ ~HasActive(backup)
    /\ floor = apps["default"].ver
    /\ pc \notin Busy

UpInv == Inv /\ Newest /\ Progress /\ DefaultOnly

LEMMA InitUpInv == Init => UpInv
<1> SUFFICES ASSUME Init PROVE UpInv
  OBVIOUS
<1>1. ~HasActive(Inactive)
  BY Consts DEF HasActive, Inactive, FactoryEntry
<1>2. Factory.ver = 1
  BY DEF Factory
<1>3. DefaultOnly
  BY <1>1, <1>2, Consts DEF Init, DefaultOnly, Busy, Writing, Locs
<1>4. QED
  BY <1>3, InitInv DEF Init, UpInv, Newest, Progress, Busy, Writing

LEMMA SlotDiffers ==
  ASSUME NEW s \in Entries \cup {Torn}, s # Torn
  PROVE  OtherSlot(s) # s.addr
BY DEF OtherSlot

LEMMA UpInvStep == UpInv /\ [Next]_vars => UpInv'
<1> SUFFICES ASSUME UpInv, [Next]_vars PROVE (Newest /\ Progress /\ DefaultOnly)'
  BY InvStep DEF UpInv
<1> USE Consts DEF UpInv, Newest, Progress, DefaultOnly, Busy, Writing
<1>1. CASE PowerOn
  <2>1. CASE BootLoc = "halt"
    BY <1>1, <2>1 DEF PowerOn, flash
  <2>2. CASE BootLoc # "halt"
    <3>1. apps["default"] # None => BootLoc = "default"
      BY <2>2 DEF BootLoc, Bootable, HasActive
    <3>2. QED
      BY <1>1, <2>2, <3>1 DEF PowerOn, flash, HasActive
  <2>3. QED
    BY <2>1, <2>2
<1>2. CASE Verify
  <2>1. CASE card # None /\ Accepted(card)
    <3>1. card.ver > floor /\ card.size <= MaxSize /\ apps["default"] = None
      BY <1>2, <2>1 DEF Verify, Accepted, Newer, ReadConfig
    <3>2. QED
      BY <1>2, <2>1, <3>1 DEF Verify, ReadConfig, flash
  <2>2. CASE ~(card # None /\ Accepted(card))
    BY <1>2, <2>2 DEF Verify, flash, HasActive
  <2>3. QED
    BY <2>1, <2>2
<1>3. CASE Install
  BY <1>3 DEF Install, ClearRam, flash, HasActive
<1>4. CASE EraseSlot
  BY <1>4 DEF EraseSlot, ram, Inv, Control, HasActive, TypeOK, Locs
<1>5. CASE WriteSlot
  BY <1>5 DEF WriteSlot, ram, Inv, Control, HasActive, TypeOK, Locs
<1>6. CASE Decline \/ WriteSlotFails
  BY <1>6 DEF Decline, WriteSlotFails, flash, HasActive
<1>7. CASE EraseBackup
  BY <1>7 DEF EraseBackup, ram, HasActive
<1>8. CASE WriteBackup
  BY <1>8 DEF WriteBackup, ram, HasActive
<1>9. CASE EraseMain
  BY <1>9 DEF EraseMain, ram, HasActive
<1>10. CASE WriteMain
  BY <1>10 DEF WriteMain, ram
<1>11. CASE Finish \/ SwitchOff \/ PowerLoss
  BY <1>11 DEF Finish, SwitchOff, PowerLoss, ClearRam, flash, HasActive
<1>12. CASE CardFails \/ ChangeCard \/ UNCHANGED vars
  BY <1>12 DEF CardFails, ChangeCard, vars, flash, ram, HasActive
<1>13. QED
  BY <1>1, <1>2, <1>3, <1>4, <1>5, <1>6, <1>7, <1>8, <1>9, <1>10, <1>11, <1>12
  DEF Next

LEMMA UpInvHolds == Spec => []UpInv
BY InitUpInv, UpInvStep, PTL DEF Spec
(***************************************************************************)
(* No rollback.                                                            *)
(***************************************************************************)

\* Booting entry e does not go below the version that ran last.
Keeps(e) == Bootable(e) => apps[e.addr].ver >= floor

RollInv ==
  /\ Keeps(main)
  /\ ~Bootable(main) => Keeps(backup)
  /\ pc \in Busy => Keeps(cfg)

\* A bootable main entry stays so while the other slot is written.
LEMMA MainStays ==
  ASSUME UpInv, EraseSlot \/ WriteSlot
  PROVE  Bootable(main)' <=> Bootable(main)
<1>1. main # Torn /\ main.active => main.addr # target
  <2> SUFFICES ASSUME main # Torn, main.active PROVE main.addr # target
    OBVIOUS
  <2>1. cfg = main /\ target = OtherSlot(main)
    BY DEF UpInv, Progress, Busy, Writing, HasActive, EraseSlot, WriteSlot
  <2>2. main \in Entries \cup {Torn}
    BY DEF UpInv, Inv, TypeOK
  <2>3. QED
    BY <2>1, <2>2, SlotDiffers
<1>2. main # Torn /\ main.active => apps'[main.addr] = apps[main.addr]
  BY <1>1, Consts DEF EraseSlot, WriteSlot, UpInv, Inv, TypeOK, Entries
<1>3. main' = main
  BY DEF EraseSlot, WriteSlot
<1>4. QED
  BY <1>2, <1>3 DEF Bootable, AppCheck

\* Writing a slot leaves every entry with nothing older to boot.
LEMMA KeepsThrough ==
  ASSUME UpInv, EraseSlot \/ WriteSlot, NEW e \in Entries \cup {Torn}, Keeps(e)
  PROVE  Bootable(e)' => apps'[e.addr].ver >= floor'
<1> SUFFICES ASSUME e # Torn, e.active, AppCheck(e)', e.size \in MinSize..MaxSize
             PROVE  apps'[e.addr].ver >= floor
  BY DEF Bootable, EraseSlot, WriteSlot
<1>1. CASE e.addr # target
  <2>1. apps'[e.addr] = apps[e.addr]
    BY <1>1 DEF EraseSlot, WriteSlot, UpInv, Inv, TypeOK, Entries
  <2>2. QED
    BY <2>1 DEF Keeps, Bootable, AppCheck
<1>2. CASE e.addr = target
  <2>1. target \in Locs
    BY DEF UpInv, Inv, Control, Writing, Locs, EraseSlot, WriteSlot
  <2>2. CASE EraseSlot
    BY <1>2, <2>1, <2>2 DEF EraseSlot, AppCheck, UpInv, Inv, TypeOK
  <2>3. CASE WriteSlot
    <3>1. apps'[e.addr] = img
      BY <1>2, <2>1, <2>3 DEF WriteSlot, UpInv, Inv, TypeOK
    <3>2. img.ver > floor /\ img.ver \in Int /\ floor \in Int
      BY <2>3 DEF WriteSlot, UpInv, Progress, Inv, Control, TypeOK, Busy, Writing, Images
    <3>3. QED
      BY <3>1, <3>2
  <2>4. QED
    BY <2>2, <2>3
<1>3. QED
  BY <1>1, <1>2

LEMMA RollStep == UpInv /\ RollInv /\ [Next]_vars => RollInv' /\ floor' >= floor
<1> SUFFICES ASSUME UpInv, RollInv, [Next]_vars PROVE RollInv' /\ floor' >= floor
  OBVIOUS
<1>0. floor \in Int
  BY DEF UpInv, Inv, TypeOK
<1> USE Consts, <1>0
<1>1. CASE PowerOn
  <2>1. CASE BootLoc = "halt"
    BY <1>1, <2>1 DEF PowerOn, flash, RollInv, Keeps, Bootable, AppCheck, Busy, Writing
  <2>2. CASE BootLoc # "halt"
    <3>1. apps[BootLoc].ver \in Int /\ floor' = apps[BootLoc].ver
      BY <1>1, <2>2, BootIsImage DEF UpInv, Images, PowerOn
    <3>2. apps[BootLoc].ver >= floor
      BY <3>1, <2>2 DEF RollInv, Keeps, BootLoc, DefaultOk, UpInv, DefaultOnly
    <3>3. (Bootable(main)' <=> Bootable(main)) /\ (Bootable(backup)' <=> Bootable(backup))
      BY <1>1 DEF PowerOn, flash, Bootable, AppCheck
    <3>4. pc' \notin Busy
      BY <1>1 DEF PowerOn, Busy, Writing
    <3>5. Keeps(main)' /\ (~Bootable(main)' => Keeps(backup)')
      BY <1>1, <3>1, <3>3 DEF Keeps, BootLoc, PowerOn, flash
    <3>6. QED
      BY <3>1, <3>2, <3>4, <3>5 DEF RollInv
  <2>3. QED
    BY <2>1, <2>2
<1>2. CASE Verify
  BY <1>2 DEF Verify, ReadConfig, HasActive, flash, RollInv, Keeps, Bootable, AppCheck,
     Busy, Writing
<1>3. CASE EraseSlot \/ WriteSlot
  <2>1. main \in Entries \cup {Torn} /\ backup \in Entries \cup {Torn}
        /\ cfg \in Entries \cup {Torn} /\ pc \in Busy
    BY <1>3 DEF UpInv, Inv, TypeOK, Control, Busy, Writing, EraseSlot, WriteSlot
  <2>2. Keeps(main)' /\ Keeps(cfg)'
    BY <1>3, <2>1, KeepsThrough DEF RollInv, Keeps, EraseSlot, WriteSlot, ram, Bootable, AppCheck
  <2>3. ~Bootable(main)' => Keeps(backup)'
    BY <1>3, <2>1, KeepsThrough, MainStays
    DEF RollInv, Keeps, EraseSlot, WriteSlot, Bootable, AppCheck
  <2>4. QED
    BY <1>3, <2>2, <2>3 DEF RollInv, EraseSlot, WriteSlot
<1>4. CASE EraseBackup
  BY <1>4 DEF EraseBackup, ram, RollInv, Keeps, Bootable, AppCheck, Busy, Writing
<1>5. CASE WriteBackup
  BY <1>5 DEF WriteBackup, ram, RollInv, Keeps, Bootable, AppCheck, Busy, Writing
<1>6. CASE EraseMain
  BY <1>6 DEF EraseMain, ram, RollInv, Keeps, Bootable, AppCheck, Busy, Writing,
     UpInv, Progress
<1>7. CASE WriteMain
  <2>1. apps[target] = img /\ img.ver > floor /\ img.ver \in Int
    BY <1>7 DEF WriteMain, UpInv, Progress, Inv, Control, Busy, Writing, Images
  <2>2. Keeps(main)'
    BY <1>7, <2>1 DEF WriteMain, UpdateSector, Keeps, ram
  <2>3. Keeps(backup)' /\ Keeps(cfg)'
    BY <1>7 DEF WriteMain, ram, RollInv, Keeps, Bootable, AppCheck, Busy, Writing,
       UpInv, Progress
  <2>4. QED
    BY <1>7, <2>2, <2>3 DEF RollInv, WriteMain
<1>8. CASE Install \/ Decline \/ WriteSlotFails
  BY <1>8 DEF Install, Decline, WriteSlotFails, ClearRam, flash, RollInv, Keeps, Bootable,
     AppCheck, Busy, Writing
<1>9. CASE Finish \/ SwitchOff \/ PowerLoss
  BY <1>9 DEF Finish, SwitchOff, PowerLoss, ClearRam, flash, RollInv, Keeps, Bootable,
     AppCheck, Busy, Writing
<1>10. CASE CardFails \/ ChangeCard \/ UNCHANGED vars
  BY <1>10 DEF CardFails, ChangeCard, vars, flash, ram, RollInv, Keeps, Bootable,
     AppCheck, Busy, Writing
<1>11. QED
  BY <1>1, <1>2, <1>3, <1>4, <1>5, <1>6, <1>7, <1>8, <1>9, <1>10 DEF Next

\* However often power or cards fail, Kboot never starts an older version
\* than the one that ran last.
THEOREM NoRollbackHolds == Spec => NoRollback
<1>1. Init => RollInv
  BY Consts DEF Init, RollInv, Keeps, Bootable, AppCheck, FactoryEntry, Inactive,
     Factory, Locs, Busy, Writing
<1>2. UpInv /\ RollInv /\ [Next]_vars => RollInv' /\ [floor' >= floor]_vars
  BY RollStep
<1>3. QED
  BY <1>1, <1>2, UpInvHolds, PTL DEF Spec, NoRollback

(***************************************************************************)
(* What a power cut leaves.  Kboot refuses applications under 16 KB and    *)
(* the upgrade does not, so these theorems are about files that are not    *)
(* that small.                                                             *)
(***************************************************************************)

NoSmallFiles == \A n \in Sizes : n >= MinSize

LEMMA BootsMain ==
  ASSUME Inv, Bootable(main)
  PROVE  BootLoc = main.addr /\ BootLoc # "halt" /\ HasActive(main)
BY DEF BootLoc, Bootable, HasActive, Inv, TypeOK, Entries, Locs

\* The entry that the upgrade writes passes the checks of Kboot.
LEMMA NewEntryBoots ==
  ASSUME UpInv, NoSmallFiles, pc \in {"writeMain", "complete"}
  PROVE  LET e == UpdateSector(cfg, target, img)
         IN  Bootable(e) /\ e.addr = target /\ apps[target] = img
<1>1. apps[target] = img /\ img \in Images /\ img.size <= MaxSize
  <2>1. pc \in Busy
    BY DEF Busy, Writing
  <2>2. img \in Images
    BY <2>1 DEF UpInv, Inv, Control
  <2>3. img.size <= MaxSize
    BY <2>1 DEF UpInv, Progress
  <2>4. apps[target] = img
    BY DEF UpInv, Progress, Writing
  <2>5. QED
    BY <2>2, <2>3, <2>4
<1>2. img.size \in MinSize..MaxSize
  <2>1. img.size \in Sizes
    BY <1>1 DEF Images
  <2>2. img.size >= MinSize
    BY <2>1 DEF NoSmallFiles
  <2>3. img.size \in Nat /\ MinSize \in Nat /\ MaxSize \in Nat
    BY <2>1, UpgradeAssumption
  <2>4. QED
    BY <1>1, <2>2, <2>3
<1>3. UpdateSector(cfg, target, img) \in Entries
  BY <1>1 DEF UpInv, Inv, Control, Writing, UpdateSector, Entries, Locs, Images
<1>4. QED
  BY <1>1, <1>2, <1>3, Consts DEF UpdateSector, Bootable, AppCheck

\* "Upgrade complete." is true: the new image is what Kboot will start, after
\* any number of earlier failures.
THEOREM UpgradeTakesEffectHolds ==
  ASSUME NoSmallFiles
  PROVE  Spec => []UpgradeTakesEffect
<1>1. UpInv => UpgradeTakesEffect
  <2> SUFFICES ASSUME UpInv, pc = "complete" PROVE BootLoc = target /\ apps[target] = img
    BY DEF UpgradeTakesEffect
  <2>1. main = UpdateSector(cfg, target, img)
    BY DEF UpInv, Progress
  <2>2. Bootable(main) /\ main.addr = target /\ apps[target] = img
    BY <2>1, NewEntryBoots
  <2>3. QED
    BY <2>2, BootsMain DEF UpInv
<1>2. QED
  BY <1>1, UpInvHolds, PTL

\* Before the first fault, and unless the default application runs, main is
\* good except while it is rewritten, and cfg is the entry that was booted.
CutInv ==
  faults = 0 /\ apps["default"] = None =>
    /\ pc # "writeMain" => Bootable(main)
    /\ pc = "verify" => apps[main.addr] = running
    /\ pc \in Writing \cup {"confirm"} => Bootable(cfg) /\ apps[cfg.addr] = running

LEMMA FactoryBoots ==
  ASSUME apps["slot1"] = Factory
  PROVE  Bootable(FactoryEntry) /\ FactoryEntry.addr = "slot1"
<1>1. FactoryEntry # Torn /\ Factory \notin {None, Torn}
  BY Consts
<1>2. MinSize \in MinSize..MaxSize
  <2>1. MinSize \in Nat /\ MaxSize \in Nat /\ MinSize <= MaxSize
    BY UpgradeAssumption
  <2>2. QED
    BY <2>1
<1>3. /\ FactoryEntry.active /\ FactoryEntry.addr = "slot1"
      /\ FactoryEntry.sized = FALSE /\ FactoryEntry.size = MinSize
  BY DEF FactoryEntry
<1>4. QED
  BY <1>1, <1>2, <1>3 DEF Bootable, AppCheck

LEMMA InitCutInv == Init => CutInv
<1> SUFFICES ASSUME Init, faults = 0, apps["default"] = None PROVE CutInv
  BY DEF CutInv
<1>1. main = FactoryEntry /\ apps["slot1"] = Factory
  BY Consts DEF Init, Locs
<1>2. Bootable(FactoryEntry)
  BY <1>1, FactoryBoots
<1>3. QED
  BY <1>1, <1>2 DEF Init, CutInv, Writing

LEMMA CutStep ==
  ASSUME NoSmallFiles, UpInv, CutInv, [Next]_vars
  PROVE  CutInv'
<1> SUFFICES ASSUME faults' = 0, apps'["default"] = None PROVE CutInv'
  BY DEF CutInv
<1>0. faults = 0 /\ apps["default"] = None
  <2>1. faults = 0
    BY DEF Next, vars, PowerOn, Verify, Decline, Install, EraseSlot, WriteSlot,
       WriteSlotFails, EraseBackup, WriteBackup, EraseMain, WriteMain, Finish,
       SwitchOff, PowerLoss, CardFails, ChangeCard, UpInv, Inv, TypeOK
  <2>2. pc \in Writing => target # "default"
    BY DEF UpInv, Inv, Control
  <2>3. apps'["default"] = apps["default"]
    <3>1. CASE EraseSlot \/ WriteSlot
      BY <2>2, <3>1 DEF EraseSlot, WriteSlot, UpInv, Inv, TypeOK, Locs, Writing
    <3>2. CASE ~(EraseSlot \/ WriteSlot)
      BY <3>2 DEF Next, vars, PowerOn, Verify, Decline, Install, WriteSlotFails,
         EraseBackup, WriteBackup, EraseMain, WriteMain, Finish, SwitchOff,
         PowerLoss, CardFails, ChangeCard, flash
    <3>3. QED
      BY <3>1, <3>2
  <2>4. QED
    BY <2>1, <2>3
<1>1. CASE PowerOn
  <2>1. Bootable(main) /\ BootLoc = main.addr /\ BootLoc # "halt"
    BY <1>0, <1>1, BootsMain DEF CutInv, PowerOn, UpInv
  <2>2. Bootable(main)'
    BY <1>1, <2>1 DEF PowerOn, flash, Bootable, AppCheck
  <2>3. QED
    BY <1>1, <2>1, <2>2 DEF PowerOn, flash, CutInv, Writing
<1>2. CASE Verify
  <2>1. Bootable(main) /\ ReadConfig = main /\ apps[main.addr] = running
    BY <1>0, <1>2, BootsMain DEF CutInv, Verify, UpInv, ReadConfig
  <2>2. QED
    BY <1>2, <2>1 DEF Verify, flash, CutInv, Writing, Bootable, AppCheck
<1>3. CASE EraseSlot \/ WriteSlot
  <2>1. Bootable(main) /\ cfg = main /\ apps[main.addr] = running
    BY <1>0, <1>3, BootsMain DEF CutInv, UpInv, Progress, EraseSlot, WriteSlot, Busy, Writing
  <2>2. Bootable(main)' /\ main' = main /\ cfg' = cfg
    BY <1>3, <2>1, MainStays DEF EraseSlot, WriteSlot, ram
  <2>3. main.addr # target
    BY <1>3, <2>1, SlotDiffers
    DEF UpInv, Progress, Inv, TypeOK, Bootable, EraseSlot, WriteSlot, Writing
  <2>4. apps'[main.addr] = running /\ running' = running
    BY <1>3, <2>1, <2>3 DEF EraseSlot, WriteSlot, ram, UpInv, Inv, TypeOK, Bootable, Entries
  <2>5. QED
    BY <1>3, <2>1, <2>2, <2>4 DEF CutInv, EraseSlot, WriteSlot
<1>4. CASE EraseBackup \/ WriteBackup \/ EraseMain
  BY <1>0, <1>4 DEF EraseBackup, WriteBackup, EraseMain, ram, CutInv, Writing,
     Bootable, AppCheck
<1>5. CASE WriteMain
  <2>1. Bootable(main)'
    BY <1>5, NewEntryBoots DEF WriteMain, ram, Bootable, AppCheck
  <2>2. QED
    BY <1>5, <2>1 DEF WriteMain, CutInv, Writing
<1>6. CASE Decline \/ WriteSlotFails \/ Install
  BY <1>0, <1>6 DEF Decline, WriteSlotFails, Install, ClearRam, flash, CutInv, Writing,
     Bootable, AppCheck
<1>7. CASE Finish \/ SwitchOff
  BY <1>0, <1>7 DEF Finish, SwitchOff, ClearRam, flash, CutInv, Writing, Bootable, AppCheck
<1>8. CASE PowerLoss \/ CardFails
  BY <1>0, <1>8 DEF PowerLoss, CardFails
<1>9. CASE ChangeCard \/ UNCHANGED vars
  BY <1>0, <1>9 DEF ChangeCard, vars, flash, ram, CutInv, Writing, Bootable, AppCheck
<1>10. QED
  BY <1>1, <1>2, <1>3, <1>4, <1>5, <1>6, <1>7, <1>8, <1>9 DEF Next

LEMMA CutInvHolds == ASSUME NoSmallFiles PROVE Spec => []CutInv
<1>1. UpInv /\ CutInv /\ [Next]_vars => CutInv'
  BY CutStep
<1>2. QED
  BY <1>1, InitCutInv, UpInvHolds, PTL DEF Spec

LEMMA CutIsSafeNow == ASSUME UpInv, CutInv PROVE CutIsSafe
<1> SUFFICES ASSUME pc \in Writing, faults = 0
             PROVE  BootLoc # "halt" /\ apps[BootLoc] \in {running, img}
  BY DEF CutIsSafe
<1>1. Bootable(cfg) /\ apps[cfg.addr] = running
  BY DEF CutInv, UpInv, DefaultOnly, Busy
<1>2. CASE pc # "writeMain"
  <2>1. Bootable(main)
    BY <1>2 DEF CutInv, UpInv, DefaultOnly, Busy
  <2>2. cfg = main
    BY <1>2, <2>1, BootsMain DEF UpInv, Progress, Busy, Writing
  <2>3. QED
    BY <1>1, <2>1, <2>2, BootsMain DEF UpInv
<1>3. CASE pc = "writeMain"
  <2>1. main = Torn /\ backup = cfg
    BY <1>3 DEF UpInv, Progress
  <2>2. BootLoc = cfg.addr /\ cfg.addr # "halt"
    BY <1>1, <2>1 DEF BootLoc, Bootable, UpInv, Inv, TypeOK, Entries, Locs
  <2>3. QED
    BY <1>1, <2>2
<1>4. QED
  BY <1>2, <1>3

\* A power cut at any moment of an upgrade on a sound device leaves Kboot
\* with the firmware that was running or with the new one.
THEOREM CutIsSafeHolds ==
  ASSUME NoSmallFiles
  PROVE  Spec => []CutIsSafe
<1>1. UpInv /\ CutInv => CutIsSafe
  BY CutIsSafeNow
<1>2. QED
  BY <1>1, UpInvHolds, CutInvHolds, PTL

(***************************************************************************)
(* One fault never leaves nothing to boot.  The second upgrade may write   *)
(* the slot in use, but then nothing is left to go wrong.                  *)
(***************************************************************************)

BootInv ==
  /\ pc # "halted"
  /\ pc \notin Writing => BootLoc # "halt"
  /\ pc = "eraseSlot" => card # None
  /\ pc = "writeSlot" /\ card = None => Bootable(main)

LEMMA InitBootInv == Init => BootInv
<1> SUFFICES ASSUME Init PROVE BootLoc # "halt"
  BY DEF Init, BootInv, Writing
<1>1. Factory \notin {None, Torn} /\ Factory.size \in MinSize..MaxSize
  <2>1. MinSize \in Nat /\ MaxSize \in Nat /\ MinSize <= MaxSize
    BY UpgradeAssumption
  <2>2. Factory.size = MinSize
    BY DEF Factory
  <2>3. QED
    BY <2>1, <2>2, Consts
<1>2. apps["slot1"] = Factory => Bootable(FactoryEntry) /\ FactoryEntry.addr # "halt"
  BY FactoryBoots
<1>3. CASE main = FactoryEntry
  BY <1>2, <1>3, Consts DEF Init, Inactive, FactoryEntry, Locs, BootLoc, Bootable
<1>4. CASE main = Inactive /\ backup = FactoryEntry
  BY <1>2, <1>4, Consts DEF Init, Inactive, FactoryEntry, Locs, BootLoc, Bootable
<1>5. CASE apps["default"] = Factory
  <2>1. DefaultOk
    BY <1>1, <1>5 DEF DefaultOk
  <2>2. main \in Entries /\ backup \in Entries
    BY Consts DEF Init
  <2>3. QED
    BY <2>1, <2>2 DEF BootLoc, Entries, Locs
<1>6. QED
  BY <1>3, <1>4, <1>5 DEF Init, Locs

LEMMA BootStep ==
  ASSUME NoSmallFiles, MaxFaults = 1, UpInv, CutInv, BootInv, [Next]_vars
  PROVE  BootInv'
<1>1. CASE PowerOn
  BY <1>1 DEF PowerOn, flash, BootInv, Writing, BootLoc, DefaultOk, Bootable, AppCheck
<1>2. CASE Verify \/ Decline \/ Install
  BY <1>2 DEF Verify, Decline, Install, ClearRam, flash, BootInv, Writing, BootLoc,
     DefaultOk, Bootable, AppCheck
<1>3. CASE EraseSlot \/ WriteSlot \/ EraseBackup \/ WriteBackup \/ EraseMain
  BY <1>3 DEF EraseSlot, WriteSlot, EraseBackup, WriteBackup, EraseMain, BootInv, Writing
<1>4. CASE WriteSlotFails
  <2>1. BootLoc # "halt"
    BY <1>4, BootsMain DEF WriteSlotFails, BootInv, UpInv
  <2>2. QED
    BY <1>4, <2>1 DEF WriteSlotFails, flash, BootInv, Writing, BootLoc, DefaultOk,
       Bootable, AppCheck
<1>5. CASE WriteMain
  <2>1. Bootable(main)'
    BY <1>5, NewEntryBoots DEF WriteMain, ram, Bootable, AppCheck
  <2>2. main'.addr = target /\ target # "halt"
    BY <1>5, NewEntryBoots DEF WriteMain, UpInv, Inv, Control, Writing
  <2>3. QED
    BY <1>5, <2>1, <2>2 DEF WriteMain, BootInv, BootLoc, Writing
<1>6. CASE Finish \/ SwitchOff
  BY <1>6 DEF Finish, SwitchOff, flash, BootInv, Writing, BootLoc, DefaultOk,
     Bootable, AppCheck
<1>7. CASE PowerLoss
  <2>1. faults = 0
    BY <1>7 DEF PowerLoss, UpInv, Inv, TypeOK
  <2>2. BootLoc # "halt"
    BY <1>7, <2>1, CutIsSafeNow DEF PowerLoss, CutIsSafe
  <2>3. QED
    BY <1>7, <2>2 DEF PowerLoss, flash, BootInv, Writing, BootLoc, DefaultOk,
       Bootable, AppCheck
<1>8. CASE CardFails
  <2>1. faults = 0
    BY <1>8 DEF CardFails, UpInv, Inv, TypeOK
  <2>2. pc = "writeSlot" => Bootable(main)
    BY <2>1 DEF CutInv, UpInv, DefaultOnly, Busy, Writing
  <2>3. QED
    BY <1>8, <2>2 DEF CardFails, flash, BootInv, Writing, BootLoc, DefaultOk,
       Bootable, AppCheck
<1>9. CASE ChangeCard \/ UNCHANGED vars
  BY <1>9 DEF ChangeCard, vars, flash, BootInv, Writing, BootLoc, DefaultOk,
     Bootable, AppCheck
<1>10. QED
  BY <1>1, <1>2, <1>3, <1>4, <1>5, <1>6, <1>7, <1>8, <1>9 DEF Next

\* One power loss or card failure in the life of the device, wherever it
\* strikes and however many upgrades follow, never ends in SYSTEM HALTED.
THEOREM NeverHaltsHolds ==
  ASSUME NoSmallFiles, MaxFaults = 1
  PROVE  Spec => []NeverHalts
<1>1. UpInv /\ CutInv /\ BootInv /\ [Next]_vars => BootInv'
  BY BootStep
<1>2. BootInv => NeverHalts
  BY DEF BootInv, NeverHalts
<1>3. QED
  BY <1>1, <1>2, InitBootInv, UpInvHolds, CutInvHolds, PTL DEF Spec
=============================================================================
