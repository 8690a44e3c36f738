------------------------- MODULE UpgradeBootProofs -------------------------
(***************************************************************************)
(* An upgrade and the boot after it, for every size of chunk, header,      *)
(* hash, slot and file and for every boot without an upgrade: the          *)
(* invariants of WriteDataProofs and KbootProofs hold together, and the    *)
(* block that write_data leaves is the one app_check takes.                *)
(***************************************************************************)
EXTENDS UpgradeBoot, KbootProofs, WriteDataProofs

\* While the slot is written Kboot has not run; then the sectors and the slots
\* are what the upgrade left.
Waiting ==
  /\ Reset /\ quiet = TRUE
  /\ main = <<OldEntry>> /\ backup = <<OldEntry>>
  /\ apps = [a \in Addresses |-> IF a = "slot1" THEN Installed ELSE Empty]

Upgraded ==
  /\ quiet = TRUE
  /\ main = (IF wpc = "returned" THEN <<NewEntry>> ELSE <<OldEntry>>)
  /\ backup = <<OldEntry>>
  /\ apps["slot1"] = Installed /\ apps["slot2"] = SlotBlock

UpgradeInv ==
  /\ KbootInv /\ WriteInv /\ phase \in {"write", "boot", "only"}
  /\ phase = "write" => Waiting
  /\ phase = "boot" => Upgraded

----------------------------------------------------------------------------
(* The entries and the block.                                              *)

LEMMA EntryTypes ==
  ASSUME dataSize \in FileSizes
  PROVE  OldEntry \in Entries /\ NewEntry \in Entries
  BY UpgradeBootAssumption, WriteDataAssumption DEF OldEntry, NewEntry, Entries

LEMMA ByteParts ==
  ASSUME NEW k, NEW im, NEW p
  PROVE  Byte(k, im, p)[1] = k /\ Byte(k, im, p)[2] = im
  BY DEF Byte

\* With a header in place Kboot finds the new firmware, whole or not.
LEMMA HeaderFound ==
  ASSUME WriteTypes, HeaderIs
  PROVE  SlotBlock = [key |-> TRUE, size |-> dataSize, crc |-> FALSE,
                      sha |-> Holds("new", dataSize)]
<1>1. 1 \in 1..HeaderSize /\ 1 <= HeaderSize
  BY Sizes
<1>2. slot[1] = Byte("header", New, 1)
  BY <1>1 DEF HeaderIs, BlockByte
<1>3. slot[1][1] = "header" /\ slot[1][2] = New
  BY <1>2, ByteParts
<1>4. New[1] = "new" /\ New[2] = dataSize
  BY DEF New
<1>5. QED
  BY <1>3, <1>4, Zenon DEF SlotBlock

\* What a sector with one entry offers.
LEMMA OneEntry ==
  ASSUME NEW e \in Entries, NEW s, s = <<e>>
  PROVE  /\ Boot!Good(e) /\ e.active =>
              Boot!ActiveOnes(s) # {} /\ Boot!First(s, Boot!ActiveOnes(s)) = e.addr
         /\ ~Boot!Good(e) => Boot!ActiveOnes(s) = {}
<1>1. Len(s) = 1 /\ s[1] = e /\ 1..Len(s) = {1}
  OBVIOUS
<1>2. ASSUME Boot!Good(e), e.active
      PROVE  Boot!ActiveOnes(s) # {} /\ Boot!First(s, Boot!ActiveOnes(s)) = e.addr
  <2>1. Boot!ActiveOnes(s) = {1}
    BY <1>1, <1>2 DEF Boot!ActiveOnes, Boot!GoodOnes
  <2>2. Boot!First(s, {1}) = s[1].addr
    BY FirstIs
  <2>3. QED
    BY <1>1, <2>1, <2>2
<1>3. ASSUME ~Boot!Good(e) PROVE Boot!ActiveOnes(s) = {}
  BY <1>1, <1>3 DEF Boot!ActiveOnes, Boot!GoodOnes
<1>4. QED
  BY <1>2, <1>3

\* The choice after an upgrade.
LEMMA UpgradedChoice ==
  ASSUME WriteInv, Upgraded
  PROVE  Allowed = {IF wpc = "returned" /\ holes = 0 /\ dataSize >= MinSize
                    THEN "slot2" ELSE "slot1"}
<1>1. WriteTypes /\ Done /\ OldEntry \in Entries /\ NewEntry \in Entries
  BY EntryTypes DEF WriteInv, WriteTypes
<1>2. OldEntry # None /\ NewEntry # None
  BY <1>1, KbootAssumption
<1>3. Boot!Good(OldEntry) /\ OldEntry.active /\ OldEntry.addr = "slot1"
  BY <1>2, UpgradeBootAssumption DEF Boot!Good, OldEntry, Upgraded, Installed
<1>4. NewEntry.active /\ NewEntry.addr = "slot2"
  BY DEF NewEntry
<1>5. Allowed = {Boot!Automatic}
  BY DEF Allowed, Upgraded
<1>6. CASE wpc # "returned"
  <2>1. Boot!Automatic = "slot1"
    BY <1>1, <1>3, <1>6, OneEntry DEF Boot!Automatic, Upgraded
  <2>2. QED
    BY <1>5, <1>6, <2>1
<1>7. CASE wpc = "returned"
  <2>1. /\ apps["slot2"] = [key |-> TRUE, size |-> dataSize, crc |-> FALSE,
                            sha |-> Holds("new", dataSize)]
        /\ main = <<NewEntry>>
    BY <1>1, <1>7, HeaderFound DEF Done, Upgraded, LoopAt
  <2>2. Holds("new", dataSize) <=> holes = 0
    <3>1. CASE holes = 0
      BY <1>1, <1>7, <3>1, HoldsNew DEF Done, LoopAt
    <3>2. CASE holes # 0
      BY <1>1, <1>7, <3>2, NotNew DEF Done, LoopAt
    <3>3. QED
      BY <3>1, <3>2
  <2>3. Boot!Good(NewEntry) <=> holes = 0 /\ dataSize >= MinSize
    <3>1. dataSize \in MinSize..MaxSize <=> dataSize >= MinSize
      <4>1. dataSize \in Nat /\ dataSize <= MaxSize /\ MinSize \in Nat /\ MaxSize \in Nat
        BY <1>1, Numbers, UpgradeBootAssumption, KbootAssumption DEF WriteTypes
      <4>2. QED
        BY <4>1
    <3>2. "slot2" # OutOfRange
      BY UpgradeBootAssumption
    <3>3. QED
      BY <1>2, <2>1, <2>2, <3>1, <3>2 DEF Boot!Good, NewEntry
  <2>4. CASE holes = 0 /\ dataSize >= MinSize
    <3>1. Boot!Automatic = "slot2"
      BY <1>1, <1>4, <2>1, <2>3, <2>4, OneEntry DEF Boot!Automatic
    <3>2. QED
      BY <1>5, <1>7, <2>4, <3>1
  <2>5. CASE ~(holes = 0 /\ dataSize >= MinSize)
    <3>1. Boot!ActiveOnes(main) = {}
      BY <1>1, <2>1, <2>3, <2>5, OneEntry
    <3>2. Boot!Automatic = "slot1"
      BY <1>1, <1>3, <3>1, OneEntry DEF Boot!Automatic, Upgraded
    <3>3. QED
      BY <1>5, <1>7, <2>5, <3>2
  <2>6. QED
    BY <2>4, <2>5
<1>8. QED
  BY <1>6, <1>7

----------------------------------------------------------------------------
(* The invariant.                                                          *)

LEMMA OneEntrySector ==
  ASSUME NEW e \in Entries
  PROVE  <<e>> \in Seq(Entries \cup {None})
  OBVIOUS

LEMMA UpgradeInitInv == UpgradeInit => UpgradeInv
<1>1. SUFFICES ASSUME UpgradeInit PROVE UpgradeInv
  OBVIOUS
<1>2. WriteInit /\ WriteInv
  BY <1>1, WriteInitInv DEF UpgradeInit
<1>3. CASE phase = "only" /\ Init
  BY <1>2, <1>3, InitInv DEF UpgradeInv
<1>4. CASE phase = "write" /\ Waiting
  <2>1. OldEntry \in Entries
    BY <1>2, EntryTypes DEF WriteInit
  <2>2. SectorsOK
    BY <1>4, <2>1, OneEntrySector DEF SectorsOK, Waiting
  <2>3. KbootInv
    BY <1>4, <2>2, ResetInv DEF Waiting
  <2>4. QED
    BY <1>2, <1>4, <2>3 DEF UpgradeInv
<1>5. QED
  BY <1>1, <1>3, <1>4 DEF UpgradeInit, Waiting

LEMMA WriteStepInv ==
  ASSUME UpgradeInv, WriteStep
  PROVE  UpgradeInv'
<1>1. phase = "write" /\ phase' = phase /\ WriteNext /\ UNCHANGED vars
  BY DEF WriteStep
<1>2. WriteInv'
  BY <1>1, WriteNextInv DEF UpgradeInv
<1>3. KbootInv'
  BY <1>1, StutterInv DEF UpgradeInv
<1>4. Waiting'
  BY <1>1 DEF UpgradeInv, Waiting, Reset, OldEntry, vars, flash, cores, choice
<1>5. QED
  BY <1>1, <1>2, <1>3, <1>4 DEF UpgradeInv

\* Power on keeps the slot and forgets the loop.
LEMMA PowerOnWrite ==
  ASSUME WriteInv, PowerOn
  PROVE  WriteInv'
<1>1. /\ wpc \in {"returned", "failed", "cut"} /\ wpc' = wpc
      /\ slot' = slot /\ dataSize' = dataSize /\ tries' = tries /\ holes' = holes
      /\ ended' = ended
      /\ i' = 0 /\ buffer' = << >> /\ totalRead' = 0 /\ attempts' = 0
  BY DEF PowerOn, past
<1>2. WriteTypes /\ NotYet /\ Done
  BY DEF WriteInv
<1>3. /\ dataSize \in Nat /\ HeaderSize \in Nat /\ ShaSize \in Nat
      /\ ChunkSize \in Nat /\ HeaderSize < ChunkSize
  BY <1>2, Numbers, Sizes
<1>4. WriteTypeOK'
  <2>1. Room' = ChunkSize - HeaderSize
    BY <1>1 DEF Room, Offset
  <2>2. Len(buffer') <= Room' /\ totalRead' \in 0 .. dataSize' + ShaSize /\ i' \in Nat
    BY <1>1, <1>3, <2>1
  <2>3. attempts' \in 0..MaxAttempts
    BY <1>1, WriteDataAssumption
  <2>4. QED
    BY <1>1, <1>2, <2>2, <2>3 DEF WriteTypes, WriteTypeOK
<1>5. WriteTypes'
  BY <1>1, <1>2, <1>4 DEF WriteTypes
<1>6. NotYet'
  BY <1>1, <1>2, SameFile DEF NotYet
<1>7. Done'
  BY <1>1, <1>2, SameFile DEF Done, HeaderIs, LoopAt
<1>8. LoopAt' \notin Rounds
  BY <1>1 DEF Rounds, LoopAt
<1>9. QED
  BY <1>5, <1>6, <1>7, <1>8 DEF WriteInv, Position, Written

LEMMA SlotBlockFrame ==
  ASSUME UNCHANGED <<slot, dataSize>>
  PROVE  SlotBlock' = SlotBlock /\ NewEntry' = NewEntry /\ OldEntry' = OldEntry
  BY DEF SlotBlock, NewEntry, OldEntry, Holds, Block, Bytes

LEMMA PowerOnInv ==
  ASSUME UpgradeInv, PowerOn
  PROVE  UpgradeInv'
<1>1. /\ phase = "write" /\ phase' = "boot"
      /\ apps' = [apps EXCEPT !["slot2"] = SlotBlock]
      /\ main' = IF wpc = "returned" THEN <<NewEntry>> ELSE main
      /\ backup' = backup /\ quiet' = quiet /\ wpc' = wpc
      /\ UNCHANGED <<cores, id, go0, go1, low, high, choice>>
      /\ UNCHANGED <<slot, dataSize>>
  BY DEF PowerOn
<1>2. Waiting /\ WriteInv
  BY <1>1 DEF UpgradeInv
<1>3. WriteInv'
  BY <1>2, PowerOnWrite
<1>4. SlotBlock' = SlotBlock /\ NewEntry' = NewEntry /\ OldEntry' = OldEntry
  BY <1>1, SlotBlockFrame
<1>5. OldEntry \in Entries /\ NewEntry \in Entries
  BY <1>2, EntryTypes DEF WriteInv, WriteTypes
<1>6. KbootInv'
  <2>1. SectorsOK'
    BY <1>1, <1>2, <1>5, OneEntrySector DEF SectorsOK, Waiting
  <2>2. Reset'
    BY <1>1, <1>2 DEF Waiting, Reset, cores, choice
  <2>3. (Reset /\ SectorsOK => KbootInv)'
    BY ResetInv, PTL
  <2>4. QED
    BY <2>1, <2>2, <2>3
<1>7. Upgraded'
  <2>1. apps'["slot1"] = Installed /\ apps'["slot2"] = SlotBlock
    BY <1>1, <1>2, UpgradeBootAssumption DEF Waiting
  <2>2. Installed' = Installed
    BY DEF Installed
  <2>3. QED
    BY <1>1, <1>2, <1>4, <2>1, <2>2 DEF Upgraded, Waiting
<1>8. QED
  BY <1>1, <1>3, <1>6, <1>7 DEF UpgradeInv

LEMMA UpgradedFrame ==
  ASSUME Upgraded, UNCHANGED flash, UNCHANGED wvars
  PROVE  Upgraded'
<1>1. SlotBlock' = SlotBlock /\ NewEntry' = NewEntry /\ OldEntry' = OldEntry
  BY SlotBlockFrame DEF wvars
<1>2. QED
  BY <1>1 DEF Upgraded, Installed, flash, wvars

LEMMA CoreStepInv ==
  ASSUME UpgradeInv, NEW c \in Cores, CoreStep(c)
  PROVE  UpgradeInv'
<1>1. phase # "write" /\ phase' = phase /\ Step(c) /\ UNCHANGED wvars
  BY DEF CoreStep
<1>2. KbootInv' /\ UNCHANGED flash
  BY <1>1, StepInv, StepChoice DEF UpgradeInv
<1>3. WriteInv'
  BY <1>1, WriteStutterInv DEF UpgradeInv
<1>4. QED
  BY <1>1, <1>2, <1>3, UpgradedFrame DEF UpgradeInv

LEMMA UpgradeStutterInv ==
  ASSUME UpgradeInv, UNCHANGED allVars
  PROVE  UpgradeInv'
<1>1. UNCHANGED vars /\ UNCHANGED wvars /\ phase' = phase
  BY DEF allVars
<1>2. KbootInv' /\ WriteInv'
  BY <1>1, StutterInv, WriteStutterInv DEF UpgradeInv
<1>3. phase = "boot" => Upgraded'
  BY <1>1, UpgradedFrame DEF UpgradeInv, vars
<1>4. phase = "write" => Waiting'
  BY <1>1 DEF UpgradeInv, Waiting, Reset, OldEntry, vars, flash, cores, choice
<1>5. QED
  BY <1>1, <1>2, <1>3, <1>4 DEF UpgradeInv

LEMMA UpgradeInvariance == UpgradeSpec => []UpgradeInv
<1>1. UpgradeInv /\ [UpgradeNext]_allVars => UpgradeInv'
  BY WriteStepInv, PowerOnInv, CoreStepInv, UpgradeStutterInv DEF UpgradeNext
<1>2. QED
  BY <1>1, UpgradeInitInv, PTL DEF UpgradeSpec

----------------------------------------------------------------------------
(* The theorems.                                                           *)

\* write_data and both cores stay in their types.
THEOREM UpgradeTypes == UpgradeSpec => []UpgradeTypeOK
<1>1. UpgradeInv => UpgradeTypeOK
  BY WriteInvImplies DEF UpgradeInv, UpgradeTypeOK, KbootInv
<1>2. QED
  BY <1>1, UpgradeInvariance, PTL

\* Core 0 overwrites an end of SRAM only while core 1 waits at the other end.
THEOREM OverwritesAloneHolds == UpgradeSpec => []OverwritesAlone
<1>1. UpgradeInv => OverwritesAlone
  BY InvOverwritesAlone DEF UpgradeInv
<1>2. QED
  BY <1>1, UpgradeInvariance, PTL

\* No core runs in code that is not there.
THEOREM RunsWholeCodeHolds == UpgradeSpec => []RunsWholeCode
<1>1. UpgradeInv => RunsWholeCode
  BY InvRunsWholeCode DEF UpgradeInv
<1>2. QED
  BY <1>1, UpgradeInvariance, PTL

\* A write_data that returns without an empty read has written the whole block.
THEOREM ReturnedIsWholeHolds == UpgradeSpec => []ReturnedIsWhole
<1>1. UpgradeInv => ReturnedIsWhole
  BY WriteInvImplies DEF UpgradeInv
<1>2. QED
  BY <1>1, UpgradeInvariance, PTL

\* The slot does not pass for the new firmware before a call has written its last
\* chunk.
THEOREM TornUntilWrittenHolds == UpgradeSpec => []TornUntilWritten
<1>1. UpgradeInv => TornUntilWritten
  BY WriteInvImplies DEF UpgradeInv
<1>2. QED
  BY <1>1, UpgradeInvariance, PTL

\* No chunk behind the slot is erased.
THEOREM StaysInSlotHolds == UpgradeSpec => []StaysInSlot
<1>1. UpgradeInv => StaysInSlot
  BY WriteInvImplies DEF UpgradeInv
<1>2. QED
  BY <1>1, UpgradeInvariance, PTL

\* The boot after an upgrade starts the new firmware or the one it replaces, and
\* never halts.
THEOREM UpgradeOrOldHolds == UpgradeSpec => []UpgradeOrOld
<1>1. UpgradeInv => UpgradeOrOld
  <2>1. SUFFICES ASSUME UpgradeInv, phase = "boot"
        PROVE  /\ pc[0] # "halt"
               /\ stage[0] = "app" =>
                    low = IF wpc = "returned" /\ holes = 0 /\ dataSize >= MinSize
                          THEN "slot2" ELSE "slot1"
    BY DEF UpgradeOrOld
  <2>2. KbootInv /\ WriteInv /\ Upgraded
    BY <2>1 DEF UpgradeInv
  <2>3. Allowed = {IF wpc = "returned" /\ holes = 0 /\ dataSize >= MinSize
                   THEN "slot2" ELSE "slot1"}
    BY <2>2, UpgradedChoice
  <2>4. Default \notin Allowed
    BY <2>3, UpgradeBootAssumption
  <2>5. pc[0] # "halt"
    <3>1. pc[0] = "halt" => stage[0] = "hi"
      BY <2>2 DEF KbootInv, KbootTypeOK, Sync, LabelsFit, SharedLabels, LoWork, Stages, Cores
    <3>2. QED
      BY <2>2, <2>4, <3>1 DEF KbootInv, Choosing, Cores
  <2>6. stage[0] = "app" => low \in Allowed
    BY <2>2 DEF KbootInv, Sync, Memory, Choosing, Chosen, Cores
  <2>7. QED
    BY <2>3, <2>5, <2>6
<1>2. QED
  BY <1>1, UpgradeInvariance, PTL

\* Whatever the upgrade left and however the cores interleave, they make one
\* choice, and one that BootChoice allows.
THEOREM UpgradeImplementsBootChoice == UpgradeSpec => ImplementsBootChoice
<1> DEFINE result == IF phase = "write" THEN "off" ELSE Outcome
<1>1. UpgradeInit => Choice!Init
  BY DEF UpgradeInit, Init, Reset, Choice!Init, Outcome, Cores
<1>2. UpgradeInv /\ [UpgradeNext]_allVars =>
        [Choice!PowerOn \/ Choice!Boot]_<<main, backup, apps, quiet, result>>
  <2>1. SUFFICES ASSUME UpgradeInv, [UpgradeNext]_allVars
        PROVE  \/ Choice!PowerOn \/ Choice!Boot
               \/ UNCHANGED <<main, backup, apps, quiet, result>>
    OBVIOUS
  <2>2. CASE WriteStep \/ UNCHANGED allVars
    BY <2>2 DEF WriteStep, allVars, vars, flash, cores, Outcome
  <2>3. CASE PowerOn
    <3>1. Reset /\ phase = "write" /\ phase' = "boot" /\ UNCHANGED <<quiet, cores>>
      BY <2>1, <2>3 DEF PowerOn, UpgradeInv, Waiting
    <3>2. Outcome' = None
      BY <3>1 DEF Reset, Outcome, cores, Cores
    <3>3. QED
      BY <3>1, <3>2 DEF Choice!PowerOn
  <2>4. ASSUME NEW c \in Cores, CoreStep(c)
        PROVE  Choice!Boot \/ UNCHANGED <<main, backup, apps, quiet, result>>
    <3>1. phase # "write" /\ phase' = phase /\ Step(c) /\ KbootInv
      BY <2>1, <2>4 DEF CoreStep, UpgradeInv
    <3>2. /\ UNCHANGED flash
          /\ \/ Outcome' = Outcome
             \/ Outcome = None /\ \E a \in Allowed : Outcome' = Boot!OrDefault(a)
      BY <3>1, StepChoice
    <3>3. Allowed = {Choice!Automatic} \cup (IF quiet THEN {} ELSE Choice!Interactive)
      BY DEF Allowed, Offered, Boot!Automatic, Choice!Automatic, Boot!Interactive,
         Choice!Interactive, Boot!First, Choice!First, Boot!GoodOnes, Choice!GoodOnes,
         Boot!ActiveOnes, Choice!ActiveOnes, Boot!Good, Choice!Good
    <3>4. \A a : Boot!OrDefault(a) = Choice!OrDefault(a)
      BY DEF Boot!OrDefault, Choice!OrDefault
    <3>5. QED
      BY <3>1, <3>2, <3>3, <3>4 DEF Choice!Boot, flash
  <2>5. QED
    BY <2>1, <2>2, <2>3, <2>4 DEF UpgradeNext
<1>3. QED
  BY <1>1, <1>2, UpgradeInvariance, PTL DEF UpgradeSpec, ImplementsBootChoice, Choice!Spec
=============================================================================
