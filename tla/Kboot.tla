------------------------------- MODULE Kboot -------------------------------
(***************************************************************************)
(* Kboot, the bootloader of the K210, from reset to the first instruction  *)
(* of the application.  Both cores run both stages: stage 0 at the bottom  *)
(* of SRAM copies stage 1 to the top, stage 1 picks an application from    *)
(* the boot configuration and copies it to the bottom, over stage 0.  Core *)
(* 0 does the work, core 1 waits; two flags per stage keep them apart.     *)
(*                                                                         *)
(* The cores tell themselves apart through the static i, which both write  *)
(* and read back (TestId): a data race.  Core 0 also counts with it.  The  *)
(* build is not optimised (-O0 in Kboot/cmake/compile-flags.cmake), so     *)
(* every access of a static is a load or a store of its own.               *)
(*                                                                         *)
(* Data: an application block is what the checks see of it (key byte,      *)
(* size in the header, do SHA-256 and CRC32 match); an entry of a sector   *)
(* is None when its magic number is not there.                             *)
(***************************************************************************)
EXTENDS Integers, Sequences

CONSTANTS
  MinSize, MaxSize,   \* MIN_APP_FLASH_SIZE, MAX_APP_FLASH_SIZE
  Addresses,          \* flash addresses that an entry may give
  Default,            \* DEFAULT_APP_ADDR
  OutOfRange,         \* an address that is not MIN..MAX_APP_FLASH_ADDR
  Sectors,            \* boot configuration sectors: sequences of entries
  Flashes,            \* what the flash may hold at each address
  None                \* no entry; nothing chosen

Blocks == [key : BOOLEAN, size : Nat, sha : BOOLEAN, crc : BOOLEAN]
Entries == [active : BOOLEAN, addr : Addresses, size : Nat, sized : BOOLEAN,
            check : {"sha", "crc", "none"}]

ASSUME KbootAssumption ==
  /\ MinSize \in Nat /\ MaxSize \in Nat
  /\ Default \in Addresses /\ OutOfRange \in Addresses \ {Default}
  /\ Sectors \subseteq Seq(Entries \cup {None})
  /\ \A f \in Flashes : f \in [Addresses -> Blocks]
  /\ None \notin Addresses /\ None \notin Entries

VARIABLES
  main, backup,  \* the boot configuration sectors
  apps,          \* the blocks in flash
  quiet,         \* a magic number behind the entries: no console, no boot pin
  stage, pc,     \* where each core is
  id,            \* the static i of each stage
  go0, go1,      \* core0_sync and core1_sync of each stage
  low, high,     \* the two ends of SRAM: the code there, or "partial"
  pin,           \* boot_pin is low: interactive
  sector,        \* cfg_offset
  avail,         \* available_apps
  start          \* app_flash_start

flash == <<main, backup, apps, quiet>>
choice == <<pin, sector, avail, start>>
cores == <<stage, pc>>
vars == <<flash, cores, id, go0, go1, low, high, choice>>

Cores == {0, 1}
Stages == {"lo", "hi"}
Labels == {"id", "test", "signal", "await1", "await0", "copy", "copied",
           "pin", "scan", "found", "ask", "default", "load", "loaded", "run",
           "halt"}

Cfg == IF sector = "main" THEN main ELSE backup

----------------------------------------------------------------------------
(* Checks of an application.                                               *)

\* app_check.  Without the size flag the size of the header is taken.
AppCheck(e) ==
  LET b == apps[e.addr]
  IN  /\ b.key
      /\ e.sized => e.size = b.size
      /\ e.check = "sha" => b.sha
      /\ e.check = "crc" => b.crc

\* The entry is looked at: magic number, address and size are in range.
InRange(e) == e # None /\ e.addr # OutOfRange /\ e.size \in MinSize..MaxSize

DefaultOk == apps[Default].size \in MinSize..MaxSize /\ apps[Default].sha

----------------------------------------------------------------------------
(* The steps both stages share.                                            *)

At(c, s, label) == stage[c] = s /\ pc[c] = label
Goto(c, label) == pc' = [pc EXCEPT ![c] = label] /\ UNCHANGED stage
Enter(c, s, label) == pc' = [pc EXCEPT ![c] = label] /\ stage' = [stage EXCEPT ![c] = s]

\* i = read_csr(mhartid)
StoreId(c, s) ==
  /\ At(c, s, "id")
  /\ id' = [id EXCEPT ![s] = c]
  /\ Goto(c, "test")
  /\ UNCHANGED <<flash, go0, go1, low, high, choice>>

\* if (i != 0): the static is read back.
TestId(c, s) ==
  /\ At(c, s, "test")
  /\ Goto(c, IF id[s] # 0 THEN "signal" ELSE "await0")
  /\ UNCHANGED <<flash, id, go0, go1, low, high, choice>>

\* "Running on core #1"
Signal(c, s) ==
  /\ At(c, s, "signal")
  /\ go0' = [go0 EXCEPT ![s] = TRUE]
  /\ Goto(c, "await1")
  /\ UNCHANGED <<flash, id, go1, low, high, choice>>

\* "core #0 is done": on to the next stage, or to the application.
Await1(c, s) ==
  /\ At(c, s, "await1")
  /\ go1[s]
  /\ IF s = "lo" THEN Enter(c, "hi", "id") ELSE Enter(c, "app", "run")
  /\ UNCHANGED <<flash, id, go0, go1, low, high, choice>>

\* "wait for synchronization with core #1"
Await0(c, s) ==
  /\ At(c, s, "await0")
  /\ go0[s]
  /\ Goto(c, IF s = "lo" THEN "copy" ELSE "pin")
  /\ UNCHANGED <<flash, id, go0, go1, low, high, choice>>

----------------------------------------------------------------------------
(* Stage 0, core 0.                                                        *)

\* The copy of stage 1 starts.
CopyStage1(c) ==
  /\ At(c, "lo", "copy")
  /\ high' = "partial"
  /\ id' = [id EXCEPT !["lo"] = 0]
  /\ Goto(c, "copied")
  /\ UNCHANGED <<flash, go0, go1, low, choice>>

\* Mutant: the statics of stage 1 keep what the last boot left in them.
StartStage1Stale(c) ==
  /\ At(c, "lo", "copied")
  /\ high' = "stage1"
  /\ go1' = [go1 EXCEPT !["lo"] = TRUE]
  /\ Enter(c, "hi", "id")
  /\ UNCHANGED <<flash, id, go0, low, choice>>

\* The copy is complete, the statics of stage 1 with their initial values
\* included; core 1 is released.
StartStage1(c) ==
  /\ At(c, "lo", "copied")
  /\ high' = "stage1"
  /\ id' = [id EXCEPT !["hi"] = 0]
  /\ go0' = [go0 EXCEPT !["hi"] = FALSE]
  /\ go1' = [go1 EXCEPT !["lo"] = TRUE, !["hi"] = FALSE]
  /\ Enter(c, "hi", "id")
  /\ UNCHANGED <<flash, low, choice>>

----------------------------------------------------------------------------
(* Stage 1, core 0.                                                        *)

\* Mutant: no application to begin with, not even the default one.
ReadPinNoDefault(c) ==
  /\ At(c, "hi", "pin")
  /\ pin' \in {FALSE, ~quiet}
  /\ sector' = "main" /\ start' = None /\ avail' = {}
  /\ id' = [id EXCEPT !["hi"] = 1]
  /\ Goto(c, "scan")
  /\ UNCHANGED <<flash, go0, go1, low, high>>

\* The boot pin is read unless the sector says otherwise.
ReadPin(c) ==
  /\ At(c, "hi", "pin")
  /\ pin' \in {FALSE, ~quiet}
  /\ sector' = "main" /\ start' = Default /\ avail' = {}
  /\ id' = [id EXCEPT !["hi"] = 1]
  /\ Goto(c, "scan")
  /\ UNCHANGED <<flash, go0, go1, low, high>>

\* Mutant: the last active application is taken.
ScanEntryLast(c) ==
  /\ At(c, "hi", "scan")
  /\ id["hi"] <= Len(Cfg)
  /\ LET e == Cfg[id["hi"]]
         checked == InRange(e) /\ (e.active \/ pin)
         ok == checked /\ AppCheck(e)
     IN  /\ avail' = IF ok THEN avail \cup {id["hi"]} ELSE avail
         /\ start' = IF ok /\ e.active THEN e.addr ELSE start
         /\ id' = [id EXCEPT !["hi"] = @ + 1]
         /\ Goto(c, "scan")
  /\ UNCHANGED <<flash, go0, go1, low, high, pin, sector>>

\* One round of the loop over the entries.  All that can be checked are, in
\* interactive mode; otherwise the first good active one ends the loop.
ScanEntry(c) ==
  /\ At(c, "hi", "scan")
  /\ id["hi"] <= Len(Cfg)
  /\ LET e == Cfg[id["hi"]]
         checked == InRange(e) /\ (e.active \/ pin)
         ok == checked /\ AppCheck(e)
     IN  /\ avail' = IF ok THEN avail \cup {id["hi"]} ELSE avail
         /\ start' = IF ok /\ e.active /\ start = Default THEN e.addr ELSE start
         /\ id' = [id EXCEPT !["hi"] = @ + 1]
         /\ Goto(c, IF ok /\ e.active /\ ~pin THEN "found" ELSE "scan")
  /\ UNCHANGED <<flash, go0, go1, low, high, pin, sector>>

\* All entries were looked at.
EndScan(c) ==
  /\ At(c, "hi", "scan")
  /\ id["hi"] > Len(Cfg)
  /\ Goto(c, "found")
  /\ UNCHANGED <<flash, id, go0, go1, low, high, choice>>

\* Mutant: the backup sector is never looked at.
DecideMainOnly(c) ==
  /\ At(c, "hi", "found")
  /\ Goto(c, IF pin /\ avail # {} THEN "ask"
             ELSE IF start = Default THEN "default" ELSE "load")
  /\ UNCHANGED <<flash, id, go0, go1, low, high, choice>>

\* Nothing in the main sector: the backup one.  Nothing there: the default.
Decide(c) ==
  /\ At(c, "hi", "found")
  /\ LET nothing == start = Default /\ avail = {}
     IN  \/ /\ nothing /\ sector = "main"
            /\ sector' = "backup"
            /\ id' = [id EXCEPT !["hi"] = 1]
            /\ Goto(c, "scan")
         \/ /\ ~(nothing /\ sector = "main")
            /\ Goto(c, IF ~nothing /\ pin THEN "ask"
                       ELSE IF start = Default THEN "default" ELSE "load")
            /\ UNCHANGED <<sector, id>>
  /\ UNCHANGED <<flash, go0, go1, low, high, pin, avail, start>>

\* Interactive mode: the pin is read again, then a key is waited for.
Ask(c) ==
  /\ At(c, "hi", "ask")
  /\ \/ pin' = FALSE /\ start' = start
     \/ pin' = TRUE /\ start' \in {Default} \cup {Cfg[n].addr : n \in avail}
  /\ Goto(c, IF start' = Default THEN "default" ELSE "load")
  /\ UNCHANGED <<flash, id, go0, go1, low, high, sector, avail>>

\* The default application has no entry: its size and its hash are checked.
CheckDefault(c) ==
  /\ At(c, "hi", "default")
  /\ Goto(c, IF DefaultOk THEN "load" ELSE "halt")
  /\ UNCHANGED <<flash, id, go0, go1, low, high, choice>>

\* Mutant: core 1 is released before the copy.
LoadAppReleases(c) ==
  /\ At(c, "hi", "load")
  /\ low' = "partial"
  /\ go1' = [go1 EXCEPT !["hi"] = TRUE]
  /\ Goto(c, "loaded")
  /\ UNCHANGED <<flash, id, go0, high, choice>>

\* The copy of the application over stage 0 starts.
LoadApp(c) ==
  /\ At(c, "hi", "load")
  /\ low' = "partial"
  /\ Goto(c, "loaded")
  /\ UNCHANGED <<flash, id, go0, go1, high, choice>>

\* Mutant: core 1 is not released.
StartAppAlone(c) ==
  /\ At(c, "hi", "loaded")
  /\ low' = start
  /\ Enter(c, "app", "run")
  /\ UNCHANGED <<flash, id, go0, go1, high, choice>>

\* The copy is complete; core 1 is released and both jump.
StartApp(c) ==
  /\ At(c, "hi", "loaded")
  /\ low' = start
  /\ go1' = [go1 EXCEPT !["hi"] = TRUE]
  /\ Enter(c, "app", "run")
  /\ UNCHANGED <<flash, id, go0, high, choice>>

----------------------------------------------------------------------------
\* Reset: the ROM has loaded stage 0; the top of SRAM holds whatever the last
\* boot left there.
Reset ==
  /\ stage = [c \in Cores |-> "lo"] /\ pc = [c \in Cores |-> "id"]
  /\ id = [s \in Stages |-> 0]
  /\ \E stale \in BOOLEAN :
       /\ go0 = [s \in Stages |-> s = "hi" /\ stale]
       /\ go1 = [s \in Stages |-> s = "hi" /\ stale]
  /\ low = "stage0" /\ high = "garbage"
  /\ pin = FALSE /\ sector = "main" /\ avail = {} /\ start = Default

Init ==
  /\ main \in Sectors /\ backup \in Sectors
  /\ apps \in Flashes /\ quiet \in BOOLEAN
  /\ Reset

Shared(c) ==
  \E s \in Stages :
    StoreId(c, s) \/ TestId(c, s) \/ Signal(c, s) \/ Await1(c, s) \/ Await0(c, s)

Work(c) ==
  \/ CopyStage1(c) \/ StartStage1(c) \/ ReadPin(c) \/ ScanEntry(c) \/ EndScan(c)
  \/ Decide(c) \/ Ask(c) \/ CheckDefault(c) \/ LoadApp(c) \/ StartApp(c)

Step(c) == Shared(c) \/ Work(c)

Next == \E c \in Cores : Step(c)

Spec == Init /\ [][Next]_vars

----------------------------------------------------------------------------
(* Properties.                                                             *)

\* The variables stay in their types.
KbootTypeOK ==
  /\ stage \in [Cores -> Stages \cup {"app"}] /\ pc \in [Cores -> Labels]
  /\ id \in [Stages -> Nat]
  /\ go0 \in [Stages -> BOOLEAN] /\ go1 \in [Stages -> BOOLEAN]
  /\ low \in {"stage0", "partial"} \cup Addresses
  /\ high \in {"garbage", "partial", "stage1"}
  /\ pin \in BOOLEAN /\ sector \in {"main", "backup"}
  /\ avail \subseteq Nat /\ start \in Addresses

\* Core 0 overwrites an end of SRAM only while core 1 waits in code at the
\* other end, past its own use of the static i that core 0 counts with.
OverwritesAlone ==
  \A c \in Cores :
    /\ At(c, "lo", "copied") => At(1 - c, "lo", "await1")
    /\ At(c, "hi", "scan") \/ At(c, "hi", "loaded") => At(1 - c, "hi", "await1")

\* No core runs in code that is not, or no longer, there.
RunsWholeCode ==
  \A c \in Cores :
    /\ stage[c] = "lo" => low = "stage0"
    /\ stage[c] = "hi" => high = "stage1"
    /\ stage[c] = "app" => low \in Addresses

\* A core that takes the part of the other one.
Confused ==
  \E c \in Cores : pc[c] = IF c = 0 THEN "await1" ELSE "await0"

AllRun == \A c \in Cores : stage[c] = "app"

\* What the boot has come to.
Outcome ==
  IF pc[0] = "halt" THEN "halt" ELSE IF stage[0] = "app" THEN low ELSE None
=============================================================================
