---------------------------- MODULE KbootProofs ----------------------------
(***************************************************************************)
(* What holds of Kboot for every flash and every pair of boot              *)
(* configuration sectors, however the steps of the two cores interleave:   *)
(* the synchronisation of the cores, and that the choice of an application *)
(* is the one BootChoice allows.  The lemmas are about the steps of a core *)
(* so that UpgradeBootProofs can use them too.                             *)
(***************************************************************************)
EXTENDS Kboot, TLAPS

Boot == INSTANCE BootChoice WITH outcome <- Outcome

USE DEF flash, choice, cores, Cores, Stages, At

----------------------------------------------------------------------------
(* The two cores.                                                          *)

SharedLabels == {"id", "test", "signal", "await1", "await0"}
LoWork == {"copy", "copied"}
HiWork == {"pin", "scan", "found", "ask", "default", "load", "loaded", "halt"}

SectorsOK ==
  /\ main \in Seq(Entries \cup {None}) /\ backup \in Seq(Entries \cup {None})
  /\ quiet \in BOOLEAN

\* Each stage has its own labels.
LabelsFit ==
  \A c \in Cores :
    /\ stage[c] = "lo" => pc[c] \in SharedLabels \cup LoWork
    /\ stage[c] = "hi" => pc[c] \in SharedLabels \cup HiWork
    /\ stage[c] = "app" => pc[c] = "run"

\* A core works only while the other one waits to be released ...
Alone ==
  \A c \in Cores :
    /\ stage[c] = "lo" /\ pc[c] \in LoWork => At(1 - c, "lo", "await1")
    /\ stage[c] = "hi" /\ pc[c] \in HiWork => At(1 - c, "hi", "await1")

\* ... and when it moves on, the other one waits still or has moved on too.
Together ==
  \A c \in Cores :
    /\ stage[c] # "lo" => stage[1 - c] # "lo" \/ At(1 - c, "lo", "await1")
    /\ stage[c] = "app" => stage[1 - c] = "app" \/ At(1 - c, "hi", "await1")

\* What a flag that is set says about the cores.  The flags of stage 1 mean
\* something only once stage 1 has been copied.
FlagsTell ==
  /\ go0["lo"] => \E c \in Cores : At(c, "lo", "await1") \/ stage[c] # "lo"
  /\ go1["lo"] => \E c \in Cores : stage[c] # "lo"
  /\ (\E c \in Cores : stage[c] # "lo") =>
       /\ go0["hi"] => \E c \in Cores : At(c, "hi", "await1") \/ stage[c] = "app"
       /\ go1["hi"] => \E c \in Cores : stage[c] = "app"

\* What is at the two ends of SRAM.
Memory ==
  /\ (\E c \in Cores : stage[c] # "lo") => high = "stage1"
  /\ low = "stage0" \/ \E c \in Cores : At(c, "hi", "loaded") \/ stage[c] = "app"
  /\ (\E c \in Cores : stage[c] = "app") => low = start

Sync == LabelsFit /\ Alone /\ Together /\ FlagsTell /\ Memory

----------------------------------------------------------------------------
(* The choice.                                                             *)

GoodHere == Boot!GoodOnes(Cfg)
ActiveHere == Boot!ActiveOnes(Cfg)
MainGood == Boot!GoodOnes(main)
MainActive == Boot!ActiveOnes(main)
Offered == Boot!Interactive
Allowed == {Boot!Automatic} \cup (IF quiet THEN {} ELSE Offered)

\* The application to start, or Default, is one of those found so far.
StartFound == start = Default \/ \E n \in avail : start = Cfg[n].addr

\* Where the loop over the entries is, and what it has found.
Scanning ==
  /\ id["hi"] \in 1 .. Len(Cfg) + 1
  /\ IF pin
     THEN avail = {n \in GoodHere : n < id["hi"]} /\ StartFound
     ELSE /\ avail = {} /\ start = Default
          /\ \A n \in ActiveHere : n >= id["hi"]

\* What it has found at its end.
Scanned ==
  IF pin
  THEN avail = GoodHere /\ StartFound
  ELSE \/ avail = {} /\ start = Default /\ ActiveHere = {}
       \/ \E n \in ActiveHere :
            /\ avail = {n} /\ start = Cfg[n].addr
            /\ \A m \in ActiveHere : n <= m

\* The backup sector is looked at when the main one has nothing.
MainHasNone ==
  sector = "backup" => IF pin THEN MainGood = {} ELSE MainActive = {}

Asking ==
  /\ pin /\ start \in Offered
  /\ avail = GoodHere
  /\ Cfg = IF MainGood # {} THEN main ELSE backup

\* The application to load may be chosen, and has passed its checks.
Chosen == start \in Allowed /\ (start # Default \/ DefaultOk)

Choosing ==
  \A c \in Cores :
    /\ stage[c] = "hi" =>
         /\ pc[c] = "scan" => Scanning
         /\ pc[c] = "found" => Scanned
         /\ pc[c] \in {"scan", "found"} => MainHasNone
         /\ pc[c] \in {"scan", "found", "ask"} /\ pin => ~quiet
         /\ pc[c] = "ask" => Asking
         /\ pc[c] = "default" => start = Default /\ start \in Allowed
         /\ pc[c] \in {"load", "loaded"} => Chosen
         /\ pc[c] = "halt" => start = Default /\ start \in Allowed /\ ~DefaultOk
    /\ stage[c] = "app" => Chosen

KbootInv == KbootTypeOK /\ SectorsOK /\ Sync /\ Choosing

----------------------------------------------------------------------------
(* Synchronisation is preserved by the steps both stages share ...         *)

LEMMA StoreIdSync ==
  ASSUME KbootTypeOK, Sync, NEW c \in Cores, NEW s \in Stages, StoreId(c, s)
  PROVE  Sync'
<1>1. LabelsFit' /\ Alone'
  BY DEF KbootTypeOK, Sync, LabelsFit, Alone, Together, StoreId, Goto, SharedLabels, LoWork, HiWork
<1>2. Together' /\ FlagsTell' /\ Memory'
  BY DEF KbootTypeOK, Sync, Together, FlagsTell, Memory, StoreId, Goto
<1>3. QED
  BY <1>1, <1>2 DEF Sync

LEMMA TestIdSync ==
  ASSUME KbootTypeOK, Sync, NEW c \in Cores, NEW s \in Stages, TestId(c, s)
  PROVE  Sync'
<1>1. LabelsFit' /\ Alone'
  BY DEF KbootTypeOK, Sync, LabelsFit, Alone, Together, TestId, Goto, SharedLabels, LoWork, HiWork
<1>2. Together' /\ FlagsTell' /\ Memory'
  BY DEF KbootTypeOK, Sync, Together, FlagsTell, Memory, TestId, Goto
<1>3. QED
  BY <1>1, <1>2 DEF Sync

LEMMA SignalSync ==
  ASSUME KbootTypeOK, Sync, NEW c \in Cores, NEW s \in Stages, Signal(c, s)
  PROVE  Sync'
<1>1. LabelsFit' /\ Alone'
  BY DEF KbootTypeOK, Sync, LabelsFit, Alone, Together, Signal, Goto, SharedLabels, LoWork, HiWork
<1>2. Together' /\ FlagsTell' /\ Memory'
  BY DEF KbootTypeOK, Sync, Together, FlagsTell, Memory, Signal, Goto
<1>3. QED
  BY <1>1, <1>2 DEF Sync

LEMMA Await1Sync ==
  ASSUME KbootTypeOK, Sync, NEW c \in Cores, NEW s \in Stages, Await1(c, s)
  PROVE  Sync'
<1>1. CASE s = "lo"
  <2>1. stage[1 - c] # "lo"
    BY <1>1 DEF KbootTypeOK, Sync, FlagsTell, Await1
  <2>2. LabelsFit' /\ Alone'
    BY <1>1, <2>1 DEF KbootTypeOK, Sync, LabelsFit, Alone, Together, Await1, Enter,
       SharedLabels, LoWork, HiWork
  <2>3. Together' /\ FlagsTell' /\ Memory'
    BY <1>1, <2>1 DEF KbootTypeOK, Sync, Together, FlagsTell, Memory, Await1, Enter
  <2>4. QED
    BY <2>2, <2>3 DEF Sync
<1>2. CASE s = "hi"
  <2>1. stage[1 - c] = "app"
    BY <1>2 DEF KbootTypeOK, Sync, FlagsTell, Await1
  <2>2. LabelsFit' /\ Alone'
    BY <1>2, <2>1 DEF KbootTypeOK, Sync, LabelsFit, Alone, Together, Await1, Enter,
       SharedLabels, LoWork, HiWork
  <2>3. Together' /\ FlagsTell' /\ Memory'
    BY <1>2, <2>1 DEF KbootTypeOK, Sync, Together, FlagsTell, Memory, Await1, Enter
  <2>4. QED
    BY <2>2, <2>3 DEF Sync
<1>3. QED
  BY <1>1, <1>2

\* The flag of core 1 is set, so core 1 waits in the same stage.
LEMMA Await0Sync ==
  ASSUME KbootTypeOK, Sync, NEW c \in Cores, NEW s \in Stages, Await0(c, s)
  PROVE  Sync'
<1>1. At(1 - c, s, "await1")
  BY DEF KbootTypeOK, Sync, FlagsTell, Together, Await0
<1>2. LabelsFit' /\ Alone'
  BY <1>1 DEF KbootTypeOK, Sync, LabelsFit, Alone, Together, Await0, Goto,
     SharedLabels, LoWork, HiWork
<1>3. Together' /\ FlagsTell' /\ Memory'
  BY DEF KbootTypeOK, Sync, Together, FlagsTell, Memory, Await0, Goto
<1>4. QED
  BY <1>2, <1>3 DEF Sync

----------------------------------------------------------------------------
(* ... and by the steps of the core that works.                            *)

LEMMA CopyStage1Sync ==
  ASSUME KbootTypeOK, Sync, NEW c \in Cores, CopyStage1(c)
  PROVE  Sync'
<1>1. At(1 - c, "lo", "await1")
  BY DEF Sync, Alone, CopyStage1, LoWork
<1>2. LabelsFit' /\ Alone'
  BY <1>1 DEF KbootTypeOK, Sync, LabelsFit, Alone, CopyStage1, Goto, SharedLabels, LoWork, HiWork
<1>3. Together' /\ FlagsTell' /\ Memory'
  BY <1>1 DEF KbootTypeOK, Sync, Together, FlagsTell, Memory, CopyStage1, Goto
<1>4. QED
  BY <1>2, <1>3 DEF Sync

\* The flags of stage 1 come with the copy, so what the last boot left in them
\* does not count.
LEMMA StartStage1Sync ==
  ASSUME KbootTypeOK, Sync, NEW c \in Cores, StartStage1(c)
  PROVE  Sync'
<1>1. At(1 - c, "lo", "await1")
  BY DEF Sync, Alone, StartStage1, LoWork
<1>2. LabelsFit' /\ Alone'
  BY <1>1 DEF KbootTypeOK, Sync, LabelsFit, Alone, StartStage1, Enter, SharedLabels, LoWork, HiWork
<1>3. Together' /\ FlagsTell' /\ Memory'
  BY <1>1 DEF KbootTypeOK, Sync, Together, FlagsTell, Memory, StartStage1, Enter
<1>4. QED
  BY <1>2, <1>3 DEF Sync

\* A step of the search for an application.
Search(c) ==
  \/ ReadPin(c) \/ ScanEntry(c) \/ EndScan(c) \/ Decide(c) \/ Ask(c) \/ CheckDefault(c)

LEMMA SearchFrame ==
  ASSUME KbootTypeOK, NEW c \in Cores, Search(c)
  PROVE  /\ stage[c] = "hi" /\ pc[c] \in HiWork \ {"load", "loaded", "halt"}
         /\ pc'[c] \in HiWork \ {"pin", "loaded"} /\ pc'[1 - c] = pc[1 - c]
         /\ pc' \in [Cores -> Labels] /\ id'["lo"] = id["lo"]
         /\ UNCHANGED <<flash, stage, go0, go1, low, high>>
<1> USE DEF KbootTypeOK, Goto, HiWork, Labels
<1>1. CASE ReadPin(c)
  BY <1>1 DEF ReadPin
<1>2. CASE ScanEntry(c)
  BY <1>2 DEF ScanEntry
<1>3. CASE EndScan(c)
  BY <1>3 DEF EndScan
<1>4. CASE Decide(c)
  BY <1>4 DEF Decide
<1>5. CASE Ask(c)
  BY <1>5 DEF Ask
<1>6. CASE CheckDefault(c)
  BY <1>6 DEF CheckDefault
<1>7. QED
  BY <1>1, <1>2, <1>3, <1>4, <1>5, <1>6 DEF Search

LEMMA SearchSync ==
  ASSUME KbootTypeOK, Sync, NEW c \in Cores, Search(c)
  PROVE  Sync'
<1>1. At(1 - c, "hi", "await1")
  BY SearchFrame DEF Sync, Alone
<1>2. /\ stage[c] = "hi" /\ pc'[c] \in HiWork \ {"pin", "loaded"}
      /\ pc[c] # "loaded" /\ pc'[1 - c] = pc[1 - c]
      /\ UNCHANGED <<stage, go0, go1, low, high>>
  BY SearchFrame DEF HiWork
<1>3. \A d \in Cores : stage[d] # "app"
  BY <1>1, <1>2
<1>4. LabelsFit' /\ Alone'
  BY <1>1, <1>2 DEF Sync, LabelsFit, Alone, LoWork, HiWork
<1>5. Together' /\ FlagsTell' /\ Memory'
  BY <1>1, <1>2, <1>3 DEF Sync, Together, FlagsTell, Memory
<1>6. QED
  BY <1>4, <1>5 DEF Sync

LEMMA LoadAppSync ==
  ASSUME KbootTypeOK, Sync, NEW c \in Cores, LoadApp(c)
  PROVE  Sync'
<1>1. At(1 - c, "hi", "await1")
  BY DEF Sync, Alone, LoadApp, HiWork
<1>2. LabelsFit' /\ Alone'
  BY <1>1 DEF KbootTypeOK, Sync, LabelsFit, Alone, LoadApp, Goto, SharedLabels, LoWork, HiWork
<1>3. Together' /\ FlagsTell' /\ Memory'
  BY <1>1 DEF KbootTypeOK, Sync, Together, FlagsTell, Memory, LoadApp, Goto
<1>4. QED
  BY <1>2, <1>3 DEF Sync

LEMMA StartAppSync ==
  ASSUME KbootTypeOK, Sync, NEW c \in Cores, StartApp(c)
  PROVE  Sync'
<1>1. At(1 - c, "hi", "await1")
  BY DEF Sync, Alone, StartApp, HiWork
<1>2. LabelsFit' /\ Alone'
  BY <1>1 DEF KbootTypeOK, Sync, LabelsFit, Alone, StartApp, Enter, SharedLabels, LoWork, HiWork
<1>3. Together' /\ FlagsTell' /\ Memory'
  BY <1>1 DEF KbootTypeOK, Sync, Together, FlagsTell, Memory, StartApp, Enter
<1>4. QED
  BY <1>2, <1>3 DEF Sync

LEMMA StepSync ==
  ASSUME KbootTypeOK, Sync, NEW c \in Cores, Step(c)
  PROVE  Sync'
  BY StoreIdSync, TestIdSync, SignalSync, Await1Sync, Await0Sync, CopyStage1Sync,
     StartStage1Sync, SearchSync, LoadAppSync, StartAppSync
     DEF Step, Shared, Work, Search

----------------------------------------------------------------------------
(* The operators of the choice.                                            *)

LEMMA CfgType ==
  ASSUME KbootTypeOK, SectorsOK
  PROVE  Cfg \in Seq(Entries \cup {None}) /\ Len(Cfg) \in Nat
  BY DEF KbootTypeOK, SectorsOK, Cfg

\* Kboot's checks of an entry are BootChoice's.
LEMMA GoodIs ==
  /\ GoodHere = {n \in 1..Len(Cfg) : InRange(Cfg[n]) /\ AppCheck(Cfg[n])}
  /\ ActiveHere = {n \in GoodHere : Cfg[n].active}
  BY DEF GoodHere, ActiveHere, Boot!GoodOnes, Boot!ActiveOnes, Boot!Good, InRange, AppCheck

LEMMA GoodNext == GoodHere' \subseteq 1..Len(Cfg') /\ ActiveHere' \subseteq GoodHere'
  BY DEF GoodHere, ActiveHere, Boot!GoodOnes, Boot!ActiveOnes

LEMMA GoodType ==
  ASSUME KbootTypeOK, SectorsOK
  PROVE  /\ GoodHere \subseteq 1..Len(Cfg) /\ GoodHere \subseteq Nat
         /\ \A n \in GoodHere : Cfg[n] \in Entries /\ Cfg[n].addr \in Addresses
<1>1. \A n \in GoodHere : n \in 1..Len(Cfg) /\ Cfg[n] # None
  BY GoodIs DEF InRange
<1>2. \A n \in 1..Len(Cfg) : Cfg[n] \in Entries \cup {None}
  BY CfgType
<1>3. \A e \in Entries : e.addr \in Addresses
  BY DEF Entries
<1>4. QED
  BY <1>1, <1>2, <1>3, CfgType

LEMMA HereIs ==
  /\ sector = "main" => GoodHere = MainGood /\ ActiveHere = MainActive /\ Cfg = main
  /\ sector # "main" => Cfg = backup
  BY DEF GoodHere, ActiveHere, MainGood, MainActive, Cfg

LEMMA FlashFrame ==
  ASSUME UNCHANGED flash
  PROVE  UNCHANGED <<Allowed, Offered, MainGood, MainActive, DefaultOk>>
  BY DEF Allowed, Offered, MainGood, MainActive, DefaultOk, Boot!Automatic, Boot!Interactive,
     Boot!First, Boot!GoodOnes, Boot!ActiveOnes, Boot!Good

LEMMA CfgFrame ==
  ASSUME UNCHANGED flash, UNCHANGED sector
  PROVE  UNCHANGED <<Cfg, GoodHere, ActiveHere>>
  BY DEF Cfg, GoodHere, ActiveHere, Boot!GoodOnes, Boot!ActiveOnes, Boot!Good

\* The first active entry is the one with the least number.
LEMMA FirstIs ==
  ASSUME NEW s, NEW is \in SUBSET Nat, NEW n \in is, \A m \in is : n <= m
  PROVE  Boot!First(s, is) = s[n].addr
<1>1. \A k \in is : (\A m \in is : k <= m) => k = n
  OBVIOUS
<1>2. (CHOOSE k \in is : \A m \in is : k <= m) = n
  BY <1>1
<1>3. QED
  BY <1>2 DEF Boot!First

\* Without the console, what the scan ends with is what BootChoice wants.
LEMMA ScannedIsAutomatic ==
  ASSUME KbootTypeOK, SectorsOK, Scanned, MainHasNone, ~pin,
         ~(start = Default /\ avail = {} /\ sector = "main")
  PROVE  start \in Allowed
<1>1. ActiveHere \subseteq Nat
  BY GoodType, GoodIs
<1>2. CASE ActiveHere = {}
  <2>1. start = Default /\ avail = {} /\ sector = "backup"
    BY <1>2 DEF Scanned, KbootTypeOK
  <2>2. MainActive = {} /\ Boot!ActiveOnes(backup) = {}
    BY <1>2, <2>1, HereIs DEF MainHasNone, ActiveHere
  <2>3. QED
    BY <2>1, <2>2 DEF Allowed, Boot!Automatic, MainActive
<1>3. CASE ActiveHere # {}
  <2>1. PICK n \in ActiveHere : start = Cfg[n].addr /\ \A m \in ActiveHere : n <= m
    BY <1>3 DEF Scanned
  <2>2. Boot!First(Cfg, ActiveHere) = start
    BY <1>1, <2>1, FirstIs
  <2>3. CASE sector = "main"
    BY <1>3, <2>2, <2>3, HereIs DEF Allowed, Boot!Automatic, MainActive
  <2>4. CASE sector = "backup"
    <3>1. MainActive = {} /\ Boot!ActiveOnes(backup) = ActiveHere /\ Cfg = backup
      BY <2>4, HereIs DEF MainHasNone, ActiveHere
    <3>2. QED
      BY <1>3, <2>2, <3>1 DEF Allowed, Boot!Automatic, MainActive
  <2>5. QED
    BY <2>3, <2>4 DEF KbootTypeOK
<1>4. QED
  BY <1>2, <1>3

\* The console offers the good entries of the sector that has some.
LEMMA OfferedIs ==
  ASSUME Cfg = IF MainGood # {} THEN main ELSE backup
  PROVE  Offered = {Default} \cup {Cfg[n].addr : n \in GoodHere}
  BY DEF Offered, Boot!Interactive, MainGood, GoodHere

\* With the console, the scan ends with a choice to offer, or with none.
LEMMA ScannedIsOffered ==
  ASSUME KbootTypeOK, SectorsOK, Scanned, MainHasNone, pin,
         ~(start = Default /\ avail = {} /\ sector = "main")
  PROVE  start \in Offered /\ (~(start = Default /\ avail = {}) => Asking)
<1>1. avail = GoodHere /\ StartFound
  BY DEF Scanned
<1>2. sector = "main" => MainGood # {}
  BY <1>1, HereIs DEF StartFound
<1>3. sector = "backup" => MainGood = {}
  BY DEF MainHasNone
<1>4. Cfg = IF MainGood # {} THEN main ELSE backup
  BY <1>2, <1>3, HereIs DEF KbootTypeOK
<1>5. start \in Offered
  BY <1>1, <1>4, OfferedIs DEF StartFound
<1>6. QED
  BY <1>1, <1>4, <1>5 DEF Asking

----------------------------------------------------------------------------
(* The types and the choice are preserved.                                 *)

LEMMA SearchAlone ==
  ASSUME KbootInv, NEW c \in Cores, Search(c)
  PROVE  /\ At(1 - c, "hi", "await1") /\ stage[c] = "hi" /\ UNCHANGED <<flash, stage>>
         /\ pc'[1 - c] = pc[1 - c]
         /\ stage' = stage /\ pc' \in [Cores -> Labels]
  BY SearchFrame DEF KbootInv, Sync, Alone

\* What is left to show of a step of the search: the part of its own label.
LEMMA SearchChoosing ==
  ASSUME KbootInv, NEW c \in Cores, Search(c),
         /\ pc'[c] = "scan" => Scanning'
         /\ pc'[c] = "found" => Scanned'
         /\ pc'[c] \in {"scan", "found"} => MainHasNone'
         /\ pc'[c] \in {"scan", "found", "ask"} /\ pin' => ~quiet'
         /\ pc'[c] = "ask" => Asking'
         /\ pc'[c] = "default" => start' = Default /\ start' \in Allowed'
         /\ pc'[c] \in {"load", "loaded"} => Chosen'
         /\ pc'[c] = "halt" => start' = Default /\ start' \in Allowed' /\ ~DefaultOk'
  PROVE  Choosing'
<1>1. At(1 - c, "hi", "await1")' /\ stage'[c] = "hi"
  BY SearchAlone
<1>2. \A d \in Cores : d = c \/ d = 1 - c
  OBVIOUS
<1>3. QED
  BY <1>1, <1>2 DEF Choosing

LEMMA ReadPinInv ==
  ASSUME KbootInv, NEW c \in Cores, ReadPin(c)
  PROVE  KbootTypeOK' /\ Choosing'
<1>1. KbootTypeOK'
  BY KbootAssumption DEF KbootInv, KbootTypeOK, SectorsOK, ReadPin, Goto, Labels
<1>2. Cfg' = main /\ Len(Cfg') \in Nat
  BY DEF KbootInv, SectorsOK, Cfg, ReadPin
<1>3. SectorsOK'
  BY DEF KbootInv, SectorsOK, ReadPin
<1>4. /\ pc'[c] = "scan" /\ sector' = "main" /\ avail' = {} /\ start' = Default
      /\ id'["hi"] = 1 /\ (pin' => ~quiet')
  BY DEF KbootInv, KbootTypeOK, SectorsOK, ReadPin, Goto
<1>5. GoodHere' \subseteq Nat \ {0} /\ ActiveHere' \subseteq GoodHere'
  BY <1>2, GoodNext
<1>6. (\A n \in GoodHere' : ~(n < 1)) /\ (\A n \in ActiveHere' : n >= 1)
  BY <1>5
<1>7. Scanning' /\ MainHasNone'
  BY <1>2, <1>4, <1>6 DEF Scanning, MainHasNone, StartFound
<1>8. QED
  BY <1>1, <1>4, <1>7, SearchChoosing DEF Search

\* One entry more is looked at.
LEMMA ScanEntryInv ==
  ASSUME KbootInv, NEW c \in Cores, ScanEntry(c)
  PROVE  KbootTypeOK' /\ Choosing'
<1> DEFINE n == id["hi"]
           ok == n \in GoodHere /\ (Cfg[n].active \/ pin)
<1>1. KbootTypeOK /\ SectorsOK /\ n \in 1..Len(Cfg) /\ Len(Cfg) \in Nat
  BY CfgType DEF KbootInv, Choosing, Scanning, ScanEntry
<1>2. Scanning /\ MainHasNone /\ (pin => ~quiet)
  BY DEF KbootInv, Choosing, ScanEntry
<1>3. /\ avail' = IF ok THEN avail \cup {n} ELSE avail
      /\ start' = IF ok /\ Cfg[n].active /\ start = Default THEN Cfg[n].addr ELSE start
      /\ id' = [id EXCEPT !["hi"] = n + 1]
      /\ pc' = [pc EXCEPT ![c] = IF ok /\ Cfg[n].active /\ ~pin THEN "found" ELSE "scan"]
  BY <1>1, GoodIs DEF ScanEntry, Goto
<1>4. UNCHANGED <<stage, flash, go0, go1, low, high, pin, sector>>
  BY DEF ScanEntry, Goto
<1>5. UNCHANGED <<Cfg, GoodHere, ActiveHere, MainGood, MainActive>>
  BY <1>4, CfgFrame, FlashFrame
<1>6. KbootTypeOK'
  <2>1. ok => Cfg[n].addr \in Addresses
    BY <1>1, GoodType
  <2>2. start' \in Addresses /\ avail' \subseteq Nat
    BY <1>1, <1>3, <2>1 DEF KbootTypeOK
  <2>3. n + 1 \in Nat
    BY <1>1
  <2>4. id' \in [Stages -> Nat] /\ pc' \in [Cores -> Labels]
    BY <1>1, <1>3, <2>3 DEF KbootTypeOK, Labels
  <2>5. QED
    BY <1>1, <1>4, <2>2, <2>4 DEF KbootTypeOK
<1>7. id'["hi"] = n + 1 /\ pc'[c] = IF ok /\ Cfg[n].active /\ ~pin THEN "found" ELSE "scan"
  BY <1>1, <1>3 DEF KbootTypeOK
<1>8. MainHasNone' /\ (pin' => ~quiet')
  BY <1>2, <1>4, <1>5 DEF MainHasNone
<1>9. GoodHere \subseteq Nat /\ ActiveHere = {k \in GoodHere : Cfg[k].active}
  BY <1>1, GoodType, GoodIs
<1>10. CASE pin
  <2>1. avail = {k \in GoodHere : k < n} /\ StartFound
    BY <1>2, <1>10 DEF Scanning
  <2>2. avail' = {k \in GoodHere : k < n + 1}
    <3>1. \A k \in Nat : k < n + 1 <=> (k < n \/ k = n)
      BY <1>1
    <3>2. avail' = IF n \in GoodHere THEN avail \cup {n} ELSE avail
      BY <1>3, <1>10
    <3>3. \A k : k \in avail' <=> k \in GoodHere /\ (k < n \/ k = n)
      BY <2>1, <3>2
    <3>4. QED
      BY <1>9, <3>1, <3>3
  <2>3. StartFound'
    BY <1>3, <1>5, <2>1 DEF StartFound
  <2>4. n + 1 \in 1 .. Len(Cfg) + 1
    BY <1>1
  <2>5. Scanning'
    BY <1>4, <1>5, <1>7, <1>10, <2>2, <2>3, <2>4 DEF Scanning
  <2>6. QED
    BY <1>6, <1>7, <1>8, <1>10, <2>5, SearchChoosing DEF Search
<1>11. CASE ~pin
  <2>1. avail = {} /\ start = Default /\ \A k \in ActiveHere : k >= n
    BY <1>2, <1>11 DEF Scanning
  <2>2. CASE ok
    <3>1. n \in ActiveHere /\ avail' = {n} /\ start' = Cfg[n].addr /\ pc'[c] = "found"
      BY <1>3, <1>7, <1>9, <1>11, <2>1, <2>2
    <3>2. \A k \in ActiveHere : n <= k
      BY <1>1, <1>9, <2>1
    <3>3. Scanned'
      BY <1>4, <1>5, <1>11, <3>1, <3>2 DEF Scanned
    <3>4. QED
      BY <1>6, <1>8, <3>1, <3>3, SearchChoosing DEF Search
  <2>3. CASE ~ok
    <3>1. n \notin ActiveHere
      BY <1>9, <2>3
    <3>2. \A k \in ActiveHere : k >= n + 1
      BY <1>1, <1>9, <2>1, <3>1
    <3>3. n + 1 \in 1 .. Len(Cfg) + 1
      BY <1>1
    <3>4. Scanning' /\ pc'[c] = "scan"
      BY <1>3, <1>4, <1>5, <1>7, <1>11, <2>1, <2>3, <3>2, <3>3 DEF Scanning
    <3>5. QED
      BY <1>6, <1>8, <3>4, SearchChoosing DEF Search
  <2>4. QED
    BY <2>2, <2>3
<1>12. QED
  BY <1>10, <1>11

LEMMA EndScanInv ==
  ASSUME KbootInv, NEW c \in Cores, EndScan(c)
  PROVE  KbootTypeOK' /\ Choosing'
<1>1. KbootTypeOK /\ SectorsOK /\ Scanning /\ MainHasNone /\ (pin => ~quiet)
  BY DEF KbootInv, Choosing, EndScan
<1>2. /\ pc' = [pc EXCEPT ![c] = "found"] /\ pc'[c] = "found"
      /\ UNCHANGED <<stage, flash, id, go0, go1, low, high, choice>>
  BY <1>1 DEF EndScan, Goto, KbootTypeOK
<1>3. KbootTypeOK'
  BY <1>1, <1>2 DEF KbootTypeOK, Labels
<1>4. UNCHANGED <<Cfg, GoodHere, ActiveHere, MainGood, MainActive>>
  BY <1>2, CfgFrame, FlashFrame
<1>5. Len(Cfg) \in Nat /\ id["hi"] \in Nat /\ id["hi"] > Len(Cfg)
  BY <1>1, CfgType DEF KbootTypeOK, EndScan
<1>6. /\ \A n \in GoodHere : n < id["hi"]
      /\ \A n \in ActiveHere : ~(n >= id["hi"])
  BY <1>1, <1>5, GoodType, GoodIs
<1>7. Scanned
  <2>1. CASE pin
    BY <1>1, <1>6, <2>1 DEF Scanning, Scanned
  <2>2. CASE ~pin
    BY <1>1, <1>6, <2>2 DEF Scanning, Scanned
  <2>3. QED
    BY <2>1, <2>2
<1>8. Scanned' /\ MainHasNone' /\ (pin' => ~quiet')
  BY <1>1, <1>2, <1>4, <1>7 DEF Scanned, StartFound, MainHasNone
<1>9. QED
  BY <1>2, <1>3, <1>8, SearchChoosing DEF Search

\* The backup sector, the console, the default application or the load.
LEMMA DecideInv ==
  ASSUME KbootInv, NEW c \in Cores, Decide(c)
  PROVE  KbootTypeOK' /\ Choosing'
<1> DEFINE nothing == start = Default /\ avail = {}
<1>1. KbootTypeOK /\ SectorsOK /\ Scanned /\ MainHasNone /\ (pin => ~quiet)
  BY DEF KbootInv, Choosing, Decide
<1>2. UNCHANGED <<stage, flash, go0, go1, low, high, pin, avail, start>>
  BY DEF Decide, Goto
<1>3. UNCHANGED <<MainGood, MainActive, Allowed, Offered, DefaultOk>>
  BY <1>2, FlashFrame
<1>4. CASE nothing /\ sector = "main"
  <2>1. sector' = "backup" /\ id' = [id EXCEPT !["hi"] = 1] /\ pc' = [pc EXCEPT ![c] = "scan"]
    BY <1>4 DEF Decide, Goto
  <2>2. KbootTypeOK' /\ id'["hi"] = 1 /\ pc'[c] = "scan"
    BY <1>1, <1>2, <2>1 DEF KbootTypeOK, Labels
  <2>3. IF pin THEN MainGood = {} ELSE MainActive = {}
    BY <1>1, <1>4, HereIs DEF Scanned
  <2>4. Cfg' = backup /\ Len(Cfg') \in Nat
    BY <1>1, <1>2, <2>1 DEF Cfg, SectorsOK
  <2>5. (\A n \in GoodHere' : ~(n < 1)) /\ (\A n \in ActiveHere' : n >= 1)
    BY <2>4, GoodNext
  <2>6. Scanning' /\ MainHasNone'
    BY <1>2, <1>3, <1>4, <2>1, <2>2, <2>3, <2>4, <2>5 DEF Scanning, MainHasNone, StartFound
  <2>7. QED
    BY <1>1, <1>2, <2>2, <2>6, SearchChoosing DEF Search
<1>5. CASE ~(nothing /\ sector = "main")
  <2> DEFINE to == IF ~nothing /\ pin THEN "ask"
                   ELSE IF start = Default THEN "default" ELSE "load"
  <2>1. pc' = [pc EXCEPT ![c] = to] /\ UNCHANGED <<sector, id>>
    BY <1>5 DEF Decide, Goto
  <2>2. KbootTypeOK' /\ pc'[c] = to
    BY <1>1, <1>2, <2>1 DEF KbootTypeOK, Labels
  <2>3. UNCHANGED <<Cfg, GoodHere, ActiveHere>>
    BY <1>2, <2>1, CfgFrame
  <2>4. start \in Allowed
    BY <1>1, <1>5, ScannedIsAutomatic, ScannedIsOffered DEF Allowed
  <2>5. ~nothing /\ pin => Asking'
    BY <1>1, <1>2, <1>3, <1>5, <2>1, <2>3, ScannedIsOffered DEF Asking
  <2>6. start' \in Allowed' /\ (start' # Default => Chosen')
    BY <1>2, <1>3, <2>4 DEF Chosen
  <2>7. QED
    BY <1>1, <1>2, <2>2, <2>5, <2>6, SearchChoosing DEF Search
<1>6. QED
  BY <1>4, <1>5

\* The user's answer is one of the applications offered.
LEMMA AskInv ==
  ASSUME KbootInv, NEW c \in Cores, Ask(c)
  PROVE  KbootTypeOK' /\ Choosing'
<1>1. KbootTypeOK /\ SectorsOK /\ Asking /\ ~quiet
  BY DEF KbootInv, Choosing, Ask, Asking
<1>2. UNCHANGED <<stage, flash, id, go0, go1, low, high, sector, avail>> /\ pin' \in BOOLEAN
  BY DEF Ask, Goto
<1>3. UNCHANGED <<Allowed, Offered, DefaultOk>>
  BY <1>2, FlashFrame
<1>4. start' \in Offered
  BY <1>1, OfferedIs DEF Ask, Asking
<1>5. start' \in Addresses
  BY <1>1, GoodType, KbootAssumption DEF Ask, Asking, KbootTypeOK
<1>6. pc' = [pc EXCEPT ![c] = IF start' = Default THEN "default" ELSE "load"]
  BY DEF Ask, Goto
<1>7. KbootTypeOK' /\ pc'[c] = IF start' = Default THEN "default" ELSE "load"
  BY <1>1, <1>2, <1>5, <1>6 DEF KbootTypeOK, Labels
<1>8. start' \in Allowed' /\ (start' # Default => Chosen')
  BY <1>1, <1>3, <1>4 DEF Allowed, Chosen
<1>9. QED
  BY <1>7, <1>8, SearchChoosing DEF Search

LEMMA CheckDefaultInv ==
  ASSUME KbootInv, NEW c \in Cores, CheckDefault(c)
  PROVE  KbootTypeOK' /\ Choosing'
<1>1. KbootTypeOK /\ start = Default /\ start \in Allowed
  BY DEF KbootInv, Choosing, CheckDefault
<1>2. UNCHANGED <<stage, flash, id, go0, go1, low, high, choice>>
  BY DEF CheckDefault, Goto
<1>3. UNCHANGED <<Allowed, DefaultOk>>
  BY <1>2, FlashFrame
<1>4. pc' = [pc EXCEPT ![c] = IF DefaultOk THEN "load" ELSE "halt"]
  BY DEF CheckDefault, Goto
<1>5. KbootTypeOK' /\ pc'[c] = IF DefaultOk THEN "load" ELSE "halt"
  BY <1>1, <1>2, <1>4 DEF KbootTypeOK, Labels
<1>6. QED
  BY <1>1, <1>2, <1>3, <1>5, SearchChoosing DEF Search, Chosen

\* A step that is none of the search's leaves the choice alone.
Moves(c) ==
  Shared(c) \/ CopyStage1(c) \/ StartStage1(c) \/ LoadApp(c) \/ StartApp(c)

LEMMA MovesType ==
  ASSUME KbootTypeOK, NEW c \in Cores, Moves(c)
  PROVE  KbootTypeOK'
<1>1. ASSUME NEW l \in Labels, Goto(c, l)
      PROVE  stage' \in [Cores -> Stages \cup {"app"}] /\ pc' \in [Cores -> Labels]
  BY <1>1 DEF KbootTypeOK, Goto
<1>2. ASSUME NEW l \in Labels, NEW s \in Stages \cup {"app"}, Enter(c, s, l)
      PROVE  stage' \in [Cores -> Stages \cup {"app"}] /\ pc' \in [Cores -> Labels]
  BY <1>2 DEF KbootTypeOK, Enter
<1>3. ASSUME NEW s \in Stages, StoreId(c, s) \/ TestId(c, s) \/ Signal(c, s)
      PROVE  KbootTypeOK'
  <2>1. stage' \in [Cores -> Stages \cup {"app"}] /\ pc' \in [Cores -> Labels]
    BY <1>1, <1>3 DEF StoreId, TestId, Signal, Labels
  <2>2. id' \in [Stages -> Nat]
    BY <1>3 DEF KbootTypeOK, StoreId, TestId, Signal
  <2>3. go0' \in [Stages -> BOOLEAN]
    <3>1. [go0 EXCEPT ![s] = TRUE] \in [Stages -> BOOLEAN]
      BY DEF KbootTypeOK
    <3>2. QED
      BY <1>3, <3>1 DEF KbootTypeOK, StoreId, TestId, Signal
  <2>4. QED
    BY <1>3, <2>1, <2>2, <2>3 DEF KbootTypeOK, StoreId, TestId, Signal
<1>4. ASSUME NEW s \in Stages, Await1(c, s) \/ Await0(c, s)
      PROVE  KbootTypeOK'
  <2>1. stage' \in [Cores -> Stages \cup {"app"}] /\ pc' \in [Cores -> Labels]
    BY <1>1, <1>2, <1>4 DEF Await1, Await0, Labels
  <2>2. QED
    BY <1>4, <2>1 DEF KbootTypeOK, Await1, Await0
<1>5. ASSUME CopyStage1(c) \/ StartStage1(c)
      PROVE  KbootTypeOK'
  <2>1. stage' \in [Cores -> Stages \cup {"app"}] /\ pc' \in [Cores -> Labels]
    BY <1>1, <1>2, <1>5 DEF CopyStage1, StartStage1, Labels
  <2>2. id' \in [Stages -> Nat]
    BY <1>5 DEF KbootTypeOK, CopyStage1, StartStage1
  <2>3. go0' \in [Stages -> BOOLEAN] /\ go1' \in [Stages -> BOOLEAN]
    <3>1. /\ [go0 EXCEPT !["hi"] = FALSE] \in [Stages -> BOOLEAN]
          /\ [go1 EXCEPT !["lo"] = TRUE, !["hi"] = FALSE] \in [Stages -> BOOLEAN]
      BY DEF KbootTypeOK
    <3>2. QED
      BY <1>5, <3>1 DEF KbootTypeOK, CopyStage1, StartStage1
  <2>4. QED
    BY <1>5, <2>1, <2>2, <2>3 DEF KbootTypeOK, CopyStage1, StartStage1
<1>6. ASSUME LoadApp(c) \/ StartApp(c)
      PROVE  KbootTypeOK'
  <2>1. stage' \in [Cores -> Stages \cup {"app"}] /\ pc' \in [Cores -> Labels]
    BY <1>1, <1>2, <1>6 DEF LoadApp, StartApp, Labels
  <2>2. QED
    BY <1>6, <2>1 DEF KbootTypeOK, LoadApp, StartApp
<1>7. QED
  BY <1>3, <1>4, <1>5, <1>6 DEF Moves, Shared

LEMMA MovesFrame ==
  ASSUME KbootTypeOK, NEW c \in Cores, Moves(c)
  PROVE  /\ UNCHANGED <<flash, choice>>
         /\ stage'[1 - c] = stage[1 - c] /\ pc'[1 - c] = pc[1 - c]
         /\ stage'[c] = "hi" => pc'[c] \in SharedLabels \cup {"pin", "loaded"}
         /\ stage'[c] = "hi" /\ pc'[c] = "loaded" => At(c, "hi", "load")
         /\ stage'[c] = "app" => At(c, "hi", "loaded") \/ (At(c, "hi", "await1") /\ go1["hi"])
         /\ At(c, "hi", "await1") => UNCHANGED id
<1> USE DEF KbootTypeOK, Goto, Enter, SharedLabels
<1>1. CASE Shared(c)
  BY <1>1 DEF Shared, StoreId, TestId, Signal, Await1, Await0
<1>2. CASE CopyStage1(c) \/ StartStage1(c)
  BY <1>2 DEF CopyStage1, StartStage1
<1>3. CASE LoadApp(c) \/ StartApp(c)
  BY <1>3 DEF LoadApp, StartApp
<1>4. QED
  BY <1>1, <1>2, <1>3 DEF Moves

LEMMA MovesInv ==
  ASSUME KbootInv, NEW c \in Cores, Moves(c)
  PROVE  KbootTypeOK' /\ Choosing'
<1>1. KbootTypeOK /\ KbootTypeOK' /\ UNCHANGED <<flash, choice>>
  BY MovesType, MovesFrame DEF KbootInv
<1>2. UNCHANGED <<Cfg, GoodHere, ActiveHere, MainGood, MainActive, Allowed, Offered, DefaultOk>>
  BY <1>1, CfgFrame, FlashFrame
<1>3. UNCHANGED <<StartFound, Scanned, MainHasNone, Asking, Chosen>>
  BY <1>1, <1>2 DEF StartFound, Scanned, MainHasNone, Asking, Chosen
<1>4. UNCHANGED id => UNCHANGED Scanning
  BY <1>1, <1>2, <1>3 DEF Scanning
<1>5. stage[1 - c] = "hi" /\ pc[1 - c] = "scan" => UNCHANGED id
  <2>1. stage[1 - c] = "hi" /\ pc[1 - c] = "scan" => At(1 - (1 - c), "hi", "await1")
    BY DEF KbootInv, Sync, Alone, HiWork
  <2>2. 1 - (1 - c) = c
    OBVIOUS
  <2>3. QED
    BY <1>1, <2>1, <2>2, MovesFrame
<1>6. stage'[c] = "hi" /\ pc'[c] = "loaded" => Chosen'
  BY <1>1, <1>3, MovesFrame DEF KbootInv, Choosing
<1>7. stage'[c] = "app" => Chosen'
  <2>1. CASE At(c, "hi", "loaded")
    BY <1>3, <2>1 DEF KbootInv, Choosing
  <2>2. CASE At(c, "hi", "await1") /\ go1["hi"]
    <3>1. PICK d \in Cores : stage[d] = "app"
      BY <2>2 DEF KbootInv, Sync, FlagsTell
    <3>2. QED
      BY <1>3, <3>1 DEF KbootInv, Choosing
  <2>3. QED
    BY <1>1, <2>1, <2>2, MovesFrame
<1>8. \A d \in Cores : d = c \/ d = 1 - c
  OBVIOUS
<1>9. ASSUME NEW d \in Cores
      PROVE  /\ stage'[d] = "hi" =>
                  /\ pc'[d] = "scan" => Scanning'
                  /\ pc'[d] = "found" => Scanned'
                  /\ pc'[d] \in {"scan", "found"} => MainHasNone'
                  /\ pc'[d] \in {"scan", "found", "ask"} /\ pin' => ~quiet'
                  /\ pc'[d] = "ask" => Asking'
                  /\ pc'[d] = "default" => start' = Default /\ start' \in Allowed'
                  /\ pc'[d] \in {"load", "loaded"} => Chosen'
                  /\ pc'[d] = "halt" =>
                       start' = Default /\ start' \in Allowed' /\ ~DefaultOk'
             /\ stage'[d] = "app" => Chosen'
  <2>1. CASE d = c
    <3>1. stage'[c] = "hi" => pc'[c] \in SharedLabels \cup {"pin", "loaded"}
      BY <1>1, MovesFrame
    <3>2. QED
      BY <1>6, <1>7, <2>1, <3>1 DEF SharedLabels
  <2>2. CASE d = 1 - c
    <3>1. stage'[d] = stage[d] /\ pc'[d] = pc[d]
      BY <1>1, <2>2, MovesFrame
    <3>2. stage[d] = "hi" /\ pc[d] = "scan" => (Scanning => Scanning')
      BY <1>4, <1>5, <2>2
    <3>3. QED
      BY <1>1, <1>2, <1>3, <3>1, <3>2 DEF KbootInv, Choosing
  <2>3. QED
    BY <1>8, <2>1, <2>2
<1>10. QED
  BY <1>1, <1>9 DEF Choosing

\* A step of a core preserves the invariant.
LEMMA StepInv ==
  ASSUME KbootInv, NEW c \in Cores, Step(c)
  PROVE  KbootInv'
<1>1. Search(c) \/ Moves(c)
  BY DEF Step, Work, Search, Moves
<1>2. KbootTypeOK /\ Sync /\ SectorsOK
  BY DEF KbootInv
<1>3. Sync'
  BY <1>2, StepSync
<1>4. SectorsOK'
  BY <1>1, <1>2, SearchFrame, MovesFrame DEF SectorsOK
<1>5. KbootTypeOK' /\ Choosing'
  BY <1>1, ReadPinInv, ScanEntryInv, EndScanInv, DecideInv, AskInv, CheckDefaultInv, MovesInv
     DEF Search
<1>6. QED
  BY <1>3, <1>4, <1>5 DEF KbootInv

\* Reset, with any sectors and flash that are of their types.
LEMMA ResetInv == Reset /\ SectorsOK => KbootInv
<1>1. SUFFICES ASSUME Reset, SectorsOK PROVE KbootInv
  OBVIOUS
<1>2. KbootTypeOK
  BY <1>1, KbootAssumption DEF Reset, KbootTypeOK, Labels
<1>3. Sync
  BY <1>1 DEF Reset, Sync, LabelsFit, Alone, Together, FlagsTell, Memory, SharedLabels, LoWork
<1>4. Choosing
  BY <1>1 DEF Reset, Choosing
<1>5. QED
  BY <1>1, <1>2, <1>3, <1>4 DEF KbootInv

LEMMA InitInv == Init => KbootInv
  BY ResetInv, KbootAssumption DEF Init, SectorsOK

LEMMA StutterInv == KbootInv /\ UNCHANGED vars => KbootInv'
<1>1. SUFFICES ASSUME KbootInv, UNCHANGED vars PROVE KbootInv'
  OBVIOUS
<1>2. UNCHANGED <<Cfg, GoodHere, ActiveHere, MainGood, MainActive, Allowed, Offered, DefaultOk>>
  BY <1>1, CfgFrame, FlashFrame DEF vars
<1>3. UNCHANGED <<StartFound, Scanned, MainHasNone, Asking, Chosen>>
  BY <1>1, <1>2 DEF vars, StartFound, Scanned, MainHasNone, Asking, Chosen
<1>4. UNCHANGED Scanning
  BY <1>1, <1>2, <1>3 DEF vars, Scanning
<1>5. Choosing'
  BY <1>1, <1>2, <1>3, <1>4 DEF vars, KbootInv, Choosing
<1>6. KbootTypeOK' /\ SectorsOK' /\ LabelsFit' /\ Alone' /\ Together' /\ FlagsTell' /\ Memory'
  BY <1>1 DEF vars, KbootInv, KbootTypeOK, SectorsOK, Sync, LabelsFit, Alone, Together,
     FlagsTell, Memory
<1>7. QED
  BY <1>5, <1>6 DEF KbootInv, Sync

LEMMA Invariance == Spec => []KbootInv
<1>1. KbootInv /\ [Next]_vars => KbootInv'
  BY StepInv, StutterInv DEF Next
<1>2. QED
  BY <1>1, InitInv, PTL DEF Spec

----------------------------------------------------------------------------
(* What follows from it.                                                   *)

LEMMA InvOverwritesAlone == KbootInv => OverwritesAlone
  BY DEF KbootInv, Sync, Alone, OverwritesAlone, LoWork, HiWork

LEMMA InvRunsWholeCode == KbootInv => RunsWholeCode
<1>1. SUFFICES ASSUME KbootInv, NEW c \in Cores
      PROVE  /\ stage[c] = "lo" => low = "stage0"
             /\ stage[c] = "hi" => high = "stage1"
             /\ stage[c] = "app" => low \in Addresses
  BY DEF RunsWholeCode
<1>2. stage[c] = "lo" => low = "stage0"
  BY <1>1 DEF KbootInv, Sync, Alone, Together, Memory, HiWork
<1>3. stage[c] = "hi" => high = "stage1"
  BY <1>1 DEF KbootInv, Sync, Memory
<1>4. stage[c] = "app" => low \in Addresses
  BY <1>1 DEF KbootInv, KbootTypeOK, Sync, Memory
<1>5. QED
  BY <1>2, <1>3, <1>4

\* A step of a core is a boot as BootChoice has it, or changes nothing of it.
LEMMA StepChoice ==
  ASSUME KbootInv, NEW c \in Cores, Step(c)
  PROVE  /\ UNCHANGED flash
         /\ \/ Outcome' = Outcome
            \/ Outcome = None /\ \E a \in Allowed : Outcome' = Boot!OrDefault(a)
<1>1. Search(c) \/ Moves(c)
  BY DEF Step, Work, Search, Moves
<1>2. UNCHANGED flash
  BY <1>1, SearchFrame, MovesFrame DEF KbootInv
<1>3. KbootInv'
  BY StepInv
<1>4. UNCHANGED <<Allowed, DefaultOk>>
  BY <1>2, FlashFrame
<1>5. CASE pc[0] # "halt" /\ stage[0] # "app"
  <2>1. Outcome = None
    BY <1>5 DEF Outcome
  <2>2. CASE pc'[0] = "halt"
    <3>1. stage'[0] = "hi"
      BY <1>3, <2>2 DEF KbootInv, KbootTypeOK, Sync, LabelsFit, SharedLabels, LoWork
    <3>2. Default \in Allowed /\ ~DefaultOk
      BY <1>3, <1>4, <2>2, <3>1 DEF KbootInv, Choosing
    <3>3. Boot!OrDefault(Default) = "halt"
      BY <3>2 DEF Boot!OrDefault, DefaultOk
    <3>4. QED
      BY <1>2, <2>1, <2>2, <3>2, <3>3 DEF Outcome
  <2>3. CASE pc'[0] # "halt" /\ stage'[0] = "app"
    <3>1. low' = start' /\ start' \in Allowed /\ (start' # Default \/ DefaultOk)
      BY <1>3, <1>4, <2>3 DEF KbootInv, Sync, Memory, Choosing, Chosen
    <3>2. Boot!OrDefault(start') = start'
      BY <3>1 DEF Boot!OrDefault, DefaultOk
    <3>3. QED
      BY <1>2, <2>1, <2>3, <3>1, <3>2 DEF Outcome
  <2>4. CASE pc'[0] # "halt" /\ stage'[0] # "app"
    BY <1>2, <2>1, <2>4 DEF Outcome
  <2>5. QED
    BY <2>2, <2>3, <2>4
<1>6. CASE pc[0] = "halt"
  <2>1. At(0, "hi", "halt") /\ At(1, "hi", "await1")
    BY <1>6 DEF KbootInv, KbootTypeOK, Sync, LabelsFit, Alone, SharedLabels, LoWork, HiWork
  <2>2. c # 0
    BY <2>1 DEF Step, Shared, Work, StoreId, TestId, Signal, Await1, Await0, CopyStage1,
       StartStage1, ReadPin, ScanEntry, EndScan, Decide, Ask, CheckDefault, LoadApp, StartApp
  <2>3. pc'[0] = pc[0]
    BY <1>1, <2>2, SearchFrame, MovesFrame DEF KbootInv
  <2>4. QED
    BY <1>2, <1>6, <2>3 DEF Outcome
<1>7. CASE pc[0] # "halt" /\ stage[0] = "app"
  <2>1. pc[0] = "run" /\ low = start
    BY <1>7 DEF KbootInv, Sync, LabelsFit, Memory
  <2>2. c # 0
    BY <2>1 DEF Step, Shared, Work, StoreId, TestId, Signal, Await1, Await0, CopyStage1,
       StartStage1, ReadPin, ScanEntry, EndScan, Decide, Ask, CheckDefault, LoadApp, StartApp
  <2>3. pc'[0] = pc[0] /\ stage'[0] = stage[0]
    BY <1>1, <2>2, SearchFrame, MovesFrame DEF KbootInv
  <2>4. stage[1] = "hi" => pc[1] = "await1"
    BY <1>7 DEF KbootInv, Sync, Together
  <2>5. UNCHANGED start
    BY <1>1, <2>2, <2>4, SearchFrame, MovesFrame DEF KbootInv, HiWork
  <2>6. low' = start'
    BY <1>3, <1>7, <2>3 DEF KbootInv, Sync, Memory
  <2>7. QED
    BY <1>2, <1>7, <2>1, <2>3, <2>5, <2>6 DEF Outcome
<1>8. QED
  BY <1>5, <1>6, <1>7

\* Kboot by itself implements BootChoice: whatever the two cores do after a
\* reset, on every flash and with every pair of sectors, the boot comes to one
\* outcome, and to one that app_check and the order of the entries allow.
THEOREM KbootImplementsBootChoice == Spec => Boot!Spec
<1>1. Init => Boot!Init
  BY DEF Init, Reset, Boot!Init, Outcome
<1>2. KbootInv /\ [Next]_vars => [Boot!PowerOn \/ Boot!Boot]_<<main, backup, apps, quiet, Outcome>>
  <2>1. SUFFICES ASSUME KbootInv, [Next]_vars
        PROVE  Boot!Boot \/ UNCHANGED <<main, backup, apps, quiet, Outcome>>
    OBVIOUS
  <2>2. CASE UNCHANGED vars
    BY <2>2 DEF vars, Outcome
  <2>3. CASE Next
    <3>1. PICK c \in Cores : Step(c)
      BY <2>3 DEF Next
    <3>2. /\ UNCHANGED <<main, backup, apps, quiet>>
          /\ \/ Outcome' = Outcome
             \/ Outcome = None /\ \E a \in Allowed : Outcome' = Boot!OrDefault(a)
      BY <2>1, <3>1, StepChoice
    <3>3. QED
      BY <3>2 DEF Boot!Boot, Allowed, Offered
  <2>4. QED
    BY <2>1, <2>2, <2>3
<1>3. QED
  BY <1>1, <1>2, Invariance, PTL DEF Spec, Boot!Spec
=============================================================================
