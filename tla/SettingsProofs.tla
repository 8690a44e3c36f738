--------------------------- MODULE SettingsProofs ---------------------------
(***************************************************************************)
(* What holds of the settings store for every set of values: the four      *)
(* properties of SettingsStore, as parts of one inductive invariant.       *)
(***************************************************************************)
EXTENDS SettingsStore, TLAPS

\* A file is written only where it says it is.
InItsPlace ==
  \A p \in Places : files[p] \in Contents => files[p].loc = p

\* The program stores in one place and, as far as it can see, nothing readable
\* is in the other one.
OtherIsFree ==
  pc \in {"page", "write"} /\ ~unseen => files[Other(where)] \notin Contents

\* What the next boot would find for r: r itself in its place or, for the
\* defaults, which may come from no file at all, nothing readable in flash.
Stored(r) ==
  \/ files[r.loc] = r
  \/ r = Defaults /\ files["flash"] \notin Contents

\* The settings acknowledged to the user are where the next boot looks first.
AckedIsStored ==
  acked # None /\ ~moved /\ ~unseen =>
    Stored(acked) /\ files[Other(acked.loc)] \notin Contents

\* So are the ones in RAM when there is nothing to save.  For settings on the
\* card this does not depend on what was seen: the card's file is read first.
CleanIsStored ==
  pc = "page" /\ ~dirty /\ ~failed /\ (where = "sd" \/ ~unseen) => Stored(ram)

\* The files that restore_settings has removed so far.
Removed ==
  /\ pc \in {"restore", "restored"} => moved /\ (unseen \/ files["sd"] = None)
  /\ pc = "restored" => files["flash"] = None

Inv ==
  /\ TypeOK /\ InItsPlace /\ OneStore
  /\ OtherIsFree /\ AckedIsStored /\ CleanIsStored /\ Removed

----------------------------------------------------------------------------
(* The operators of the model.                                             *)

\* There are two places, and each is the other one of the other.
LEMMA OtherPlace == Other("flash") = "sd" /\ Other("sd") = "flash"
  BY DEF Other, Places

\* The defaults are settings, and a missing or torn file is not.
LEMMA ContentsFacts ==
  /\ Defaults \in Contents /\ Defaults.loc = "flash"
  /\ None \notin Contents /\ Torn \notin Contents
  /\ \A c \in Contents : c.loc \in Places
  BY SettingsAssumption DEF Contents, Defaults, Places

\* Store.__init__ reads the card's file first; the one in flash counts when
\* the card has none that says it is the place.
LEMMA LoadIs ==
  ASSUME TypeOK, InItsPlace
  PROVE  Load = IF card # "out" /\ files["sd"] \in Contents THEN files["sd"]
                ELSE IF files["flash"] \in Contents THEN files["flash"]
                ELSE Defaults
  BY ContentsFacts DEF TypeOK, InItsPlace, Load, LoadSettings, Places

LEMMA LoadType ==
  ASSUME TypeOK, InItsPlace
  PROVE  Load \in Contents
  BY LoadIs, ContentsFacts

\* The boot loads what is stored, when it can read the card that holds it and
\* the other place has nothing.
LEMMA StoredIsLoaded ==
  ASSUME TypeOK, InItsPlace, NEW r \in Contents, Stored(r),
         files[Other(r.loc)] \notin Contents,
         r.loc = "sd" => card # "out"
  PROVE  Load = r
<1>1. CASE r.loc = "sd"
  BY <1>1, LoadIs, OtherPlace, ContentsFacts DEF Stored
<1>2. CASE r.loc = "flash"
  BY <1>2, LoadIs, OtherPlace, ContentsFacts DEF Stored
<1>3. QED
  BY <1>1, <1>2, ContentsFacts DEF Places

----------------------------------------------------------------------------
(* Inv is inductive.                                                       *)

LEMMA InitInv == Init => Inv
<1>1. SUFFICES ASSUME Init PROVE Inv
  OBVIOUS
<1>2. PICK c \in Contents \cup {None} :
        files = [p \in Places |-> IF c \in Contents /\ c.loc = p THEN c ELSE None]
  BY <1>1 DEF Init
<1>3. TypeOK
  BY <1>1, <1>2, ContentsFacts DEF Init, TypeOK
<1>4. InItsPlace /\ OneStore
  BY <1>2, ContentsFacts DEF InItsPlace, OneStore, Places
<1>5. QED
  BY <1>1, <1>3, <1>4
     DEF Init, Inv, OtherIsFree, AckedIsStored, CleanIsStored, Removed

\* The boot: what it loads is stored, and what it could not see is noted.
LEMMA PowerOnInv == Inv /\ PowerOn => Inv'
<1>1. SUFFICES ASSUME Inv, PowerOn PROVE Inv'
  OBVIOUS
<1>2. Load \in Contents
  BY <1>1, LoadType DEF Inv
<1>3. TypeOK' /\ InItsPlace' /\ OneStore'
  BY <1>1, <1>2 DEF Inv, TypeOK, InItsPlace, OneStore, PowerOn
<1>4. ~unseen' => Stored(Load) /\ files[Other(Load.loc)] \notin Contents
  BY <1>1, LoadIs, OtherPlace, ContentsFacts
     DEF Inv, TypeOK, InItsPlace, OneStore, Stored, PowerOn, Places
<1>5. Load.loc = "sd" => Stored(Load)
  BY <1>1, LoadIs, ContentsFacts DEF Inv, InItsPlace, Stored, Places
<1>6. OtherIsFree' /\ AckedIsStored' /\ CleanIsStored' /\ Removed'
  BY <1>1, <1>4, <1>5
     DEF OtherIsFree, AckedIsStored, CleanIsStored, Removed, Stored, PowerOn
<1>7. QED
  BY <1>3, <1>6 DEF Inv

\* A value is edited in RAM: either the store is dirty or nothing changed.
LEMMA SetValueInv == ASSUME Inv, NEW v \in Values, SetValue(v) PROVE Inv'
<1>1. TypeOK'
  BY ContentsFacts DEF Inv, TypeOK, SetValue, Contents
<1>2. ~dirty' => ram' = ram
  BY DEF Inv, TypeOK, SetValue, Contents
<1>3. InItsPlace' /\ OneStore' /\ OtherIsFree' /\ AckedIsStored' /\ Removed'
  BY DEF Inv, InItsPlace, OneStore, OtherIsFree, AckedIsStored, Removed, Stored,
         SetValue
<1>4. CleanIsStored'
  BY <1>2 DEF Inv, CleanIsStored, Stored, SetValue
<1>5. QED
  BY <1>1, <1>3, <1>4 DEF Inv

\* The location is changed: the other place is emptied or, when that place is a
\* card out of reach, marked as unseen.
LEMMA SetLocationInv == ASSUME Inv, NEW p \in Places, SetLocation(p) PROVE Inv'
<1>1. TypeOK'
  BY ContentsFacts DEF Inv, TypeOK, SetLocation, Contents
<1>2. \A q \in Places : files'[q] \in Contents => files[q] = files'[q]
  BY ContentsFacts, OtherPlace DEF Inv, TypeOK, SetLocation, Places
<1>3. ~unseen' => files'[Other(p)] \notin Contents
  BY ContentsFacts, OtherPlace DEF Inv, TypeOK, SetLocation, Reachable, Places
<1>4. InItsPlace' /\ OneStore' /\ OtherIsFree'
  BY <1>2, <1>3, OtherPlace
     DEF Inv, InItsPlace, OneStore, OtherIsFree, SetLocation, Places
<1>5. CleanIsStored'
  <2>1. SUFFICES ASSUME ~dirty', ~failed' PROVE Stored(ram)'
    BY DEF CleanIsStored
  <2>2. p = "sd" /\ ram.loc = "sd" /\ ram' = ram /\ ~dirty /\ ~failed
    BY <2>1 DEF Inv, TypeOK, SetLocation, Contents, Places
  <2>3. files["sd"] = ram
    BY <2>2, ContentsFacts DEF Inv, TypeOK, CleanIsStored, Stored, SetLocation
  <2>4. files'["sd"] = files["sd"]
    BY <2>2, OtherPlace DEF Inv, TypeOK, SetLocation, Places
  <2>5. QED
    BY <2>2, <2>3, <2>4 DEF Stored
<1>6. AckedIsStored' /\ Removed'
  BY DEF AckedIsStored, Removed, SetLocation
<1>7. QED
  BY <1>1, <1>4, <1>5, <1>6 DEF Inv

\* save_settings up to the open: nothing to do, a file torn by the open, or a
\* failure that is forgotten.
LEMMA SaveSettingsInv ==
  ASSUME Inv, pc = "page", NEW d \in BOOLEAN, NEW m \in BOOLEAN,
         SaveSettings(ram', d, m),
         ram' \in Contents, ram'.loc = ram.loc, ~d => ~dirty /\ ram' = ram,
         card' \in {"in", "out", "unmounted"}, UNCHANGED <<where, moved, unseen>>
  PROVE  Inv'
<1>1. where \in Places /\ where = ram.loc /\ files \in [Places -> Contents \cup {None, Torn}]
  BY ContentsFacts DEF Inv, TypeOK
<1>2. CASE (d => ram' = OldContents(m)) /\ dirty' = FALSE
             /\ UNCHANGED <<files, pc, acked, failed>>
  <2>1. d => Stored(ram')
    BY <1>1, <1>2, ContentsFacts, SettingsAssumption DEF OldContents, Stored
  <2>2. CleanIsStored'
    BY <1>2, <2>1 DEF Inv, CleanIsStored, Stored
  <2>3. TypeOK'
    BY <1>2 DEF Inv, TypeOK
  <2>4. QED
    BY <1>2, <2>2, <2>3
       DEF Inv, InItsPlace, OneStore, OtherIsFree, AckedIsStored, Removed, Stored
<1>3. CASE files' = [files EXCEPT ![where] = Torn] /\ pc' = "write" /\ acked' = None
             /\ dirty' = d /\ UNCHANGED failed
  <2>1. TypeOK'
    BY <1>1, <1>3 DEF Inv, TypeOK
  <2>2. \A q \in Places : files'[q] \in Contents => files[q] = files'[q]
    BY <1>1, <1>3, ContentsFacts
  <2>3. InItsPlace' /\ OneStore' /\ OtherIsFree'
    BY <1>1, <1>3, <2>2, OtherPlace DEF Inv, InItsPlace, OneStore, OtherIsFree, Places
  <2>4. AckedIsStored' /\ CleanIsStored' /\ Removed'
    BY <1>3 DEF AckedIsStored, CleanIsStored, Removed
  <2>5. QED
    BY <2>1, <2>3, <2>4 DEF Inv
<1>4. CASE dirty' = FALSE /\ failed' = TRUE /\ UNCHANGED <<files, pc, acked>>
  <2>1. TypeOK'
    BY <1>4 DEF Inv, TypeOK
  <2>2. QED
    BY <1>4, <2>1 DEF Inv, InItsPlace, OneStore, OtherIsFree, AckedIsStored,
       CleanIsStored, Removed, Stored
<1>5. QED
  BY <1>2, <1>3, <1>4 DEF SaveSettings

LEMMA ExitInv == Inv /\ Exit => Inv'
<1>1. SUFFICES ASSUME Inv, Exit PROVE Inv'
  OBVIOUS
<1>2. CASE ram.loc = "sd" /\ card = "out"
  BY <1>1, <1>2 DEF Inv, TypeOK, InItsPlace, OneStore, OtherIsFree, AckedIsStored,
     CleanIsStored, Removed, Stored, Exit
<1>3. CASE ~(ram.loc = "sd" /\ card = "out")
  <2>1. SaveSettings(ram', dirty, ram.loc = "sd")
    BY <1>1, <1>3 DEF Exit
  <2>2. card' \in {"in", "out", "unmounted"} /\ dirty \in BOOLEAN /\ ram \in Contents
    BY <1>1, <1>3 DEF Exit, Inv, TypeOK
  <2>3. QED
    BY <1>1, <2>1, <2>2, SaveSettingsInv DEF Exit
<1>4. QED
  BY <1>2, <1>3

LEMMA SaveFlashHashInv == ASSUME Inv, NEW v \in Values, SaveFlashHash(v) PROVE Inv'
<1>1. ram' \in Contents /\ ram'.loc = ram.loc
  BY ContentsFacts DEF Inv, TypeOK, SaveFlashHash, Contents
<1>2. SaveSettings(ram', TRUE, card = "in")
  BY DEF SaveFlashHash
<1>3. QED
  BY <1>1, <1>2, SaveSettingsInv DEF Inv, TypeOK, SaveFlashHash

\* The write is complete: the other place is free, so the boot finds this one.
LEMMA WriteDoneInv == Inv /\ WriteDone => Inv'
<1>1. SUFFICES ASSUME Inv, WriteDone PROVE Inv'
  OBVIOUS
<1>2. where \in Places /\ where = ram.loc
  BY <1>1, ContentsFacts DEF Inv, TypeOK
<1>3. TypeOK'
  BY <1>1, <1>2 DEF Inv, TypeOK, WriteDone
<1>4. /\ files'[where] = ram
      /\ \A q \in Places : q # where => files'[q] = files[q]
  BY <1>1, <1>2 DEF Inv, TypeOK, WriteDone
<1>5. Other(where) \in Places /\ Other(where) # where
  BY <1>2, OtherPlace DEF Places
<1>6. ~unseen' => files'[Other(where)] \notin Contents
  BY <1>1, <1>4, <1>5 DEF Inv, OtherIsFree, WriteDone
<1>7. InItsPlace' /\ OneStore'
  BY <1>1, <1>2, <1>4, <1>5, <1>6 DEF Inv, InItsPlace, OneStore
<1>8. OtherIsFree' /\ AckedIsStored' /\ CleanIsStored' /\ Removed'
  BY <1>1, <1>2, <1>4, <1>6
     DEF OtherIsFree, AckedIsStored, CleanIsStored, Removed, Stored, WriteDone
<1>9. QED
  BY <1>3, <1>7, <1>8 DEF Inv

\* restore_settings: the card's file first, or the note that it is out of reach.
LEMMA RestoreSdInv == Inv /\ RestoreSd => Inv'
<1>1. SUFFICES ASSUME Inv, RestoreSd PROVE Inv'
  OBVIOUS
<1>2. TypeOK'
  BY <1>1 DEF Inv, TypeOK, RestoreSd
<1>3. \A q \in Places : files'[q] \in Contents => files[q] = files'[q]
  BY <1>1, ContentsFacts DEF Inv, TypeOK, RestoreSd, Places
<1>4. InItsPlace' /\ OneStore'
  BY <1>1, <1>3, ContentsFacts DEF Inv, InItsPlace, OneStore, RestoreSd, Places
<1>5. OtherIsFree' /\ AckedIsStored' /\ CleanIsStored' /\ Removed'
  BY <1>1 DEF OtherIsFree, AckedIsStored, CleanIsStored, Removed, RestoreSd
<1>6. QED
  BY <1>2, <1>4, <1>5 DEF Inv

LEMMA RestoreFlashInv == Inv /\ RestoreFlash => Inv'
<1>1. SUFFICES ASSUME Inv, RestoreFlash PROVE Inv'
  OBVIOUS
<1>2. TypeOK'
  BY <1>1 DEF Inv, TypeOK, RestoreFlash
<1>3. \A q \in Places : files'[q] \in Contents => files[q] = files'[q]
  BY <1>1, ContentsFacts DEF Inv, TypeOK, RestoreFlash, Places
<1>4. InItsPlace' /\ OneStore'
  BY <1>1, <1>3 DEF Inv, InItsPlace, OneStore, RestoreFlash, Places
<1>5. OtherIsFree' /\ AckedIsStored' /\ CleanIsStored' /\ Removed'
  BY <1>1 DEF Inv, TypeOK, OtherIsFree, AckedIsStored, CleanIsStored, Removed,
     RestoreFlash, Places
<1>6. QED
  BY <1>2, <1>4, <1>5 DEF Inv

\* A power loss, the card and a failed write leave the files as they are.
LEMMA WorldInv ==
  Inv /\ (PowerOff \/ CardOut \/ CardIn \/ WriteFails \/ UNCHANGED vars) => Inv'
<1>1. SUFFICES ASSUME Inv, PowerOff \/ CardOut \/ CardIn \/ WriteFails \/ UNCHANGED vars
      PROVE  Inv'
  OBVIOUS
<1>2. TypeOK'
  BY <1>1 DEF Inv, TypeOK, PowerOff, CardOut, CardIn, WriteFails, vars
<1>3. InItsPlace' /\ OneStore' /\ OtherIsFree' /\ AckedIsStored'
  BY <1>1 DEF Inv, InItsPlace, OneStore, OtherIsFree, AckedIsStored, Stored,
     PowerOff, CardOut, CardIn, WriteFails, vars
<1>4. CleanIsStored' /\ Removed'
  BY <1>1 DEF Inv, CleanIsStored, Removed, Stored,
     PowerOff, CardOut, CardIn, WriteFails, vars
<1>5. QED
  BY <1>2, <1>3, <1>4 DEF Inv

LEMMA StepInv == Inv /\ [Next]_vars => Inv'
  BY PowerOnInv, SetValueInv, SetLocationInv, ExitInv, SaveFlashHashInv, WriteDoneInv,
     RestoreSdInv, RestoreFlashInv, WorldInv DEF Next

LEMMA Invariance == Spec => []Inv
  BY InitInv, StepInv, PTL DEF Spec

----------------------------------------------------------------------------

\* The settings store is type correct, and Store.file_location is always the
\* location that the settings in RAM give.
THEOREM TypeCorrect == Spec => []TypeOK
<1>1. Inv => TypeOK
  BY DEF Inv
<1>2. QED
  BY <1>1, Invariance, PTL

\* update_file_location keeps the two places from both holding readable
\* settings, but for a card that was out of reach.
THEOREM OneStoreHolds == Spec => []OneStore
<1>1. Inv => OneStore
  BY DEF Inv
<1>2. QED
  BY <1>1, Invariance, PTL

\* What save_settings acknowledged, or Store.__init__ loaded, is what the next
\* boot loads, whatever happens before the next save begins.
THEOREM StoredSurvivesHolds == Spec => []StoredSurvives
<1>1. Inv => StoredSurvives
  BY StoredIsLoaded DEF Inv, TypeOK, AckedIsStored, StoredSurvives
<1>2. QED
  BY <1>1, Invariance, PTL

\* Store.dirty is right: a store that is not dirty has nothing to save.
THEOREM CleanMeansStoredHolds == Spec => []CleanMeansStored
<1>1. Inv => CleanMeansStored
  BY StoredIsLoaded DEF Inv, TypeOK, OtherIsFree, CleanIsStored, CleanMeansStored
<1>2. QED
  BY <1>1, Invariance, PTL

\* restore_settings leaves nothing that a boot would load, unless the card that
\* holds the settings was out.
THEOREM RestoreIsCompleteHolds == Spec => []RestoreIsComplete
<1>1. Inv => RestoreIsComplete
  BY LoadIs, ContentsFacts DEF Inv, Removed, RestoreIsComplete
<1>2. QED
  BY <1>1, Invariance, PTL
============================================================================
