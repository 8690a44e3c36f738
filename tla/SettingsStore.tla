--------------------------- MODULE SettingsStore ---------------------------
(***************************************************************************)
(* The settings of the device: Store and Setting (settings.py) and the     *)
(* page that edits and saves them (pages/settings_page.py).                *)
(*                                                                         *)
(* The settings live in RAM and, as one JSON file, in one of two places:   *)
(* the internal flash or the card.  One of them, persist.location, says    *)
(* which place; the others are one value here, with a default that is      *)
(* never stored.  The user edits, leaves the page, sets a tamper check     *)
(* code or restores the factory settings, while the card is pulled and put *)
(* back and the power goes at any step, a write included.  A card that is  *)
(* put back answers only after SDHandler remounts it or the device boots.  *)
(***************************************************************************)
CONSTANTS
  Values,    \* the values of the other settings
  Default,   \* the one among them that is not stored
  None,      \* no settings file
  Torn       \* a settings file whose write did not complete

Places == {"flash", "sd"}
Contents == [loc : Places, val : Values]
Defaults == [loc |-> "flash", val |-> Default]   \* the JSON text "{}"

ASSUME SettingsAssumption ==
  /\ Default \in Values
  /\ None # Torn
  /\ {None, Torn} \cap Contents = {}

VARIABLES
  files,    \* settings.json in each place
  card,     \* "in": answers through /sd; "out"; "unmounted": put back
  ram,      \* Store.settings
  dirty,    \* Store.dirty
  where,    \* Store.file_location
  pc,       \* "off", "page", "write", "restore", "restored"
  acked,    \* history: what was last loaded or stored, until it is replaced
  moved,    \* history: the location was set, or the files removed, since
  unseen,   \* history: the card has a file that the program could not reach
  failed    \* history: a write failed and dirty was cleared all the same

vars == <<files, card, ram, dirty, where, pc, acked, moved, unseen, failed>>

\* The type of each variable.
TypeOK ==
  /\ files \in [Places -> Contents \cup {None, Torn}]
  /\ card \in {"in", "out", "unmounted"}
  /\ ram \in Contents /\ where = ram.loc
  /\ {dirty, moved, unseen, failed} \subseteq BOOLEAN
  /\ pc \in {"off", "page", "write", "restore", "restored"}
  /\ acked \in Contents \cup {None}
----------------------------------------------------------------------------
\* Loading at boot.  Every card in the slot is mounted by then.

Reachable(p) == p = "flash" \/ card = "in"

LoadSettings(p, old) ==
  IF files[p] \in Contents THEN files[p] ELSE old

\* What Store.__init__ makes of the files, with the card in the slot or not.
Load ==
  LET first == IF card = "out" THEN Defaults ELSE LoadSettings("sd", Defaults)
  IN  IF first.loc = "sd" THEN first ELSE LoadSettings("flash", first)

PowerOn ==
  /\ pc = "off"
  /\ pc' = "page"
  /\ card' = IF card = "out" THEN "out" ELSE "in"
  /\ ram' = Load /\ where' = Load.loc
  /\ dirty' = FALSE /\ failed' = FALSE
  /\ unseen' = (unseen \/ (card = "out" /\ files["sd"] # None))
  /\ acked' = Load /\ moved' = FALSE
  /\ UNCHANGED files
----------------------------------------------------------------------------
\* Editing.

\* Setting.__set__ of any setting but the location, at its own namespace:
\* Store.delete marks the store dirty even when there is nothing to delete.
SetValue(v) ==
  /\ pc = "page"
  /\ ram' = [loc |-> ram.loc, val |-> v]
  /\ dirty' = (dirty \/ v = Default \/ v # ram.val)
  /\ UNCHANGED <<files, card, where, pc, acked, moved, unseen, failed>>

Other(p) == CHOOSE q \in Places : q # p

\* Mutants: the file at the old place is left where it is; the file at the
\* new place is the one removed.
SetLocationKeeps(p) ==
  /\ pc = "page"
  /\ where' = p
  /\ ram' = [loc |-> p, val |-> ram.val]
  /\ dirty' = (dirty \/ p = "flash" \/ p # ram.loc)
  /\ unseen' = FALSE /\ moved' = TRUE
  /\ UNCHANGED <<files, card, pc, acked, failed>>

SetLocationSwapped(p) ==
  /\ pc = "page"
  /\ where' = p
  /\ ram' = [loc |-> p, val |-> ram.val]
  /\ dirty' = (dirty \/ p = "flash" \/ p # ram.loc)
  /\ files' = IF Reachable(p) THEN [files EXCEPT ![p] = None] ELSE files
  /\ unseen' = FALSE /\ moved' = TRUE
  /\ UNCHANGED <<card, pc, acked, failed>>

\* Setting.__set__ of persist.location: update_file_location removes the file
\* at the other place, if it can, before anything is stored at the new one.
SetLocation(p) ==
  /\ pc = "page"
  /\ where' = p
  /\ ram' = [loc |-> p, val |-> ram.val]
  /\ dirty' = (dirty \/ p = "flash" \/ p # ram.loc)
  /\ files' = IF Reachable(Other(p)) THEN [files EXCEPT ![Other(p)] = None]
              ELSE files
  /\ unseen' = (p = "flash" /\ files'["sd"] # None)
  /\ moved' = TRUE
  /\ UNCHANGED <<card, pc, acked, failed>>
----------------------------------------------------------------------------
\* Saving.

\* The text save_settings compares with; a file it cannot open counts as "{}".
OldContents(mounted) ==
  IF (where = "flash" \/ mounted) /\ files[where] # None
  THEN files[where] ELSE Defaults

\* Mutant: skips the write when the settings are the defaults.
SaveSettingsNoDefaults(r, d, mounted) ==
  \/ /\ d => (r = OldContents(mounted) \/ r.val = Default)
     /\ dirty' = FALSE
     /\ UNCHANGED <<files, pc, acked, failed>>
  \/ /\ d /\ r # OldContents(mounted) /\ r.val # Default
     /\ where = "flash" \/ mounted
     /\ files' = [files EXCEPT ![where] = Torn]
     /\ pc' = "write" /\ acked' = None
     /\ dirty' = d
     /\ UNCHANGED failed

\* Store.save_settings of r up to the open that truncates the file.
SaveSettings(r, d, mounted) ==
  \/ /\ d => r = OldContents(mounted)
     /\ dirty' = FALSE
     /\ UNCHANGED <<files, pc, acked, failed>>
  \/ /\ d /\ r # OldContents(mounted)
     /\ where = "flash" \/ mounted
     /\ files' = [files EXCEPT ![where] = Torn]
     /\ pc' = "write" /\ acked' = None
     /\ dirty' = d
     /\ UNCHANGED failed
  \/ /\ d /\ r # OldContents(mounted)
     /\ where = "sd" /\ ~mounted
     /\ dirty' = FALSE /\ failed' = TRUE
     /\ UNCHANGED <<files, pc, acked>>

\* _settings_exit_check, and the reboot after a change of theme: on the card
\* the settings are saved after a remount, or not at all and with a message.
Exit ==
  /\ pc = "page"
  /\ UNCHANGED <<ram, where, moved, unseen>>
  /\ IF ram.loc = "sd" /\ card = "out"
     THEN UNCHANGED <<files, card, dirty, pc, acked, failed>>
     ELSE /\ card' = IF ram.loc = "sd" THEN "in" ELSE card
          /\ SaveSettings(ram, dirty, ram.loc = "sd")

\* enter_modify_tc_code turns boot_flash_hash on and saves without a remount.
SaveFlashHash(v) ==
  /\ pc = "page" /\ v \notin {ram.val, Default}
  /\ ram' = [loc |-> ram.loc, val |-> v]
  /\ SaveSettings(ram', TRUE, card = "in")
  /\ UNCHANGED <<card, where, moved, unseen>>

\* The write and the close, and the message that the settings are stored.
WriteDone ==
  /\ pc = "write" /\ Reachable(where)
  /\ files' = [files EXCEPT ![where] = ram]
  /\ acked' = ram /\ moved' = FALSE
  /\ dirty' = FALSE /\ failed' = FALSE
  /\ pc' = "page"
  /\ UNCHANGED <<card, ram, where, unseen>>

\* The write raises: the card is gone or the file system is full.
WriteFails ==
  /\ pc = "write"
  /\ dirty' = FALSE /\ failed' = TRUE
  /\ pc' = "page"
  /\ UNCHANGED <<files, card, ram, where, acked, moved, unseen>>
----------------------------------------------------------------------------
\* Factory settings: the file on the card, then the file in flash, then boot.

\* Mutant: the card is not mounted again before the removal.
RestoreSdNoRemount ==
  /\ pc = "page"
  /\ files' = IF card # "in" THEN files ELSE [files EXCEPT !["sd"] = None]
  /\ unseen' = (card = "out" /\ files'["sd"] # None)
  /\ moved' = TRUE
  /\ pc' = "restore"
  /\ UNCHANGED <<card, ram, dirty, where, acked, failed>>

RestoreSd ==
  /\ pc = "page"
  /\ card' = IF card = "out" THEN "out" ELSE "in"
  /\ files' = IF card = "out" THEN files ELSE [files EXCEPT !["sd"] = None]
  /\ unseen' = (files'["sd"] # None)
  /\ moved' = TRUE
  /\ pc' = "restore"
  /\ UNCHANGED <<ram, dirty, where, acked, failed>>

RestoreFlash ==
  /\ pc = "restore"
  /\ files' = [files EXCEPT !["flash"] = None]
  /\ pc' = "restored"
  /\ UNCHANGED <<card, ram, dirty, where, acked, moved, unseen, failed>>
----------------------------------------------------------------------------
\* The world.

\* power_manager.reboot, a power loss, the watchdog or the shutdown timer.
PowerOff ==
  /\ pc # "off"
  /\ pc' = "off"
  /\ UNCHANGED <<files, card, ram, dirty, where, acked, moved, unseen, failed>>

CardOut ==
  /\ card # "out"
  /\ card' = "out"
  /\ UNCHANGED <<files, ram, dirty, where, pc, acked, moved, unseen, failed>>

CardIn ==
  /\ card = "out"
  /\ card' = "unmounted"
  /\ UNCHANGED <<files, ram, dirty, where, pc, acked, moved, unseen, failed>>

\* A new device, or one whose settings are in flash or on the card.
Init ==
  /\ pc = "off"
  /\ \E c \in Contents \cup {None} :
       files = [p \in Places |-> IF c \in Contents /\ c.loc = p THEN c ELSE None]
  /\ card \in {"in", "out"}
  /\ ram = Defaults /\ where = "flash" /\ dirty = FALSE
  /\ acked = None /\ moved = FALSE /\ unseen = FALSE /\ failed = FALSE

Next ==
  \/ PowerOn \/ PowerOff \/ CardOut \/ CardIn
  \/ \E v \in Values : SetValue(v) \/ SaveFlashHash(v)
  \/ \E p \in Places : SetLocation(p)
  \/ Exit \/ WriteDone \/ WriteFails
  \/ RestoreSd \/ RestoreFlash

Spec == Init /\ [][Next]_vars
----------------------------------------------------------------------------
\* The two places never both hold readable settings, unless the card's file was out of
\* reach when the other one was chosen (update_file_location, settings.py:244).
OneStore ==
  unseen \/ \E p \in Places : files[p] \notin Contents

\* What was loaded or stored is what the next boot loads, whatever is edited,
\* pulled or cut off meanwhile, until the next save or change of location
\* begins (save_settings and __init__, settings.py).
StoredSurvives ==
  /\ acked # None /\ ~moved /\ ~unseen
  /\ acked.loc = "sd" => card # "out"
  => Load = acked

\* A store that is not dirty has nothing to save: the next boot loads what is
\* in RAM, unless a write failed and was forgotten (settings.py:276).
CleanMeansStored ==
  /\ pc = "page" /\ ~dirty /\ ~failed /\ ~unseen
  /\ ram.loc = "sd" => card # "out"
  => Load = ram

\* After restore_settings the device boots with the defaults, unless the card
\* that holds the settings was out (settings_page.py:118).
RestoreIsComplete ==
  pc = "restored" /\ ~unseen => Load = Defaults
============================================================================
