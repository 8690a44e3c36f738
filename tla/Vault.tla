------------------------------- MODULE Vault -------------------------------
(***************************************************************************)
(* The vault of VaultSeed: VaultManager (vault.py), the pages that drive   *)
(* it (pages/vault_pages), the boot loop that runs the pages (boot.py),    *)
(* the RAM state (context.py) and the SD card handler (sd_card.py).        *)
(*                                                                         *)
(* The device is one thread; what interleaves with it is the world: the    *)
(* user answering prompts, the card being pulled, put back, lost or        *)
(* changed for another one, and power failing (or the watchdog or the      *)
(* auto-shutdown timer resetting the CPU) in the middle of a file write.   *)
(* Every file write of the code is one action, and pc names the call that  *)
(* the program is about to make or the prompt that it is waiting in.       *)
(*                                                                         *)
(* Data: a passphrase and a salt determine the cipher key (kef.Cipher); an *)
(* envelope decrypts exactly under the key it was written with; an entry   *)
(* of the manifest carries the id of its secret file and the text that its *)
(* label and hash preview were made for.                                   *)
(***************************************************************************)
EXTENDS Integers, FiniteSets

CONSTANTS
  Passphrases,   \* what a user may type as a passphrase
  Texts,         \* the secrets a user may store
  MaxId,         \* bound: the largest secret id the model hands out
  MaxSalts,      \* bound: how many vaults initialize_vault may create
  MaxFaults,     \* bound: how many power losses, pulls and other cards
  Faults,        \* the faults that may happen, a subset of FaultKinds
  FlashDirs,     \* TRUE: /flash has directories; FALSE: it is flat (SPIFFS)
  InitialCards,  \* the cards the device may be given: "blank", "foreign"
  None,          \* no file, no key, no entry
  Torn           \* the content of a file whose write did not complete

FaultKinds == {"power", "pull", "lose", "swap", "flash"}

Salts == 0..MaxSalts   \* 0 is the salt of a vault made on another device
Ids == 1..MaxId
Entries == [id : Ids, text : Texts]
Keys == [pass : Passphrases, salt : Salts]

MetaFiles == Salts \cup {None, Torn}
ManifestFiles == [key : Keys, entries : SUBSET Entries] \cup {None, Torn}
SecretFiles == [key : Keys, text : Texts] \cup {None, Torn}

ASSUME BoundsAssumption ==
  /\ MaxId \in Nat /\ MaxSalts \in Nat /\ MaxFaults \in Nat
  /\ Faults \subseteq FaultKinds
  /\ FlashDirs \in BOOLEAN
  /\ InitialCards \subseteq {"blank", "foreign"}

ASSUME MarkersAssumption ==
  /\ None # Torn
  /\ None \notin Salts \cup Keys \cup Entries \cup Texts
  /\ Torn \notin Salts
  /\ {None, Torn} \cap [key : Keys, entries : SUBSET Entries] = {}
  /\ {None, Torn} \cap [key : Keys, text : Texts] = {}

VARIABLES
  inserted,    \* a card is in the slot
  mounted,     \* ... and answers through /sd without a remount
  sdDirs, sdMeta, sdManifest, sdSecrets,   \* /sd/vault
  flDirs, flMeta, flManifest, flSecrets,   \* /flash/vault, the mirror
  key,         \* ctx.vault.cipher, None while locked
  manifest,    \* ctx.vault.manifest["secrets"]
  pc,          \* where the program is
  op,          \* the operation save_manifest was called for
  cur,         \* the entry being added, viewed or deleted
  salt,        \* the salt read or made by the unlock page
  cand,        \* the cipher made from the passphrase just typed
  attempts,    \* failed unlock attempts since the metadata was read
  todo,        \* the secret files restore_from_flash has yet to copy
  shown,       \* the text on the screen
  acked,       \* history: secrets reported stored, deletion not confirmed
  salts,       \* history: salts handed out
  faults       \* history: faults so far

card == <<inserted, mounted>>
sd == <<sdDirs, sdMeta, sdManifest, sdSecrets>>
fl == <<flDirs, flMeta, flManifest, flSecrets>>
unlocked == <<key, manifest>>
locals == <<op, cur, salt, cand, attempts, todo, shown>>
hist == <<acked, salts, faults>>
vars == <<card, sd, fl, unlocked, pc, locals, hist>>

Pcs == {"off", "check", "retry", "exists", "askRestore", "restoreDirs",
        "restoreMeta", "restoreManifest", "restoreList", "restoreSecrets",
        "restored", "askCreate", "initSdDirs", "initFlashDirs", "initMeta",
        "initMirror", "newPass", "loadMeta", "askPass", "loadManifest",
        "home", "addSd", "addMirror", "saveSd", "saveMirror", "view",
        "reveal", "qr", "delSd", "delMirror"}

Ops == {"none", "create", "add", "delete"}

----------------------------------------------------------------------------
(* Files.                                                                  *)

\* SDHandler.__enter__ remounts the card; a file opens for writing when the
\* directories are there.
SdWritable == inserted /\ sdDirs
FlashWritable == flDirs \/ ~FlashDirs

\* Mutant: the mirror is written when the vault is made and never again.
MirrorOnce(old, new) == IF old = None THEN {new} ELSE {old}

\* What a best-effort write of the mirror may leave in a file.
MirrorOutcomes(old, new) ==
  IF ~FlashWritable THEN {old}
  ELSE {new} \cup (IF "flash" \in Faults THEN {old, Torn} ELSE {})

\* What SDHandler.file_exists sees: os.stat does not remount.
VaultExistsSd == mounted /\ sdMeta # None
VaultExistsFlash == flMeta # None

IsManifest(f) == f \notin {None, Torn}
Opens(f, k) == f \notin {None, Torn} /\ f.key = k

\* Mutants: the largest id instead of one more; the number of entries.
NextIdIsLast(m) ==
  IF m = {} THEN 1 ELSE CHOOSE i \in {e.id : e \in m} : \A e \in m : e.id <= i
NextIdByCount(m) == 1 + Cardinality(m)

\* next_secret_id: one more than the largest id in use.
NextId(m) ==
  IF m = {} THEN 1
  ELSE 1 + CHOOSE i \in {e.id : e \in m} : \A e \in m : e.id <= i

\* The cipher that save_manifest is given.
Cipher == IF op = "create" THEN cand ELSE key

----------------------------------------------------------------------------
(* The whole of the RAM is lost; the media keep what was written.          *)

ClearRam ==
  /\ key' = None /\ manifest' = {}
  /\ op' = "none" /\ cur' = None /\ salt' = 0 /\ cand' = None
  /\ attempts' = 0 /\ todo' = {} /\ shown' = None

\* ctx.clear() and power_manager.shutdown() at the end of the boot loop.
Shutdown ==
  /\ pc' = "off"
  /\ ClearRam

Goto(label) == pc' = label
GoHome == pc' = "home" /\ op' = "none" /\ cur' = None

TypeOK ==
  /\ inserted \in BOOLEAN /\ mounted \in BOOLEAN
  /\ sdDirs \in BOOLEAN /\ sdMeta \in MetaFiles
  /\ sdManifest \in ManifestFiles /\ sdSecrets \in [Ids -> SecretFiles]
  /\ flDirs \in BOOLEAN /\ flMeta \in MetaFiles
  /\ flManifest \in ManifestFiles /\ flSecrets \in [Ids -> SecretFiles]
  /\ key \in Keys \cup {None} /\ manifest \in SUBSET Entries
  /\ pc \in Pcs /\ op \in Ops
  /\ cur \in Entries \cup {None}
  /\ salt \in Salts /\ cand \in Keys \cup {None}
  /\ attempts \in 0..5 /\ todo \in SUBSET Ids
  /\ shown \in Texts \cup {None}
  /\ acked \in SUBSET [key : Keys, id : Ids, text : Texts]
  /\ salts \in Salts /\ faults \in 0..MaxFaults

\* A blank card, or one that holds an empty vault made on another device.
Init ==
  /\ inserted \in BOOLEAN /\ mounted = FALSE
  /\ \/ /\ "blank" \in InitialCards
        /\ sdDirs = FALSE /\ sdMeta = None /\ sdManifest = None
     \/ /\ "foreign" \in InitialCards
        /\ sdDirs = TRUE /\ sdMeta = 0
        /\ \E p \in Passphrases :
             sdManifest = [key |-> [pass |-> p, salt |-> 0], entries |-> {}]
  /\ sdSecrets = [i \in Ids |-> None]
  /\ flDirs = FALSE /\ flMeta = None /\ flManifest = None
  /\ flSecrets = [i \in Ids |-> None]
  /\ key = None /\ manifest = {}
  /\ pc = "off" /\ op = "none" /\ cur = None /\ salt = 0 /\ cand = None
  /\ attempts = 0 /\ todo = {} /\ shown = None
  /\ acked = {} /\ salts = 0 /\ faults = 0

----------------------------------------------------------------------------
(* boot.py and VaultUnlock.run                                             *)

\* Power-on mounts the card that is in the slot and starts the boot loop.
Boot ==
  /\ pc = "off"
  /\ mounted' = inserted
  /\ Goto("check")
  /\ UNCHANGED <<inserted, sd, fl, unlocked, locals, hist>>

\* _check_sd_card: SDHandler remounts, then raises when there is no card.
CheckSdCard ==
  /\ pc = "check"
  /\ mounted' = inserted
  /\ Goto(IF inserted THEN "exists" ELSE "retry")
  /\ UNCHANGED <<inserted, sd, fl, unlocked, locals, hist>>

\* Its "Retry?" prompt: Yes goes on without looking for the card again.
AnswerRetry ==
  /\ pc = "retry"
  /\ UNCHANGED <<card, sd, fl, hist>>
  /\ \/ Goto("exists") /\ UNCHANGED <<unlocked, locals>>
     \/ Shutdown

\* Mutant: the mirror is not looked at when the card holds no vault.
FindVaultCardOnly ==
  /\ pc = "exists"
  /\ Goto(IF VaultExistsSd THEN "loadMeta" ELSE "askCreate")
  /\ UNCHANGED <<card, sd, fl, unlocked, locals, hist>>

\* The decision of VaultUnlock.run.
FindVault ==
  /\ pc = "exists"
  /\ Goto(CASE VaultExistsSd -> "loadMeta"
            [] ~VaultExistsSd /\ VaultExistsFlash -> "askRestore"
            [] OTHER -> "askCreate")
  /\ UNCHANGED <<card, sd, fl, unlocked, locals, hist>>

AnswerRestore ==
  /\ pc = "askRestore"
  /\ UNCHANGED <<card, sd, fl, hist>>
  /\ \/ Goto("restoreDirs") /\ UNCHANGED <<unlocked, locals>>
     \/ Shutdown

AnswerCreate ==
  /\ pc = "askCreate"
  /\ UNCHANGED <<card, sd, fl, hist>>
  /\ \/ salts < MaxSalts /\ Goto("initSdDirs") /\ UNCHANGED <<unlocked, locals>>
     \/ Shutdown

----------------------------------------------------------------------------
(* restore_from_flash: an exception before the metadata is on the card     *)
(* goes back to the check; the two later parts swallow theirs.             *)

\* Mutant: a failed restore is tried again at once.
RestoreDirsRetries ==
  /\ pc = "restoreDirs"
  /\ \/ mounted /\ sdDirs' = TRUE /\ Goto("restoreMeta")
     \/ ~mounted /\ UNCHANGED <<sdDirs, pc>>
  /\ UNCHANGED <<card, sdMeta, sdManifest, sdSecrets, fl, unlocked, locals, hist>>

RestoreDirs ==
  /\ pc = "restoreDirs"
  /\ \/ mounted /\ sdDirs' = TRUE /\ Goto("restoreMeta")
     \/ ~mounted /\ UNCHANGED sdDirs /\ Goto("check")
  /\ UNCHANGED <<card, sdMeta, sdManifest, sdSecrets, fl, unlocked, locals, hist>>

RestoreMeta ==
  /\ pc = "restoreMeta"
  /\ mounted' = inserted
  /\ \/ SdWritable /\ sdMeta' = flMeta /\ Goto("restoreManifest")
     \/ ~SdWritable /\ UNCHANGED sdMeta /\ Goto("check")
  /\ UNCHANGED <<inserted, sdDirs, sdManifest, sdSecrets, fl, unlocked, locals, hist>>

\* Mutant: the manifest is left out of the restore.
RestoreManifestSkipped ==
  /\ pc = "restoreManifest"
  /\ Goto("restoreList")
  /\ UNCHANGED <<card, sd, fl, unlocked, locals, hist>>

RestoreManifest ==
  /\ pc = "restoreManifest"
  /\ mounted' = IF flManifest = None THEN mounted ELSE inserted
  /\ sdManifest' = IF SdWritable /\ flManifest # None
                     THEN flManifest ELSE sdManifest
  /\ Goto("restoreList")
  /\ UNCHANGED <<inserted, sdDirs, sdMeta, sdSecrets, fl, unlocked, locals, hist>>

\* _ensure_dirs again, os.listdir of the mirror, SDHandler.  A flat /flash
\* lists full names, of which open() then finds none.
RestoreList ==
  /\ pc = "restoreList"
  /\ sdDirs' = (sdDirs \/ mounted)
  /\ \/ /\ mounted /\ FlashDirs /\ flDirs
        /\ todo' = {i \in Ids : flSecrets[i] # None}
        /\ Goto("restoreSecrets")
     \/ /\ ~(mounted /\ FlashDirs /\ flDirs)
        /\ UNCHANGED todo
        /\ Goto("restored")
  /\ UNCHANGED <<card, sdMeta, sdManifest, sdSecrets, fl, unlocked,
                 op, cur, salt, cand, attempts, shown, hist>>

\* One round of the copy loop, in whatever order listdir gave; an error or
\* the end of the list leaves the loop.
RestoreSecrets ==
  /\ pc = "restoreSecrets"
  /\ \/ \E i \in todo :
          /\ mounted /\ sdDirs
          /\ sdSecrets' = [sdSecrets EXCEPT ![i] = flSecrets[i]]
          /\ todo' = todo \ {i}
          /\ UNCHANGED pc
     \/ /\ todo = {} \/ ~(mounted /\ sdDirs)
        /\ todo' = {}
        /\ UNCHANGED sdSecrets
        /\ Goto("restored")
  /\ UNCHANGED <<card, sdDirs, sdMeta, sdManifest, fl, unlocked,
                 op, cur, salt, cand, attempts, shown, hist>>

\* "Vault restored", then the second look for the vault on the card.
Restored ==
  /\ pc = "restored"
  /\ Goto(IF VaultExistsSd THEN "loadMeta" ELSE "check")
  /\ UNCHANGED <<card, sd, fl, unlocked, locals, hist>>

----------------------------------------------------------------------------
(* initialize_vault and _create_new_vault                                  *)

InitSdDirs ==
  /\ pc = "initSdDirs"
  /\ \/ mounted /\ sdDirs' = TRUE /\ Goto("initFlashDirs") /\ UNCHANGED <<unlocked, locals>>
     \/ ~mounted /\ UNCHANGED sdDirs /\ Shutdown
  /\ UNCHANGED <<card, sdMeta, sdManifest, sdSecrets, fl, hist>>

\* os.mkdir on a flat /flash is not implemented and raises.
InitFlashDirs ==
  /\ pc = "initFlashDirs"
  /\ \/ FlashDirs /\ flDirs' = TRUE /\ Goto("initMeta") /\ UNCHANGED <<unlocked, locals>>
     \/ (~FlashDirs \/ "flash" \in Faults) /\ UNCHANGED flDirs /\ Shutdown
  /\ UNCHANGED <<card, sd, flMeta, flManifest, flSecrets, hist>>

InitMeta ==
  /\ pc = "initMeta"
  /\ mounted' = inserted
  /\ salts' = salts + 1
  /\ \/ /\ SdWritable
        /\ sdMeta' = salts + 1
        /\ salt' = salts + 1
        /\ Goto("initMirror")
        /\ UNCHANGED <<unlocked, op, cur, cand, attempts, todo, shown>>
     \/ ~SdWritable /\ UNCHANGED sdMeta /\ Shutdown
  /\ UNCHANGED <<inserted, sdDirs, sdManifest, sdSecrets, fl, acked, faults>>

InitMirror ==
  /\ pc = "initMirror"
  /\ flMeta' \in MirrorOutcomes(flMeta, salt)
  /\ Goto("newPass")
  /\ UNCHANGED <<card, sd, flDirs, flManifest, flSecrets, unlocked, locals, hist>>

\* _get_passphrase(confirm=True); leaving it keeps the metadata written.
NewPassphrase ==
  /\ pc = "newPass"
  /\ UNCHANGED <<card, sd, fl, hist>>
  /\ \/ /\ \E p \in Passphrases : cand' = [pass |-> p, salt |-> salt]
        /\ op' = "create"
        /\ Goto("saveSd")
        /\ UNCHANGED <<unlocked, cur, salt, attempts, todo, shown>>
     \/ Shutdown

----------------------------------------------------------------------------
(* _unlock_existing_vault                                                  *)

LoadMeta ==
  /\ pc = "loadMeta"
  /\ mounted' = inserted
  /\ \/ /\ inserted /\ sdMeta \in Salts
        /\ salt' = sdMeta
        /\ attempts' = 0
        /\ Goto("askPass")
        /\ UNCHANGED <<unlocked, op, cur, cand, todo, shown>>
     \/ ~(inserted /\ sdMeta \in Salts) /\ Shutdown
  /\ UNCHANGED <<inserted, sd, fl, hist>>

\* Mutant: failed attempts are counted and never compared.
EnterPassphraseForever ==
  /\ pc = "askPass"
  /\ UNCHANGED <<card, sd, fl, hist>>
  /\ \/ /\ \E p \in Passphrases : cand' = [pass |-> p, salt |-> salt]
        /\ Goto("loadManifest")
        /\ UNCHANGED <<unlocked, op, cur, salt, attempts, todo, shown>>
     \/ Shutdown

\* _get_passphrase and the key derivation, or ESC, or the fifth failure.
EnterPassphrase ==
  /\ pc = "askPass"
  /\ UNCHANGED <<card, sd, fl, hist>>
  /\ \/ /\ attempts < 5
        /\ \E p \in Passphrases : cand' = [pass |-> p, salt |-> salt]
        /\ Goto("loadManifest")
        /\ UNCHANGED <<unlocked, op, cur, salt, attempts, todo, shown>>
     \/ Shutdown

\* ctx.vault = VaultState(...); the unlock page and its locals are gone.
Unlock(entries) ==
  /\ key' = cand /\ manifest' = entries
  /\ salt' = 0 /\ cand' = None /\ attempts' = 0
  /\ Goto("home")

\* Mutant: a manifest that does not decrypt is an empty one too.
LoadManifestForgives ==
  /\ pc = "loadManifest"
  /\ mounted' = inserted
  /\ Unlock(IF inserted /\ Opens(sdManifest, cand) THEN sdManifest.entries ELSE {})
  /\ UNCHANGED <<inserted, sd, fl, op, cur, todo, shown, hist>>

\* load_manifest: a manifest that cannot be read is an empty one, a
\* manifest that cannot be decrypted is a failed attempt.
LoadManifest ==
  /\ pc = "loadManifest"
  /\ mounted' = inserted
  /\ \/ /\ ~inserted \/ sdManifest = None
        /\ Unlock({})
     \/ /\ inserted /\ Opens(sdManifest, cand)
        /\ Unlock(sdManifest.entries)
     \/ /\ inserted /\ sdManifest # None /\ ~Opens(sdManifest, cand)
        /\ attempts' = attempts + 1
        /\ Goto("askPass")
        /\ UNCHANGED <<unlocked, salt, cand>>
  /\ UNCHANGED <<inserted, sd, fl, op, cur, todo, shown, hist>>

----------------------------------------------------------------------------
(* VaultHome, VaultAdd: save_secret, add_to_manifest, save_manifest        *)

\* ctx.clear(); the boot loop runs the unlock page again.
Lock ==
  /\ pc = "home"
  /\ ClearRam
  /\ Goto("check")
  /\ UNCHANGED <<card, sd, fl, hist>>

AddSecret ==
  /\ pc = "home"
  /\ NextId(manifest) \in Ids
  /\ \E t \in Texts : cur' = [id |-> NextId(manifest), text |-> t]
  /\ op' = "add"
  /\ Goto("addSd")
  /\ UNCHANGED <<card, sd, fl, unlocked, salt, cand, attempts, todo, shown, hist>>

SaveSecretSd ==
  /\ pc = "addSd"
  /\ mounted' = inserted
  /\ \/ /\ SdWritable
        /\ sdSecrets' = [sdSecrets EXCEPT ![cur.id] = [key |-> key, text |-> cur.text]]
        /\ Goto("addMirror")
        /\ UNCHANGED <<op, cur>>
     \/ ~SdWritable /\ UNCHANGED sdSecrets /\ GoHome
  /\ UNCHANGED <<inserted, sdDirs, sdMeta, sdManifest, fl, unlocked,
                 salt, cand, attempts, todo, shown, hist>>

\* The mirror write of save_secret, then add_to_manifest in place.
SaveSecretMirror ==
  /\ pc = "addMirror"
  /\ \E f \in MirrorOutcomes(flSecrets[cur.id], [key |-> key, text |-> cur.text]) :
       flSecrets' = [flSecrets EXCEPT ![cur.id] = f]
  /\ manifest' = manifest \cup {cur}
  /\ Goto("saveSd")
  /\ UNCHANGED <<card, sd, flDirs, flMeta, flManifest, key, locals, hist>>

\* Mutant: the write to the card is best effort, like the mirror's.
SaveManifestSdBestEffort ==
  /\ pc = "saveSd"
  /\ mounted' = inserted
  /\ sdManifest' = IF SdWritable THEN [key |-> Cipher, entries |-> manifest]
                                 ELSE sdManifest
  /\ Goto("saveMirror")
  /\ UNCHANGED <<inserted, sdDirs, sdMeta, sdSecrets, fl, unlocked, locals, hist>>

\* save_manifest: the write to the card is required, a failure ends the
\* operation; the entry stays in, or out of, the manifest in RAM.
SaveManifestSd ==
  /\ pc = "saveSd"
  /\ mounted' = inserted
  /\ \/ /\ SdWritable
        /\ sdManifest' = [key |-> Cipher, entries |-> manifest]
        /\ Goto("saveMirror")
        /\ UNCHANGED <<unlocked, locals>>
     \/ /\ ~SdWritable
        /\ UNCHANGED sdManifest
        /\ \/ op = "create" /\ Shutdown
           \/ /\ op = "add" /\ GoHome
              /\ UNCHANGED <<unlocked, salt, cand, attempts, todo, shown>>
           \/ /\ op = "delete" /\ Goto("view") /\ op' = "none"
              /\ UNCHANGED <<unlocked, cur, salt, cand, attempts, todo, shown>>
  /\ UNCHANGED <<inserted, sdDirs, sdMeta, sdSecrets, fl, hist>>

\* The mirror write of save_manifest, and the end of the operation: the
\* vault is unlocked, "Secret stored!" or "Secret deleted" is shown.
SaveManifestMirror ==
  /\ pc = "saveMirror"
  /\ flManifest' \in MirrorOutcomes(flManifest, [key |-> Cipher, entries |-> manifest])
  /\ key' = Cipher
  /\ acked' = IF op = "add"
                THEN acked \cup {[key |-> key, id |-> cur.id, text |-> cur.text]}
                ELSE acked
  /\ salt' = 0 /\ cand' = None
  /\ GoHome
  /\ UNCHANGED <<card, sd, flDirs, flMeta, flSecrets, manifest,
                 attempts, todo, shown, salts, faults>>

----------------------------------------------------------------------------
(* VaultHome.view_secrets, VaultView                                       *)

OpenSecret ==
  /\ pc = "home"
  /\ cur' \in manifest
  /\ Goto("view")
  /\ UNCHANGED <<card, sd, fl, unlocked, op, salt, cand, attempts, todo, shown, hist>>

\* Leaving the view leaves the list of secrets too.
LeaveView ==
  /\ pc = "view"
  /\ GoHome
  /\ UNCHANGED <<card, sd, fl, unlocked, salt, cand, attempts, todo, shown, hist>>

\* reveal_secret or show_as_qr: load_secret, then the text on the screen.
RevealSecret ==
  /\ pc = "view"
  /\ mounted' = inserted
  /\ inserted /\ Opens(sdSecrets[cur.id], key)
  /\ shown' = sdSecrets[cur.id].text
  /\ pc' \in {"reveal", "qr"}
  /\ UNCHANGED <<inserted, sd, fl, unlocked, op, cur, salt, cand, attempts, todo, hist>>

\* "Failed to decrypt"
RevealFails ==
  /\ pc = "view"
  /\ ~(inserted /\ Opens(sdSecrets[cur.id], key))
  /\ mounted' = inserted
  /\ UNCHANGED <<inserted, sd, fl, unlocked, pc, locals, hist>>

\* Mutant: the screen is not cleared.
HideSecretKeepsText ==
  /\ pc = "reveal"
  /\ Goto("view")
  /\ UNCHANGED <<card, sd, fl, unlocked, locals, hist>>

\* reveal_secret: a button, or thirty seconds.
HideSecret ==
  /\ pc = "reveal"
  /\ shown' = None
  /\ Goto("view")
  /\ UNCHANGED <<card, sd, fl, unlocked, op, cur, salt, cand, attempts, todo, hist>>

\* show_as_qr: display_qr_codes has no timeout, only a button leaves it.
CloseQr ==
  /\ pc = "qr"
  /\ shown' = None
  /\ Goto("view")
  /\ UNCHANGED <<card, sd, fl, unlocked, op, cur, salt, cand, attempts, todo, hist>>

ConfirmDelete ==
  /\ pc = "view"
  /\ op' = "delete"
  /\ acked' = {a \in acked : ~(a.key = key /\ a.id = cur.id)}
  /\ Goto("delSd")
  /\ UNCHANGED <<card, sd, fl, unlocked, cur, salt, cand, attempts, todo, shown,
                 salts, faults>>

\* _delete_with_mirror: os.remove without a remount, errors swallowed.
DeleteSd ==
  /\ pc = "delSd"
  /\ sdSecrets' = IF mounted THEN [sdSecrets EXCEPT ![cur.id] = None] ELSE sdSecrets
  /\ Goto("delMirror")
  /\ UNCHANGED <<card, sdDirs, sdMeta, sdManifest, fl, unlocked, locals, hist>>

\* Mutant: only the card's file is removed.
DeleteMirrorForgotten ==
  /\ pc = "delMirror"
  /\ manifest' = {e \in manifest : e.id # cur.id}
  /\ Goto("saveSd")
  /\ UNCHANGED <<card, sd, fl, key, locals, hist>>

\* ... then remove_from_manifest in place.
DeleteMirror ==
  /\ pc = "delMirror"
  /\ \E f \in {None} \cup (IF "flash" \in Faults THEN {flSecrets[cur.id]} ELSE {}) :
       flSecrets' = [flSecrets EXCEPT ![cur.id] = f]
  /\ manifest' = {e \in manifest : e.id # cur.id}
  /\ Goto("saveSd")
  /\ UNCHANGED <<card, sd, flDirs, flMeta, flManifest, key, locals, hist>>

----------------------------------------------------------------------------
(* The world                                                               *)

\* Power or the card goes while a file is being written: files are
\* truncated and rewritten in place, so the target of the write at pc may
\* be left torn.
TearSd ==
  \/ UNCHANGED sd
  \/ /\ SdWritable
     /\ UNCHANGED sdDirs
     /\ \/ /\ pc \in {"initMeta", "restoreMeta"}
           /\ sdMeta' = Torn
           /\ UNCHANGED <<sdManifest, sdSecrets>>
        \/ /\ pc = "saveSd" \/ (pc = "restoreManifest" /\ flManifest # None)
           /\ sdManifest' = Torn
           /\ UNCHANGED <<sdMeta, sdSecrets>>
        \/ /\ \E i \in Ids :
                /\ \/ pc = "addSd" /\ i = cur.id
                   \/ pc = "restoreSecrets" /\ i \in todo
                /\ sdSecrets' = [sdSecrets EXCEPT ![i] = Torn]
           /\ UNCHANGED <<sdMeta, sdManifest>>

TearFlash ==
  \/ UNCHANGED fl
  \/ /\ FlashWritable
     /\ UNCHANGED flDirs
     /\ \/ /\ pc = "initMirror" /\ flMeta' = Torn
           /\ UNCHANGED <<flManifest, flSecrets>>
        \/ /\ pc = "saveMirror" /\ flManifest' = Torn
           /\ UNCHANGED <<flMeta, flSecrets>>
        \/ /\ pc = "addMirror" /\ flSecrets' = [flSecrets EXCEPT ![cur.id] = Torn]
           /\ UNCHANGED <<flMeta, flManifest>>

Fault(kind) ==
  /\ kind \in Faults
  /\ faults < MaxFaults
  /\ faults' = faults + 1
  /\ UNCHANGED <<acked, salts>>

PowerLoss ==
  /\ Fault("power")
  /\ pc # "off"
  /\ \/ TearSd /\ UNCHANGED fl
     \/ TearFlash /\ UNCHANGED sd
  /\ Shutdown
  /\ UNCHANGED card

Pull ==
  /\ Fault("pull")
  /\ inserted
  /\ inserted' = FALSE /\ mounted' = FALSE
  /\ TearSd
  /\ UNCHANGED <<fl, unlocked, pc, locals>>

Insert ==
  /\ ~inserted
  /\ inserted' = TRUE
  /\ UNCHANGED <<mounted, sd, fl, unlocked, pc, locals, hist>>

\* The card is lost or dies; a blank one takes its place.
LoseCard ==
  /\ Fault("lose")
  /\ inserted' = TRUE /\ mounted' = FALSE
  /\ sdDirs' = FALSE /\ sdMeta' = None /\ sdManifest' = None
  /\ sdSecrets' = [i \in Ids |-> None]
  /\ UNCHANGED <<fl, unlocked, pc, locals>>

\* The user goes on with another card: a blank one, or one that holds an
\* empty vault made on another device.  The writes of one save follow each
\* other faster than a card is changed.
SwapCard ==
  /\ Fault("swap")
  /\ pc \notin {"addMirror", "saveSd", "saveMirror"}
  /\ inserted' = TRUE /\ mounted' = FALSE
  /\ \/ sdDirs' = FALSE /\ sdMeta' = None /\ sdManifest' = None
     \/ /\ sdDirs' = TRUE /\ sdMeta' = 0
        /\ \E p \in Passphrases :
             sdManifest' = [key |-> [pass |-> p, salt |-> 0], entries |-> {}]
  /\ sdSecrets' = [i \in Ids |-> None]
  /\ UNCHANGED <<fl, unlocked, pc, locals>>

----------------------------------------------------------------------------
\* The user answers.
User ==
  \/ Boot \/ AnswerRetry \/ AnswerRestore \/ AnswerCreate \/ NewPassphrase
  \/ EnterPassphrase \/ Lock \/ AddSecret \/ OpenSecret \/ LeaveView
  \/ RevealSecret \/ RevealFails \/ CloseQr \/ ConfirmDelete

\* The program runs on by itself.
Program ==
  \/ CheckSdCard \/ FindVault \/ RestoreDirs \/ RestoreMeta \/ RestoreManifest
  \/ RestoreList \/ RestoreSecrets \/ Restored \/ InitSdDirs \/ InitFlashDirs
  \/ InitMeta \/ InitMirror \/ LoadMeta \/ LoadManifest \/ SaveSecretSd
  \/ SaveSecretMirror \/ SaveManifestSd \/ SaveManifestMirror \/ HideSecret
  \/ DeleteSd \/ DeleteMirror

World == PowerLoss \/ Pull \/ Insert \/ LoseCard \/ SwapCard

Next == User \/ Program \/ World

Spec == Init /\ [][Next]_vars
FairSpec == Spec /\ WF_vars(Program)

----------------------------------------------------------------------------
(* Properties                                                              *)

\* Secret a is listed and intact in a copy of the vault.
Holds(manifestFile, secretFiles, a) ==
  /\ Opens(manifestFile, a.key)
  /\ [id |-> a.id, text |-> a.text] \in manifestFile.entries
  /\ secretFiles[a.id] = [key |-> a.key, text |-> a.text]

OnSd(a) == Holds(sdManifest, sdSecrets, a)
OnFlash(a) == Holds(flManifest, flSecrets, a)

\* A secret that was reported stored and not confirmed for deletion is still
\* listed and intact, with the salt of its key, on the card or in the mirror:
\* no sequence of adds, deletes, locks and reboots loses both copies.
AckSurvives ==
  \A a \in acked :
    /\ OnSd(a) \/ OnFlash(a)
    /\ a.key.salt \in {sdMeta, flMeta}

\* The same secret can be opened by the code: the card's copy is the one that
\* VaultUnlock uses when it finds metadata there, the mirror's otherwise.
AckOpens ==
  \A a \in acked :
    \/ sdMeta = a.key.salt /\ OnSd(a)
    \/ sdMeta = None /\ flMeta = a.key.salt /\ OnFlash(a)

\* The card's manifest never describes one secret and points at the file of
\* another: a listed file that can be read holds the listed text under the
\* manifest's key (ids are reused, files are rewritten in place).
LabelMatchesContent ==
  IsManifest(sdManifest) =>
    \A e \in sdManifest.entries :
      sdSecrets[e.id] \in {None, Torn, [key |-> sdManifest.key, text |-> e.text]}

\* What the screen shows is the secret that was selected, and it is gone from
\* the screen when the view moves on.
RevealShowsEntry == shown # None => pc \in {"reveal", "qr"} /\ shown = cur.text

\* "Secret stored!" is shown only when the card lists the secret and holds
\* its file, both under the key of the unlocked vault.
StoredIsOnCard == [][\A a \in acked' \ acked : OnSd(a)']_vars

\* A successful operation: "Secret stored!" or "Secret deleted".
Succeeds == pc = "saveMirror" /\ pc' = "home" /\ op \in {"add", "delete"}

\* After a successful operation the mirror covers the card again, whatever
\* earlier crashes left behind: the manifests are the same, and every listed
\* file that is intact on the card is the same in the mirror.
MirrorCatchesUp ==
  [][Succeeds =>
       /\ flManifest' = sdManifest'
       /\ \A e \in manifest' :
            sdSecrets[e.id] \in {None, Torn} \/ flSecrets[e.id] = sdSecrets[e.id]
    ]_vars

\* No readable manifest f lists secret i.
Unlisted(i, f) == IsManifest(f) => \A e \in f.entries : e.id # i

\* "Secret deleted" is shown only when the card's manifest does not list the
\* secret, whatever faults there are.  The file on the card is gone unless a
\* card that was pulled let os.remove fail, and the mirror neither lists nor
\* holds the secret unless the flash fails: _delete_with_mirror and the
\* mirror write of save_manifest swallow both errors.
DeletedIsGone ==
  [][(Succeeds /\ op = "delete") =>
       /\ Unlisted(cur.id, sdManifest')
       /\ "pull" \notin Faults => sdSecrets'[cur.id] = None
       /\ "flash" \notin Faults =>
            Unlisted(cur.id, flManifest') /\ flSecrets'[cur.id] = None]_vars

\* The salt in the mirror, without which nothing in it can be decrypted, is
\* never written over: whatever card is in the slot, a blank one, one with
\* another vault or one that does not answer, no new vault is made while the
\* mirror holds one.
MirrorSaltKept == [][(flMeta \in Salts) => (flMeta' = flMeta)]_vars

\* Unlocking a vault whose manifest was ever written proves the passphrase:
\* the new key opens the card's manifest, or there is none in either copy.
UnlockProvesPassphrase ==
  [][pc = "loadManifest" /\ key' # None =>
       \/ Opens(sdManifest', key')
       \/ sdManifest' = None /\ flManifest' = None]_vars

\* RAM and every readable manifest use an id once: next_secret_id never
\* hands out an id that is listed.
UniqueIds(es) == \A e, f \in es : e.id = f.id => e = f
IdsAreUnique ==
  /\ UniqueIds(manifest)
  /\ IsManifest(sdManifest) => UniqueIds(sdManifest.entries)
  /\ IsManifest(flManifest) => UniqueIds(flManifest.entries)

\* Every operation ends: the program comes back to a prompt or switches off.
Prompts == {"off", "retry", "askRestore", "askCreate", "newPass", "askPass",
            "home", "view", "qr"}
OperationsEnd == []<>(pc \in Prompts)

\* Once no more faults happen, a user with a card in place who asks for a new
\* vault gets to choose its passphrase: the directories and the metadata of
\* both copies can be made.
CreateSucceeds ==
  (pc = "initSdDirs" /\ mounted /\ faults = MaxFaults) ~> (pc = "newPass")
=============================================================================
