# VaultSeed: TLA+ models, checks and proofs

VaultSeed is firmware for small K210 devices with a screen, a few buttons and a
microSD slot. It keeps a vault of encrypted secrets on the card, with a mirror
copy in the internal flash, and upgrades itself from the card. The code is
MicroPython under `src/src` on top of a vendored MaixPy; the Kboot bootloader
under `src/firmware/Kboot` picks what runs at power-on.

The application is a single thread of control with interrupt handlers (buttons,
touchscreen, a timer); the bootloader runs on two cores. What makes it hard is
the world around them: power fails (or the watchdog or the automatic shutdown
resets the CPU) in the middle of a file or flash write, the card is pulled, put
back or replaced between two calls, and the code has two copies of everything
to keep in step without any transaction.

## 1. Inventory

| part | state | operations | talks to |
|---|---|---|---|
| vault store, `krux/vault.py` | `vault.meta`, `vault.manifest`, `secrets/NNN.kef` on card and flash | initialize, restore, load/save manifest, save/load/delete secret, ids | SD handler, KEF |
| SD handler, `krux/sd_card.py` | the mount | `__enter__` remounts, read, write, delete, `file_exists` without remount | the card |
| unlock page, `vault_unlock.py` | salt, attempts | retry, restore, create, unlock | vault store, RAM state |
| home, add, view pages | selected entry, text on screen | lock, add, view, reveal, delete | vault store, RAM state |
| RAM state, `krux/context.py` | `ctx.vault`: cipher and manifest | clear | all pages, auto shutdown |
| boot script, `boot.py` | - | update check, tamper check, unlock/home loop, shutdown | all |
| firmware upgrade, `krux/firmware.py` | two slots, main and backup boot sector | verify, install, remove files | card, flash |
| Kboot, `bootloader_lo/main.c` and `bootloader_hi/main.c` | two ends of SRAM, two flags and a shared counter per stage; the same flash | copy stage 1, choose an application, check it, load it or halt; core 1 waits | the flash that an upgrade wrote |
| settings store, `krux/settings.py` | `settings.json` on card or flash, dict in RAM | load, get, set, delete, move, save | every part |
| KEF and cipher, `krux/kef.py` | - | encrypt, decrypt, wrap, unwrap, padding, versions | vault store |
| input, `input.py`, `buttons.py`, `touch.py`, `rotary.py` | event flags set by interrupts, debounce time | wait for press, press type, flush | pages, auto shutdown, watchdog |
| auto shutdown, watchdog, power | seconds left | tick (timer callback), feed, shutdown | RAM state |
| pages, menus, keypads | index, page, buffer | navigation | input, display |
| QR codec, `qr.py`, `bbqr.py`, `baseconv.py` | parts received | split, parse, complete, join | capture, view |
| tamper check, `tc_code_verification.py`, `flash_tools.py`, `fill_flash.py` | code file, filler in free flash | set code, verify, hash | boot script |
| display, camera, light, themes, device tests, file manager, secret types | - | drawing, hardware set-up, prompts | - |

What makes each of them correct:

* **vault**: an acknowledged secret is never lost by one accident; a label never
  points at another secret's file; "stored" and "deleted" mean what they say on
  both media; the right passphrase and nothing else opens a vault; every
  operation comes back to a prompt.
* **upgrade and Kboot**: there is always something to boot; what boots was
  verified; versions do not go down; a completed upgrade is what boots.
* **Kboot's two cores**: neither runs in code that the other is overwriting;
  together they make one choice.
* **settings**: what was stored is what the next boot loads; the two places
  never both hold settings; a clean store has nothing to save.
* **input**: no press is lost or answered twice, none from an earlier page
  answers a new one; an idle device shuts down.
* **QR**: the parts cover the payload and fit the screen; received in any order,
  repeated and with gaps they give it back; a capture ends.

`PROJECT.json` lists every component with its status, and the hazards line by
line.

## 2. Modules

| module | models |
|---|---|
| `Vault` | `vault.py`, `sd_card.py`, the vault pages, `context.py` and the loop of `boot.py` |
| `MCVault` | `Vault` with the symmetry sets for TLC |
| `VaultProofs` | theorems about `Vault`, checked by TLAPS |
| `FirmwareUpgrade` | `firmware.py`, the update check of `boot.py`, and the choice of Kboot |
| `FirmwareProofs` | theorems about `FirmwareUpgrade`, checked by TLAPS |
| `Kboot` | both stages of Kboot on both cores |
| `BootChoice` | what Kboot promises: one choice, as an abstract specification |
| `WriteData` | `write_data` byte by byte |
| `UpgradeBoot` | `WriteData`, then `Kboot` on what it left; implements `BootChoice` |
| `AnimatedQR` | `qr.py`, the loops of `qr_capture.py` and `display_qr_codes` |
| `SettingsStore` | `settings.py` and what `settings_page.py` does with it |
| `Input` | `input.py`, `buttons.py`, `touch.py`, `auto_shutdown.py` |
| `MCUpgradeBoot`, `MCAnimatedQR`, `MCInput` | their instances for TLC |
| `KbootProofs`, `WriteDataProofs` | lemmas and invariants of the two, and that `Kboot` implements `BootChoice` |
| `UpgradeBootProofs` | theorems about `UpgradeBoot`, from the two above |
| `SettingsProofs`, `InputProofs`, `AnimatedQRProofs` | theorems about those modules |

### Vault

`sdMeta`, `sdManifest`, `sdSecrets` and their `fl` twins are the files of the
two copies; each is `None`, `Torn` or a value. `sdDirs`/`flDirs` say whether the
directories exist. `inserted` is the card in the slot, `mounted` whether it
answers without a remount: `SDHandler.__enter__` remounts, `os.stat`,
`os.remove` and `os.mkdir` do not, and several behaviours turn on this
difference. `key` and `manifest` are `ctx.vault`. `pc` names the call about to
be made or the prompt being waited at, so one action is one call that touches a
medium: `save_secret` is `SaveSecretSd` then `SaveSecretMirror`,
`save_manifest` is `SaveManifestSd` then `SaveManifestMirror`, deletion is
`DeleteSd`, `DeleteMirror` and then the two of `save_manifest`,
`restore_from_flash` is a chain from `RestoreDirs` to one `RestoreSecrets` step
per file. `acked`, `salts` and `faults` are history variables: what the user was
told is stored and has not confirmed for deletion, the salts handed out, and
the faults so far.

Faults are a constant, a subset of `{"power", "pull", "lose", "swap", "flash"}`.
Power may go at any step (`PowerLoss`) and, when the step is a file write, leave
that file torn (`TearSd`, `TearFlash`). `Pull` and `Insert` take the card out and
put the same one back, `LoseCard` replaces it by a blank one at any step, and
`SwapCard` goes on with another card: a blank one, or one with an empty vault
made on another device, whatever the mirror holds. A swap takes longer than the
writes of one save and does not fall between them. `"flash"` lets any write of
the mirror fail or tear without a crash (the code swallows it).

A revealed secret is hidden by a button or after 30 seconds (`HideSecret`, a step
of the program); the QR code of a secret stays until the user leaves it
(`CloseQr`, a step of the user).

Data is abstracted to what the code can tell apart: a cipher key is the pair of
a passphrase and a salt, an envelope is a key and a content and decrypts
exactly under its own key (AES-GCM in `kef.py`), an entry is an id and the text
its label and hash preview were computed for. Ids are numbers; the three-digit
format only matters past 999. Wrong passphrases, cancelled prompts and
mismatched confirmations are all choices of the user actions.

### FirmwareUpgrade

`main` and `backup` are the boot configuration sectors, `apps` the two slots
and the default application at 0x10000. `write_data` erases and then programs,
so each of the three writes of an upgrade is two actions with the flash `Torn`
in between. A sector is its one entry in use: `config.bin` fills the first of
eight and `update_boot_config_sector` rewrites the entry it found. An erased
sector is all ones. Programming only clears bits, so a partly programmed entry
keeps its active and SHA-256 flags: `find_active_firmware` takes both for an
active entry at an address that is no slot, Kboot rejects both. One value,
`Torn`, stands for them. An image is a version, a size and what is wrong with
it (`flaw`); the checks of `upgrade()` and of Kboot look at nothing else. An
exception outside a handler ends the boot script, and the watchdog resets the
device: the step goes to `"off"`.

### Kboot, BootChoice, WriteData and UpgradeBoot

In `Kboot` every core has a stage (`lo`, `hi`, `app`) and a label. A step is one
access to something the other core can see: storing the core number in the
static `i` and reading it back, setting a flag, seeing one, starting and ending
a copy. `low` and `high` are the two ends of SRAM. The build is not optimised,
so every access to a static is a load or store. `Reset` leaves in the statics of
stage 1 whatever an earlier boot left there. `ScanEntry` is one round of the
loop, with `i` as its counter; `Decide` turns to the backup sector, to the
console (`Ask`) or to the default application. An application is what the
checks see: key byte, size, whether SHA-256 and CRC32 match.

`BootChoice` states the outcome without cores, loops or copies: the first good
active entry of the main sector, else of the backup, else the default
application, else a halt; with the console any good entry of that sector. The
refinement maps `outcome` to what core 0 has come to.

`WriteData` has the flash from the slot on as a sequence of bytes, each named by
what it is (header, file, hash, zero, erased, and of which image at which
place). A read returns any part of what was asked, or nothing, or fails; power
fails anywhere, also between the last `flash.write` and the test at the loop's
head that makes `write_data` return (`LoopHead`), and after the return before a
sector names the slot; the write may be begun again, on a slot that is torn or
already whole. `UpgradeBoot` turns the bytes into
the block that `Kboot` checks (`SlotBlock`), which is where the Python that
writes the layout and the C that reads it meet. Its boot sectors change in one
step; their writes are the subject of `FirmwareUpgrade`.

### AnimatedQR

A code is a format, a length and the capacity of one picture. `NumParts` and
`PartSize` are `find_min_num_parts`, `Frame` is a part with its numbers and the
stretch of payload it carries. The sender turns through the parts, the camera
sees whichever is shown; nothing ties the two together. The base 32 and base 43
conversions and the picture itself are left out: a part arrives intact or not at
all (QR codes carry their own error correction).

### SettingsStore

The location is kept apart from the other settings, which are one value: what
can go wrong is where the file is, not what is in it. A file is `None`, `Torn`
or its contents. A save is two steps, the `open` that truncates and the write
that follows. A card put back is `unmounted` until `SDHandler` or a boot mounts
it. `acked` is the settings last loaded or stored, `moved` says that the
location changed or a factory reset began since, `unseen` that the card has a
file that could not be removed because it was out, `failed` that a write failed
and `dirty` was cleared all the same.

### Input

The handlers set `flag` (buttons) and `tflag` (touch) at any moment. A call of
`wait_for_button` goes through `WaitForRelease`, `Settle`, `StartPoll`, a poll
and the end of the press, for four kinds of page: a prompt and a keypad, which
wait until a press, a menu, which may end with the screen saver, and a frame of
an animated page. Keypads and menus call `wait_for_fastnav_button`: with a PAGE
button held it answers at once (`FastNav`), without one it is `Call`. Menus reset
the inputs before they wait, other pages may; an animated page does so on its
first frame and after an answer (brightness), having slept for the debounce time
(`MayReset`). Contacts ring after each edge and set their flag again (`Bounce`);
the level that `value()` returns is taken as stable, so the release filter of
`_detect_press_type` is left out. The screen has two places further apart than
the swipe threshold; a touch begins at either and may move to the other. Time
appears as what it decides: the debounce time and the sample period are over or
not; the timer counts. `served`, `old`, `owed`, `points` and `presses` are
history variables.

## 3. Runs

| run | instance | shows |
|---|---|---|
| `vault_power` | 2 passphrases, 2 texts, ids up to 2, up to 3 power losses | labels and contents stay together; the mirror catches up with each completed operation; after a completed deletion neither copy lists or holds the secret; unlocking proves the passphrase |
| `vault_one_fault` | 2 texts, ids up to 3, one power loss or one lost card, two vaults | an acknowledged secret survives; ids stay unique |
| `vault_card_faults` | blank and foreign cards, one text, two salts, one power loss, pulled card or swapped card, unreliable flash throughout | "Secret stored!" is true of the card; the mirror's salt is never written over; every operation ends at a prompt or off; types, with the limit of five attempts |
| `vault_v_spiffs` | flash without directories | violation: `initialize_vault` never succeeds |
| `vault_v_torn_card` | one power loss | violation: a torn card is never restored |
| `vault_v_unlock_pull` | one pulled card | violation: a card that does not answer unlocks as an empty vault |
| `firmware_one_fault` | versions 1..3, three sizes (one too large), files unsigned, badly signed, for another device; one power loss or card failure | always something verified to boot, no rollback, a power cut in a clean upgrade boots the old or the new firmware, a completed upgrade boots |
| `firmware_v_slot` | the same | violation: the upgrade after an interrupted one writes the slot in use |
| `upgrade_boot` | chunks of 4 bytes, files of 1, 5, 6 and 9, two calls of `write_data`, one empty read; 49 pairs of sectors and 12 flashes | see below |
| `animated_qr` | nine codes captured, with up to two switches; every length to 400 shown at five capacities | parts fit and cover the payload; a complete capture has all numbers and, of one code, all of the payload; it ends |
| `settings` | a default and two other values, any number of faults | one place holds settings; what was stored survives; clean means stored, unless the last write failed; a factory reset is complete |
| `input` | two buttons and a touchscreen, two presses or touches, a timer of one tick | one press is one answer where a page waits for one; a press in or between frames waits for its answer; no flag from before a prompt, keypad or menu answers it; a gesture needs two places; an idle device shuts down |

`upgrade_boot` shows that `write_data` leaves the block Kboot wants, however the
reads are cut up (`ReturnedIsWhole`), and nothing that passes for it before the
last chunk of some call is written (`TornUntilWritten`), inside its slot (`StaysInSlot`); that the boot that
follows starts the new or the old firmware (`UpgradeOrOld`); that core 0
overwrites SRAM only with core 1 parked at the other end (`OverwritesAlone`,
`RunsWholeCode`), stale flags and lost races included; that the two-core boot
implements `BootChoice` (`ImplementsBootChoice`) and comes to an end
(`BootStartsOrHalts`).

All vault runs except `vault_v_spiffs` set `FlashDirs`: they are about a flash file
system with directories, as in the repository's tests. On the device's SPIFFS no
vault can be created, which is what `vault_v_spiffs` shows. The firmware runs
assume a build with a signer key; section 5 says what a build without one does.

**Bounds.** Two texts and two ids make an id reusable for a different secret,
which is what the label and deletion properties are about; three ids let one
entry stay while two others change. Two passphrases separate right from wrong.
Three power losses allow a crash in an operation, one in the recovery and one
in the operation after it. Three versions chain two upgrades, so that each slot
is overwritten once while the other runs. The properties that hold only for one
fault are run with one; see section 5. One text is enough for
`vault_card_faults`: `StoredIsOnCard` is a theorem for any number.
The chunk sizes let a file end so that its hash is in its last chunk, is cut by
the end of it, or has a chunk of its own; the smallest is below what Kboot
accepts, the largest fills the slot to the last byte, and flash behind the slot
is in the model to be run into. The sectors have
up to two of eight entries, enough for an order and for an entry that hides
another. Two presses make a press meet the ringing, the touch or the gesture of
an earlier one; three were run once, without the liveness property. One tick is
enough for the timer because only zero matters.

**Fairness.** `FairSpec` has weak fairness of `Program`, the steps the code
takes by itself. It is one thread in a sequence of library calls that return or
raise, so it does not stop between two of them while it has power; the 30
seconds of `reveal_secret` are among them, the QR page has no timeout and is left
by the user. Nothing is
assumed of the user, of cards or of power. `UpgradeSpec` has weak fairness of
each core, which executes instructions while there is power, and of the user at
the console, who is part of a core's step. `Spec` of `AnimatedQR` has weak
fairness of the sender's animation and strong fairness of seeing each part: the
camera's rate and the screen's are unrelated, so no part is missed for ever;
without that the code promises nothing. `Spec` of `Input` has weak fairness of
the timer interrupt and of each contact coming to rest, none of the program.

**Deadlock** is checked except where the system really stops: in `upgrade_boot`
when both cores run the application or core 0 has halted, in `input` when the
device is off.

**Mutants.** Each property of a passing run has a mutant, an operator beside
the definition it replaces that makes a plausible mistake (the id of the last
entry, a mirror written only once, a deletion that forgets the mirror, a
manifest that forgives a wrong key, one erase for both sectors, flags of stage 1
that are not reset, a count of parts without the sum, every frame flushing the
events, ...). The `TypeOK` of `AnimatedQR`, `SettingsStore` and `Input` documents
the variables; no run lists it.

## 4. Proofs

TLC checks small instances; the theorems hold for every value of the constants.
All invariants and all action properties of the passing runs are proved, the
refinement of `BootChoice` too; what is left to TLC is liveness. Every proof has
the same shape: an inductive invariant that is stronger than the property, one
lemma for its initial states, one for its steps with a case per action, and a
last temporal step. Each inductive invariant is there because the property alone
is not preserved by some step; the text below says what was missing.

### Vault

`VaultProofs` proves for every set of passphrases and texts and every bound:

* `TypeCorrect`. `TypeOK` is not inductive: that `SaveManifestMirror` writes a
  well-typed file depends on which of `cand`, `key` and `cur` is set at each
  `pc`. `Control` states that, and `Inv == TypeOK /\ Control` is inductive.
* `UniqueIdsHold`, any faults. Needs `FreshId`: the entry being added has an id
  above all in RAM. Rests on `NextIdIsFresh`, that the largest id exists and is
  exceeded.
* `MirrorSaltKeptHolds`, any faults, swapped cards included. Needs `MirrorFree`:
  from the moment a new salt is made until it is written the mirror has no
  metadata, whatever card is in the slot.
* `StoredIsOnCardHolds`, unless cards are lost in the middle of a save; cards
  swapped between saves are included. `StoredSoFar` follows an
  addition through its writes: the file, then the entry, then the manifest.
* `LabelMatchesContentHolds` and `RevealShowsEntryHolds`, for any number of
  power losses and flash failures with the card left in place. The argument is
  that the manifest in RAM is the one on the card whenever the vault is open at
  a prompt (`RamIsCard`), that a mounted card stays mounted (`CardStays`), hence
  that the next id is used by no entry on the card and rewriting its file
  touches no listed secret. With pulled cards `RamIsCard` is false, and so is
  the property after one more crash.
* `UnlockProvesPassphraseHolds`, same faults. `Locked`: there is no key before a
  vault is open, and the mirror has no manifest before the card has one, so a
  readable answer to `load_manifest` was decrypted with the key that stays.
* `DeletedIsGoneHolds`, any faults; the property itself says what a pulled card or
  a failing flash may leave. `Deleted` follows a deletion through its steps, from
  the two files to the two manifests. `os.remove` does not remount; `CardAnswers`
  says that without pulled cards one that does not answer is a new one, and the
  new cards of the model hold no secrets.
* `MirrorCatchesUpHolds`, any number of power losses, vaults made on this device.
  `FlashReady`: the mirror's directories are there before anything of a vault
  is; `MirrorWritten`: a file is in the mirror before a manifest lists it;
  `MirrorMatches`: every file listed on the card is the same in the mirror or
  torn on the card. Power losses before the operation leave the mirror behind
  in its manifest but never in a listed file.
* `AckSurvivesHolds`, one power loss or one lost card, vaults made on this
  device. The card is in one of three states. `Sound`: it carries the vault, and
  each acknowledged secret is on the card, or in the mirror if the card's
  manifest is torn, after which nothing is written any more. `Lost`: it is blank;
  the program may go on with what it has in RAM, and nothing that it does takes
  a secret from the mirror. `Restoring`: the part of the mirror that
  `restore_from_flash` has copied so far is on the card. The proof shows how a
  step stays in a state or leads to the next. The hypothesis `MaxFaults <= 1` is
  in the statement because with two faults it is false (section 5).

The hypotheses on `Faults`, `MaxFaults` and `InitialCards` are instances of the
model that the runs use; section 5 gives the behaviour that each excludes.

### Firmware upgrade

`FirmwareProofs` proves for every number of versions and every set of sizes:

* `TypeCorrect`, with `Control` as above: which locals of `upgrade()` are set at
  each `pc`, and that the default application is never written.
* `RunningIsVerifiedHolds`, any faults. The strengthening is `AllVerified`:
  every image in flash that is not torn, and the file past the prompt, are
  without a flaw.
* `NoRollbackHolds`, any faults. `UpInv` says how far an upgrade is (`Progress`:
  `cfg` is the main sector, the target is its other slot, the slot is whole
  before a sector is touched, the backup is `cfg` before main is erased) and
  that the default application runs only without an active entry
  (`DefaultOnly`). `Keeps` is the main idea: a main entry that
  boots, boots a version at or above the last one that ran; when main does not
  boot, this holds of the backup; while an upgrade is under way, of `cfg`.
* `UpgradeTakesEffectHolds`, any earlier faults, if no file is under the 16 KB
  that Kboot requires (`NoSmallFiles`; `upgrade()` checks only the maximum).
* `CutIsSafeHolds`, same condition. `CutInv`: before the first fault, main boots
  except while it is rewritten, and then `cfg`, which is also the backup, does.
* `NeverHaltsHolds`, same condition and `MaxFaults = 1`. `BootInv`: when nothing
  is being written there is something to boot. With two faults it is false
  (section 5), so the bound is part of the statement.

### Kboot, write_data and the boot after an upgrade

`KbootProofs` proves for all sectors of any length and every flash that `Kboot`
implements `BootChoice` (`KbootImplementsBootChoice`). Two invariants carry it.
`Sync`: a core that works has the other one waiting (`Alone`), a core that moves
on leaves it waiting or finds it moved on (`Together`), a set flag says where the
core is that set it (`FlagsTell`), and which code is at each end of SRAM
(`Memory`). The flags of stage 1 mean nothing before stage 1 is copied, which is
why `FlagsTell` begins there. `Choosing`: what the loop over the entries has found
so far and why the backup sector is looked at, so that the application loaded is
one of those that `BootChoice` allows.

`WriteDataProofs` shows that `WriteInv` is inductive, for every chunk, header,
hash and file size. `Position` relates the chunk, the bytes read and the buffer,
with what empty reads have lost; `Written` says that the chunks before this one
hold the block; `NoEnd`, that the last byte of the new hash is in none of them
while the call goes on. As long as no call has written its last chunk that byte
is nowhere in the slot (`NotYet`), which is what makes an unfinished slot fail Kboot's check
without a model of SHA-256. `LoopAt` looks through the test at the loop's head, which
only decides where the loop goes on, so that the other parts speak of the steps
in `Rounds`.

`UpgradeBootProofs` joins them. Its invariant says that Kboot is untouched while
`write_data` runs, and then sees the sectors and the block that it left. From it
follow `UpgradeTypes`, `OverwritesAloneHolds`, `RunsWholeCodeHolds`,
`ReturnedIsWholeHolds`, `TornUntilWrittenHolds`, `StaysInSlotHolds`,
`UpgradeOrOldHolds` and `UpgradeImplementsBootChoice`. The proof of `UpgradeOrOld`
found that its first form, without the minimum size, was false for a file too
small for Kboot; the property now says what boots then, and the run has such a
file.

### Settings

`SettingsProofs` proves `OneStore`, `StoredSurvives`, `CleanMeansStored` and
`RestoreIsComplete` for every set of values and any number of faults, and
`TypeOK`. A readable file is where it says it is (`InItsPlace`), the other place
has none (`OtherIsFree`), the acknowledged settings are where the next boot looks
first (`AckedIsStored`), so are clean ones unless their last write failed
(`CleanIsStored`), and `Removed` follows
a factory reset. `Stored` has a second case, for the defaults, which need no file.

### Input

`InputProofs` proves `FramesKeepPresses`, `GestureTwoPoints`, `OnePressOneAnswer`,
`ButtonsStartClean` and `TypeOK` for any buttons and any number of presses. A press
is owed only in and between the frames of a page that has no answer yet
(`OwedInFrames`); whatever may become a gesture comes from places where the finger
was since the last one was reported (`Gestures`); a held button was not answered but for the one that is
followed, and an answered contact is quiet once the debounce time is over
(`Answers`); no flag is left from an earlier page at a poll (`Clean`).

### Animated QR codes

`AnimatedQRProofs` proves for every payload length and every capacity above 17:

* `PartsFitHolds`, from arithmetic about `CeilDiv` and `Round8`. `CutWell` is the
  result for each format. For BBQR with at most nine parts, what the division
  leaves is less than nine characters, and a part size that is not the largest
  is at least eight below it, so the last part fits.
* `CapturesPayloadHolds`. `Collected`: without another code the parser holds parts
  of the one on the screen, each under its number. As many numbers as parts in
  an interval of that size are all of them.
* `CompleteHasAllHolds`, with other codes shown during the capture. Of all sets of
  n numbers from b on, only the first n have the least sum (`SumLeast`);
  `Numbered` says that no number is below the first one of its format.

The last needs what the library's recursive `SumSet` computes. The induction
theorems of the library cannot be used here, so the proofs go by infinite
descent: `Descent` (from `WFMin` and `NatLessThanWellFounded`) says that a set of
naturals with a smaller element for each element is empty, and the lemmas apply
it to the sizes of the sets for which they would fail. `SumExists` and `SumAgree`
show that the recursive definition has a solution and only one.

### Assumptions

Each theorem with a property is also checked by a run on a small instance, and
the inductive invariants were checked on the constants of those runs, but for the
parts that name infinite sets (the bytes of `WriteTypes`). Assumptions on
constants, which TLC evaluates on every run:

* `BoundsAssumption`, `MarkersAssumption` (`Vault`): bounds are naturals, `None` and
  `Torn` are no values. `SettingsAssumption` (`SettingsStore`): the same.
* `UpgradeAssumption` (`FirmwareUpgrade`): the same, and that the minimum size is
  not above the maximum.
* `KbootAssumption`: sectors are sequences of entries, flashes map addresses to
  blocks, and the default and the out-of-range address differ.
* `WriteDataAssumption`: the header is smaller than a chunk, the slot is a number of
  whole chunks, and a file with header and hash fits in it, which `upgrade()`
  checks before it writes. `UpgradeBootAssumption`: the two slots are addresses of
  their own, the old firmware passes Kboot's size check and no file is above its
  maximum, which is the one of `upgrade()`.
* `InputAssumption`: buttons are names other than "touch", the timer's period is
  positive. `QRAssumption`: payloads are not empty, formats are the three, and a
  picture holds more than the 17 bytes of the smallest QR code; the narrowest
  screen gives `max_qr_bytes` 53.

### Only model-checked

Liveness: `OperationsEnd`, `ShutsDown`, `CaptureEnds` and `BootStartsOrHalts`
(`CreateSucceeds` belongs to a run that refutes it), since the prover has no rules for fairness and `ENABLED`.

## 5. What the code does differently from what it says

Four runs end in a counterexample on purpose; the findings in `PROJECT.json`
quote the line each contradicts. Besides these, exploration of the model with
other faults shows the limits of properties that pass:

* `AckSurvives` needs the one-fault bound. A power loss while the card's
  manifest is written makes the mirror the only good copy; it is not copied
  back, and a second power loss during the next write can take it. A power loss
  during a restore followed by a lost card has the same effect.
* `AckSurvives` needs one vault. A secret stored in the vault of another card
  overwrites the first vault's manifest and files in the mirror, whose salt stays
  the first one's: after that the first vault is on its own card only. And with a
  card changed while the vault is open, the next save writes the manifest from
  RAM, under the old key, over that of the other card, whose metadata has another
  salt: that card cannot be opened any more.
* "Secret deleted" may leave the file on the card: `os.remove` does not remount
  and its failure is swallowed, while `save_manifest` remounts and succeeds. A
  failing flash may leave entry and file in the mirror. `DeletedIsGone` says so;
  what always holds is that the card's manifest does not list the secret.
* `MirrorCatchesUp` needs a vault made on this device: for a card made
  elsewhere the mirror's directories are never created, so it has no mirror.
* "Yes" at "Retry?" continues without a remount.
* Leaving the passphrase prompt of a new vault leaves metadata without a
  manifest; the next unlock accepts any passphrase and keeps it.
* `NeverHalts` needs the one-fault bound: after a power loss in the write of
  the main sector, the next upgrade writes the slot in use, and a pulled card or
  a second power loss then leaves nothing to boot.
* After the prompt `upgrade()` hashes and reads the file again and compares nothing
  with the hash that was verified and shown (`firmware.py:395`). In the model
  cards are changed only while the device is off, so it is the same file.
* An upgrade of a device whose main sector has no active entry erases the
  backup sector, the only good one, before it writes the main one.
* `docs/getting-started/features/sd-card-update.en.md` says that a file left on
  the card is offered again after the upgrade; `is_version_greater` refuses it,
  because it is not newer than itself.
* A build without `SIGNER_PUBKEY`, as `metadata.py` is at this commit, refuses
  every upgrade: `firmware_hash` is bound only in the signature branch and the
  prompt at `firmware.py:377` raises, while line 319 says "skip check".

Kboot:

* The race on `i` can go wrong: a core stores its number, the other stores its
  own, and the first reads that. Then both wait for the other and the boot
  hangs; nothing is overwritten. `BootStartsOrHalts` excludes these boots.
* An empty read inside a chunk ends the chunk, so the block has a gap; its hash
  does not match and Kboot starts the old firmware, although the upgrade said
  that it was complete. The gap also moves the end: a file of nearly 3 MB then
  ends in the chunk behind its slot, and behind slot 1 that is slot 2, the one
  in use. `StaysInSlot` is stated without such reads.

Settings:

* Choosing the card removes the file in flash at once. Left without a card in
  the slot, the page says "Changes will last until shutdown."
  (`settings_page.py:237`), but the settings stored before are gone as well.
* A file on a card that was out when the settings moved to flash stays and wins
  at the next boot with that card.
* After a failed write `dirty` is cleared: the change lasts until shutdown and
  nobody is told. Choosing another language leaves the settings by a way that
  does not save.
* A card file without a location whose settings are reset to the defaults is
  compared with "{}" like a missing one.

Input:

* "Makes sure events that happened between pages load are cleared."
  (`input.py:223`) is not so for touches: `Touch.event` ignores its flag for
  20 ms after a sample, `wait_for_release` has just taken one, and the touch
  answers the page 20 ms later. `ButtonsStartClean` is therefore stated for buttons.
* A frame after a menu finds `flushed_flag` set: it neither flushes nor waits for
  the contacts to settle. `display_qr_codes` makes up for it with a sleep and a
  reset on its first frame and after each change of brightness; the countdown of
  `reveal_secret` does not. `OnePressOneAnswer` is stated for pages that wait until
  a press.
* A long press is answered while it is held; the ringing of its release may be
  taken for a new press.
* A PAGE button still held from the page before answers a menu or a keypad at
  once, as FAST_FORWARD or FAST_BACKWARD. `ButtonsStartClean` is about flags.
* A swipe whose touch was flushed is reported with the next tap. A flushed touch
  leaves its point as the press point, so that a tap elsewhere becomes a gesture
  although nobody swiped. `GestureTwoPoints` is what remains.

QR codes:

* When the camera is turned to another code with as many parts, the capture may
  return parts of both; with another number of parts it may never complete.
* A part of another format raises out of `qr_capture_loop` with the sensor on.
* From ten BBQR parts on, rounding may leave a last part longer than the
  capacity that `find_min_num_parts` was given; the branch at `qr.py:181` is
  never taken.

## 6. Plan

Every invariant and action property of the passing runs has its theorem. What is
worth doing next:

1. Stronger statements where a theorem has hypotheses that the code does not need:
   `AckSurvives` for cards of two vaults as far as the card in the slot goes,
   `IdsAreUnique` and `DeletedIsGone` as parts of one abstract vault.
2. That abstract vault, a map from labels to texts that operations change in one
   step, and `Vault` shown to implement it while no fault happens.
3. The paging of menus as a model.

### Not modelled

Most of the repository, more than three million lines, is vendored MaixPy: the
MicroPython core and ports, vendor headers for other chips, lvgl and drivers. It
is third-party code, much of it not even part of the build, and out of reach of
models of this size; a share of all C lines says little about the coverage here.
VaultSeed's own logic is the Python under `src/src/krux` and the two `main.c`
files of Kboot, whose control is modelled from first to last line.

Of that own logic the following is left out: drawing, camera set-up, themes,
light and device tests (output only); the KEF envelope, base conversions,
secret types and BIP-39 (functions of one input with test vectors and no state);
the tamper check (a prompt, a hash and a filler loop); file manager prompts;
paging of menus and keypads; the rotary encoder and the GT911 driver, which
end in the same flags as buttons and touch.
