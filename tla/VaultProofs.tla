---------------------------- MODULE VaultProofs ----------------------------
(***************************************************************************)
(* What holds of the vault for every set of passphrases and texts, every   *)
(* bound and, unless a theorem says otherwise, every kind and number of    *)
(* faults.                                                                 *)
(***************************************************************************)
EXTENDS Vault, WellFoundedInduction, TLAPS

USE DEF card, sd, fl, unlocked, locals, hist, Goto, GoHome

----------------------------------------------------------------------------
(* Type correctness.  Control says which of the program's locals are set at *)
(* which step; without it TypeOK is not inductive.                          *)

Control ==
  /\ pc \in {"initSdDirs", "initFlashDirs", "initMeta"} => salts < MaxSalts
  /\ pc = "loadManifest" => cand \in Keys /\ attempts < 5
  /\ pc \in {"addSd", "addMirror"} => op = "add"
  /\ pc \in {"delSd", "delMirror"} => op = "delete"
  /\ pc \in {"home", "addSd", "addMirror", "view", "reveal", "qr", "delSd", "delMirror"}
       => key \in Keys
  /\ pc \in {"addSd", "addMirror", "view", "reveal", "qr", "delSd", "delMirror"}
       => cur \in Entries
  /\ pc \in {"saveSd", "saveMirror"} =>
       \/ op = "create" /\ cand \in Keys
       \/ op \in {"add", "delete"} /\ key \in Keys /\ cur \in Entries

Inv == TypeOK /\ Control

LEMMA Basics ==
  /\ 0 \in Salts
  /\ {None, Torn} \subseteq MetaFiles
  /\ {None, Torn} \subseteq ManifestFiles
  /\ {None, Torn} \subseteq SecretFiles
  /\ Salts \subseteq MetaFiles
  BY BoundsAssumption DEF Salts, MetaFiles, ManifestFiles, SecretFiles

LEMMA ClearRamType ==
  ASSUME ClearRam
  PROVE  /\ key' \in Keys \cup {None} /\ manifest' \in SUBSET Entries
         /\ op' \in Ops /\ cur' \in Entries \cup {None}
         /\ salt' \in Salts /\ cand' \in Keys \cup {None}
         /\ attempts' \in 0..5 /\ todo' \in SUBSET Ids
         /\ shown' \in Texts \cup {None}
  BY Basics DEF ClearRam, Ops

LEMMA InitInv == Init => Inv
<1>1. SUFFICES ASSUME Init PROVE Inv
  OBVIOUS
<1>2. sdMeta \in MetaFiles /\ sdDirs \in BOOLEAN
  BY <1>1, Basics DEF Init
<1>3. sdManifest \in ManifestFiles
  <2>1. \A p \in Passphrases : [pass |-> p, salt |-> 0] \in Keys
    BY Basics DEF Keys
  <2>2. \A k \in Keys : [key |-> k, entries |-> {}] \in ManifestFiles
    BY DEF ManifestFiles
  <2>3. QED
    BY <1>1, <2>1, <2>2, Basics DEF Init
<1>4. TypeOK
  <2>1. [i \in Ids |-> None] \in [Ids -> SecretFiles]
    BY Basics
  <2>2. /\ inserted \in BOOLEAN /\ mounted \in BOOLEAN /\ flDirs \in BOOLEAN
    BY <1>1 DEF Init
  <2>3. faults \in 0..MaxFaults /\ salts \in Salts /\ attempts \in 0..5 /\ salt \in Salts
    BY <1>1, Basics, BoundsAssumption DEF Init
  <2>4. pc \in Pcs /\ op \in Ops
    BY <1>1 DEF Init, Pcs, Ops
  <2>5. /\ flMeta \in MetaFiles /\ flManifest \in ManifestFiles
        /\ sdSecrets \in [Ids -> SecretFiles] /\ flSecrets \in [Ids -> SecretFiles]
    BY <1>1, <2>1, Basics DEF Init
  <2>6. QED
    BY <1>1, <1>2, <1>3, <2>2, <2>3, <2>4, <2>5 DEF Init, TypeOK
<1>5. Control
  BY <1>1 DEF Init, Control
<1>6. QED
  BY <1>4, <1>5 DEF Inv

LEMMA InitMetaType == Inv /\ InitMeta => Inv'
<1>1. SUFFICES ASSUME Inv, InitMeta PROVE Inv'
  OBVIOUS
<1>2. salts + 1 \in Salts
  BY <1>1, BoundsAssumption DEF Inv, TypeOK, Control, InitMeta, Salts
<1>3. QED
  BY <1>1, <1>2, Basics, ClearRamType DEF Inv, TypeOK, Control, InitMeta, Shutdown, Pcs

LEMMA NewPassphraseType == Inv /\ NewPassphrase => Inv'
<1>1. SUFFICES ASSUME Inv, NewPassphrase PROVE Inv'
  OBVIOUS
<1>2. \A p \in Passphrases : [pass |-> p, salt |-> salt] \in Keys
  BY <1>1 DEF Inv, TypeOK, Keys
<1>3. QED
  BY <1>1, <1>2, ClearRamType DEF Inv, TypeOK, Control, NewPassphrase, Shutdown, Pcs, Ops

LEMMA EnterPassphraseType == Inv /\ EnterPassphrase => Inv'
<1>1. SUFFICES ASSUME Inv, EnterPassphrase PROVE Inv'
  OBVIOUS
<1>2. \A p \in Passphrases : [pass |-> p, salt |-> salt] \in Keys
  BY <1>1 DEF Inv, TypeOK, Keys
<1>3. QED
  BY <1>1, <1>2, ClearRamType DEF Inv, TypeOK, Control, EnterPassphrase, Shutdown, Pcs

LEMMA SaveSecretSdType == Inv /\ SaveSecretSd => Inv'
<1>1. SUFFICES ASSUME Inv, SaveSecretSd PROVE Inv'
  OBVIOUS
<1>2. [key |-> key, text |-> cur.text] \in SecretFiles
  BY <1>1 DEF Inv, TypeOK, Control, SaveSecretSd, SecretFiles, Entries
<1>3. sdSecrets' \in [Ids -> SecretFiles]
  BY <1>1, <1>2 DEF Inv, TypeOK, SaveSecretSd
<1>4. QED
  BY <1>1, <1>3 DEF Inv, TypeOK, Control, SaveSecretSd, Pcs, Ops

LEMMA SaveManifestSdType == Inv /\ SaveManifestSd => Inv'
<1>1. SUFFICES ASSUME Inv, SaveManifestSd PROVE Inv'
  OBVIOUS
<1>2. Cipher \in Keys
  BY <1>1 DEF Inv, TypeOK, Control, SaveManifestSd, Cipher
<1>3. [key |-> Cipher, entries |-> manifest] \in ManifestFiles
  BY <1>1, <1>2 DEF Inv, TypeOK, ManifestFiles
<1>4. QED
  BY <1>1, <1>3, ClearRamType DEF Inv, TypeOK, Control, SaveManifestSd, Shutdown, Pcs, Ops

LEMMA TearSdType == Inv /\ TearSd =>
  /\ sdDirs' \in BOOLEAN /\ sdMeta' \in MetaFiles
  /\ sdManifest' \in ManifestFiles /\ sdSecrets' \in [Ids -> SecretFiles]
  BY Basics DEF Inv, TypeOK, TearSd

LEMMA FaultType ==
  ASSUME Inv, NEW k, Fault(k)
  PROVE  faults' \in 0..MaxFaults /\ UNCHANGED <<acked, salts>>
  BY BoundsAssumption DEF Inv, TypeOK, Fault

LEMMA PullType == Inv /\ Pull => Inv'
<1>1. SUFFICES ASSUME Inv, Pull PROVE Inv'
  OBVIOUS
<1>2. TypeOK'
  BY <1>1, TearSdType, FaultType DEF Inv, TypeOK, Pull
<1>3. Control'
  BY <1>1, FaultType DEF Inv, Control, Pull
<1>4. QED
  BY <1>2, <1>3 DEF Inv

LEMMA LoseCardType == Inv /\ LoseCard => Inv'
<1>1. SUFFICES ASSUME Inv, LoseCard PROVE Inv'
  OBVIOUS
<1>2. [i \in Ids |-> None] \in [Ids -> SecretFiles]
  BY Basics
<1>3. TypeOK'
  BY <1>1, <1>2, Basics, FaultType DEF Inv, TypeOK, LoseCard
<1>4. Control'
  BY <1>1, FaultType DEF Inv, Control, LoseCard
<1>5. QED
  BY <1>3, <1>4 DEF Inv

LEMMA SwapCardType == Inv /\ SwapCard => Inv'
<1>1. SUFFICES ASSUME Inv, SwapCard PROVE Inv'
  OBVIOUS
<1>2. [i \in Ids |-> None] \in [Ids -> SecretFiles]
  BY Basics
<1>3. \A p \in Passphrases :
        [key |-> [pass |-> p, salt |-> 0], entries |-> {}] \in ManifestFiles
  BY Basics DEF ManifestFiles, Keys
<1>4. TypeOK'
  BY <1>1, <1>2, <1>3, Basics, FaultType DEF Inv, TypeOK, SwapCard
<1>5. Control'
  BY <1>1, FaultType DEF Inv, Control, SwapCard
<1>6. QED
  BY <1>4, <1>5 DEF Inv

LEMMA InvStep == Inv /\ [Next]_vars => Inv'
<1>1. SUFFICES ASSUME Inv, [Next]_vars PROVE Inv'
  OBVIOUS
<1>2. CASE Boot
  BY <1>1, <1>2 DEF Inv, TypeOK, Control, Boot, Pcs
<1>3. CASE CheckSdCard
  BY <1>1, <1>3 DEF Inv, TypeOK, Control, CheckSdCard, Pcs
<1>4. CASE AnswerRetry
  BY <1>1, <1>4, ClearRamType DEF Inv, TypeOK, Control, AnswerRetry, Shutdown, Pcs
<1>5. CASE FindVault
  BY <1>1, <1>5 DEF Inv, TypeOK, Control, FindVault, Pcs
<1>6. CASE AnswerRestore
  BY <1>1, <1>6, ClearRamType DEF Inv, TypeOK, Control, AnswerRestore, Shutdown, Pcs
<1>7. CASE AnswerCreate
  BY <1>1, <1>7, ClearRamType DEF Inv, TypeOK, Control, AnswerCreate, Shutdown, Pcs
<1>8. CASE RestoreDirs
  BY <1>1, <1>8 DEF Inv, TypeOK, Control, RestoreDirs, Pcs
<1>9. CASE RestoreMeta
  BY <1>1, <1>9 DEF Inv, TypeOK, Control, RestoreMeta, Pcs
<1>10. CASE RestoreManifest
  BY <1>1, <1>10 DEF Inv, TypeOK, Control, RestoreManifest, Pcs
<1>11. CASE RestoreList
  BY <1>1, <1>11 DEF Inv, TypeOK, Control, RestoreList, Pcs
<1>12. CASE RestoreSecrets
  BY <1>1, <1>12 DEF Inv, TypeOK, Control, RestoreSecrets, Pcs
<1>13. CASE Restored
  BY <1>1, <1>13 DEF Inv, TypeOK, Control, Restored, Pcs
<1>14. CASE InitSdDirs
  BY <1>1, <1>14, ClearRamType DEF Inv, TypeOK, Control, InitSdDirs, Shutdown, Pcs
<1>15. CASE InitFlashDirs
  BY <1>1, <1>15, ClearRamType DEF Inv, TypeOK, Control, InitFlashDirs, Shutdown, Pcs
<1>16. CASE InitMirror
  BY <1>1, <1>16, Basics DEF Inv, TypeOK, Control, InitMirror, MirrorOutcomes, Pcs
<1>17. CASE LoadMeta
  BY <1>1, <1>17, ClearRamType DEF Inv, TypeOK, Control, LoadMeta, Shutdown, Pcs
<1>18. CASE Lock
  BY <1>1, <1>18, ClearRamType DEF Inv, TypeOK, Control, Lock, Pcs
<1>19. CASE LoadManifest
  BY <1>1, <1>19, Basics DEF Inv, TypeOK, Control, LoadManifest, Unlock, Opens,
     ManifestFiles, Pcs
<1>20. CASE AddSecret
  BY <1>1, <1>20 DEF Inv, TypeOK, Control, AddSecret, Entries, Ops, Pcs
<1>21. CASE SaveSecretMirror
  BY <1>1, <1>21, Basics DEF Inv, TypeOK, Control, SaveSecretMirror, MirrorOutcomes,
     SecretFiles, Entries, Pcs
<1>22. CASE SaveManifestMirror
  BY <1>1, <1>22, Basics DEF Inv, TypeOK, Control, SaveManifestMirror, MirrorOutcomes,
     Cipher, ManifestFiles, Entries, Ops, Pcs
<1>23. CASE OpenSecret
  BY <1>1, <1>23 DEF Inv, TypeOK, Control, OpenSecret, Pcs
<1>24. CASE LeaveView
  BY <1>1, <1>24 DEF Inv, TypeOK, Control, LeaveView, Ops, Pcs
<1>25. CASE RevealSecret
  BY <1>1, <1>25 DEF Inv, TypeOK, Control, RevealSecret, Opens, SecretFiles, Entries, Pcs
<1>26. CASE RevealFails
  BY <1>1, <1>26 DEF Inv, TypeOK, Control, RevealFails
<1>27. CASE HideSecret \/ CloseQr
  BY <1>1, <1>27 DEF Inv, TypeOK, Control, HideSecret, CloseQr, Pcs
<1>28. CASE ConfirmDelete
  BY <1>1, <1>28 DEF Inv, TypeOK, Control, ConfirmDelete, Ops, Pcs
<1>29. CASE DeleteSd
  BY <1>1, <1>29, Basics DEF Inv, TypeOK, Control, DeleteSd, Pcs
<1>30. CASE DeleteMirror
  BY <1>1, <1>30, Basics DEF Inv, TypeOK, Control, DeleteMirror, Entries, Pcs
<1>31. CASE PowerLoss
  BY <1>1, <1>31, Basics, TearSdType, ClearRamType, FaultType DEF Inv, TypeOK,
     Control, PowerLoss, Shutdown, TearFlash, Pcs
<1>32. CASE Insert
  BY <1>1, <1>32 DEF Inv, TypeOK, Control, Insert
<1>33. CASE UNCHANGED vars
  BY <1>1, <1>33 DEF Inv, TypeOK, Control, vars, Cipher
<1>34. QED
  BY <1>1, <1>2, <1>3, <1>4, <1>5, <1>6, <1>7, <1>8, <1>9, <1>10, <1>11, <1>12, <1>13,
     <1>14, <1>15, <1>16, <1>17, <1>18, <1>19, <1>20, <1>21, <1>22, <1>23, <1>24,
     <1>25, <1>26, <1>27, <1>28, <1>29, <1>30, <1>31, <1>32, <1>33,
     InitMetaType, NewPassphraseType, EnterPassphraseType, SaveSecretSdType, SaveManifestSdType,
     PullType, LoseCardType, SwapCardType
     DEF Next, User, Program, World

LEMMA InvHolds == Spec => []Inv
<1>1. QED
  BY InitInv, InvStep, PTL DEF Spec

\* Every variable keeps its type in every behaviour: in particular no more
\* than five attempts are ever counted by _unlock_existing_vault.
THEOREM TypeCorrect == Spec => []TypeOK
<1>1. Inv => TypeOK
  BY DEF Inv
<1>2. QED
  BY <1>1, InvHolds, PTL

----------------------------------------------------------------------------
(* Ids.                                                                    *)

\* A non-empty set of ids has a largest element: next_secret_id's max().
LEMMA LargestId ==
  ASSUME NEW N \in Nat, NEW S \in SUBSET (1..N), S # {}
  PROVE  \E i \in S : \A j \in S : j <= i
<1>1. DEFINE T == {N - i : i \in S}
<1>2. T \subseteq Nat /\ T # {}
  <2>1. \A i \in S : i \in 1..N
    OBVIOUS
  <2>2. \A i \in S : N - i \in Nat
    BY <2>1
  <2>3. T \subseteq Nat
    BY <2>2
  <2>4. \A i \in S : N - i \in T
    OBVIOUS
  <2>5. QED
    BY <2>3, <2>4
<1>3. IsWellFoundedOn(OpToRel(<, Nat), Nat)
  BY NatLessThanWellFounded
<1>4. PICK x \in T : \A y \in T : ~ (<<y, x>> \in OpToRel(<, Nat))
  <2>1. HIDE DEF T
  <2>2. QED
    BY <1>2, <1>3, WFMin
<1>5. \A y \in T : ~(y < x)
  BY <1>2, <1>4 DEF OpToRel
<1>6. PICK i \in S : x = N - i
  OBVIOUS
<1>7. \A j \in S : N - j \in T
  OBVIOUS
<1>8. HIDE DEF T
<1>9. \A j \in S : ~(N - j < N - i)
  BY <1>7, <1>5, <1>6
<1>10. QED
  BY <1>9

\* next_secret_id returns an id that no entry of the manifest has.
LEMMA NextIdIsFresh ==
  ASSUME NEW m \in SUBSET Entries
  PROVE  \A e \in m : e.id # NextId(m)
<1>1. CASE m = {}
  BY <1>1
<1>2. CASE m # {}
  <2>1. DEFINE S == {e.id : e \in m}
  <2>2. S \in SUBSET (1..MaxId) /\ S # {}
    <3>1. \A e \in m : e.id \in 1..MaxId /\ e.id \in S
      BY DEF Entries, Ids
    <3>2. QED
      BY <3>1, <1>2
  <2>3. \E i \in S : \A j \in S : j <= i
    <3>1. HIDE DEF S
    <3>2. QED
      BY <2>2, LargestId, BoundsAssumption
  <2>4. \E i \in S : \A e \in m : e.id <= i
    BY <2>3
  <2>5. PICK n \in S : NextId(m) = 1 + n /\ \A e \in m : e.id <= n
    BY <1>2, <2>4 DEF NextId
  <2>6. \A e \in m : e.id \in Int
    BY DEF Entries, Ids
  <2>7. n \in Int
    BY <2>2
  <2>8. HIDE DEF S
  <2>9. QED
    BY <2>5, <2>6, <2>7
<1>3. QED
  BY <1>1, <1>2

\* While a secret is being stored its id is not listed yet.
FreshId ==
  pc \in {"addSd", "addMirror"} => \A e \in manifest : e.id # cur.id

IdInv == IdsAreUnique /\ FreshId

LEMMA InitIdInv == Init => IdInv
  BY DEF Init, IdInv, IdsAreUnique, FreshId, UniqueIds, IsManifest

LEMMA IdInvStep == Inv /\ IdInv /\ [Next]_vars => IdInv'
<1>1. SUFFICES ASSUME Inv, IdInv, [Next]_vars PROVE IdInv'
  OBVIOUS
<1>2. TypeOK
  BY <1>1 DEF Inv
<1>3. CASE AddSecret
  <2>1. manifest \in SUBSET Entries
    BY <1>2 DEF TypeOK
  <2>2. FreshId'
    BY <1>3, <2>1, NextIdIsFresh DEF AddSecret, FreshId
  <2>3. QED
    BY <1>1, <1>3, <2>2 DEF AddSecret, IdInv, IdsAreUnique, UniqueIds, IsManifest
<1>4. CASE SaveSecretMirror
  BY <1>1, <1>4 DEF SaveSecretMirror, IdInv, IdsAreUnique, FreshId, UniqueIds, IsManifest
<1>5. CASE SaveManifestSd
  BY <1>1, <1>5 DEF SaveManifestSd, Shutdown, ClearRam, IdInv, IdsAreUnique, FreshId,
     UniqueIds, IsManifest
<1>6. CASE SaveManifestMirror
  BY <1>1, <1>6 DEF SaveManifestMirror, MirrorOutcomes, IdInv, IdsAreUnique, FreshId,
     UniqueIds, IsManifest
<1>7. CASE RestoreManifest
  BY <1>1, <1>7 DEF RestoreManifest, IdInv, IdsAreUnique, FreshId, UniqueIds, IsManifest
<1>8. CASE LoadManifest
  BY <1>1, <1>8 DEF LoadManifest, Unlock, Opens, IdInv, IdsAreUnique, FreshId,
     UniqueIds, IsManifest
<1>9. CASE DeleteMirror
  BY <1>1, <1>9 DEF DeleteMirror, IdInv, IdsAreUnique, FreshId, UniqueIds, IsManifest
<1>10. CASE PowerLoss \/ Pull \/ Insert \/ LoseCard \/ SwapCard
  BY <1>1, <1>10 DEF PowerLoss, Pull, Insert, LoseCard, SwapCard, Fault, TearSd, TearFlash,
     Shutdown, ClearRam, IdInv, IdsAreUnique, FreshId, UniqueIds, IsManifest
<1>11. CASE AnswerRetry \/ AnswerRestore \/ AnswerCreate \/ NewPassphrase
            \/ EnterPassphrase \/ Lock \/ InitSdDirs \/ InitFlashDirs \/ InitMeta \/ LoadMeta
  BY <1>1, <1>11 DEF AnswerRetry, AnswerRestore, AnswerCreate, NewPassphrase,
     EnterPassphrase, Lock, InitSdDirs, InitFlashDirs, InitMeta, LoadMeta,
     Shutdown, ClearRam, IdInv, IdsAreUnique, FreshId, UniqueIds, IsManifest
<1>12. CASE Boot \/ CheckSdCard \/ FindVault \/ RestoreDirs \/ RestoreMeta \/ RestoreList
            \/ RestoreSecrets \/ Restored \/ InitMirror \/ SaveSecretSd \/ OpenSecret
            \/ LeaveView \/ RevealSecret \/ RevealFails \/ HideSecret \/ CloseQr \/ ConfirmDelete \/ DeleteSd
  BY <1>1, <1>12 DEF Boot, CheckSdCard, FindVault, RestoreDirs, RestoreMeta, RestoreList,
     RestoreSecrets, Restored, InitMirror, SaveSecretSd, OpenSecret, LeaveView, RevealSecret,
     RevealFails, HideSecret, CloseQr, ConfirmDelete, DeleteSd, IdInv, IdsAreUnique,
     FreshId, UniqueIds, IsManifest
<1>13. CASE UNCHANGED vars
  BY <1>1, <1>13 DEF vars, IdInv, IdsAreUnique, FreshId, UniqueIds, IsManifest
<1>14. QED
  BY <1>1, <1>3, <1>4, <1>5, <1>6, <1>7, <1>8, <1>9, <1>10, <1>11, <1>12, <1>13
     DEF Next, User, Program, World

\* The manifest in RAM and every readable manifest on the card and in the
\* mirror use an id once, under every combination of faults: the file that
\* save_secret writes is never the file of a listed secret.
THEOREM UniqueIdsHold == Spec => []IdsAreUnique
<1>1. Inv /\ IdInv /\ [Next]_vars => (Inv /\ IdInv)'
  BY InvStep, IdInvStep
<1>2. Init => Inv /\ IdInv
  BY InitInv, InitIdInv
<1>3. Inv /\ IdInv => IdsAreUnique
  BY DEF IdInv
<1>4. QED
  BY <1>1, <1>2, <1>3, PTL DEF Spec

----------------------------------------------------------------------------
(* The salts of the two copies.                                            *)

\* A vault is only made while the mirror has no metadata.
MirrorFree ==
  pc \in {"askCreate", "initSdDirs", "initFlashDirs", "initMeta", "initMirror"}
    => flMeta = None

LEMMA MirrorFreeStep ==
  ASSUME MirrorFree, [Next]_vars
  PROVE  MirrorFree' /\ (flMeta # None => flMeta' = flMeta)
<1>1. CASE FindVault
  BY <1>1 DEF FindVault, VaultExistsSd, VaultExistsFlash, MirrorFree
<1>2. CASE InitMirror
  BY <1>2 DEF InitMirror, MirrorFree
<1>3. CASE PowerLoss
  BY <1>3 DEF PowerLoss, TearFlash, Shutdown, MirrorFree
<1>4. CASE Pull \/ Insert \/ LoseCard \/ SwapCard \/ UNCHANGED vars
  BY <1>4 DEF Pull, Insert, LoseCard, SwapCard, vars, MirrorFree
<1>5. CASE AnswerRetry \/ AnswerRestore \/ AnswerCreate \/ NewPassphrase \/ EnterPassphrase
           \/ Lock \/ InitSdDirs \/ InitFlashDirs \/ InitMeta \/ LoadMeta \/ SaveManifestSd
  BY <1>5 DEF AnswerRetry, AnswerRestore, AnswerCreate, NewPassphrase, EnterPassphrase,
     Lock, InitSdDirs, InitFlashDirs, InitMeta, LoadMeta, SaveManifestSd, Shutdown, MirrorFree
<1>6. CASE Boot \/ CheckSdCard \/ RestoreDirs \/ RestoreMeta \/ RestoreManifest \/ RestoreList
           \/ RestoreSecrets \/ Restored \/ LoadManifest \/ SaveSecretSd
           \/ SaveSecretMirror \/ SaveManifestMirror \/ DeleteSd \/ DeleteMirror
  BY <1>6 DEF Boot, CheckSdCard, RestoreDirs, RestoreMeta, RestoreManifest, RestoreList,
     RestoreSecrets, Restored, LoadManifest, Unlock, SaveSecretSd, SaveSecretMirror,
     SaveManifestMirror, DeleteSd, DeleteMirror, MirrorFree
<1>7. CASE AddSecret \/ OpenSecret \/ LeaveView \/ RevealSecret \/ RevealFails
           \/ HideSecret \/ CloseQr \/ ConfirmDelete
  BY <1>7 DEF AddSecret, OpenSecret, LeaveView, RevealSecret, RevealFails,
     HideSecret, CloseQr, ConfirmDelete, MirrorFree
<1>8. QED
  BY <1>1, <1>2, <1>3, <1>4, <1>5, <1>6, <1>7 DEF Next, User, Program, World

\* The salt in the mirror is never written over, under every combination of
\* faults, cards that are lost, pulled or changed for another vault's
\* included: initialize_vault runs only when the mirror has no metadata.
THEOREM MirrorSaltKeptHolds == Spec => MirrorSaltKept
<1>1. Init => MirrorFree
  BY DEF Init, MirrorFree
<1>2. MirrorFree /\ [Next]_vars => MirrorFree'
  BY MirrorFreeStep
<1>3. MirrorFree /\ [Next]_vars => [(flMeta \in Salts) => (flMeta' = flMeta)]_vars
  BY MirrorFreeStep, MarkersAssumption
<1>4. QED
  BY <1>1, <1>2, <1>3, PTL DEF Spec, MirrorSaltKept

----------------------------------------------------------------------------
(* "Secret stored!"                                                        *)

\* How far the operation that is going on has got on the card.
StoredSoFar ==
  /\ pc = "addMirror" \/ (pc \in {"saveSd", "saveMirror"} /\ op = "add")
       => sdSecrets[cur.id] = [key |-> key, text |-> cur.text]
  /\ pc \in {"saveSd", "saveMirror"} /\ op = "add" => cur \in manifest
  /\ pc = "saveMirror" => sdManifest = [key |-> Cipher, entries |-> manifest]

LEMMA StoredStep ==
  ASSUME Inv, StoredSoFar, [Next]_vars, ~LoseCard
  PROVE  StoredSoFar'
<1>1. TypeOK /\ Control
  BY DEF Inv
<1>2. CASE SaveSecretSd
  BY <1>1, <1>2 DEF SaveSecretSd, TypeOK, Control, Entries, StoredSoFar
<1>3. CASE SaveSecretMirror
  BY <1>1, <1>3 DEF SaveSecretMirror, StoredSoFar
<1>4. CASE SaveManifestSd
  BY <1>1, <1>4 DEF SaveManifestSd, Shutdown, Cipher, StoredSoFar
<1>5. CASE DeleteMirror
  BY <1>1, <1>5 DEF DeleteMirror, Control, StoredSoFar
<1>6. CASE PowerLoss
  BY <1>6 DEF PowerLoss, Shutdown, StoredSoFar
<1>7. CASE Pull
  BY <1>1, <1>7 DEF Pull, TearSd, Fault, Cipher, StoredSoFar
<1>8. CASE LoseCard
  BY <1>8
<1>9. CASE SwapCard \/ Insert \/ UNCHANGED vars
  BY <1>9 DEF SwapCard, Insert, vars, Cipher, StoredSoFar
<1>10. CASE AnswerRetry \/ AnswerRestore \/ AnswerCreate \/ NewPassphrase
            \/ EnterPassphrase \/ Lock \/ InitSdDirs \/ InitFlashDirs \/ InitMeta \/ LoadMeta
  BY <1>10 DEF AnswerRetry, AnswerRestore, AnswerCreate, NewPassphrase,
     EnterPassphrase, Lock, InitSdDirs, InitFlashDirs, InitMeta, LoadMeta,
     Shutdown, StoredSoFar
<1>11. CASE Boot \/ CheckSdCard \/ FindVault \/ RestoreDirs \/ RestoreMeta \/ RestoreManifest
            \/ RestoreList \/ RestoreSecrets \/ Restored \/ InitMirror \/ LoadManifest
  BY <1>11 DEF Boot, CheckSdCard, FindVault, RestoreDirs, RestoreMeta, RestoreManifest,
     RestoreList, RestoreSecrets, Restored, InitMirror, LoadManifest, Unlock, StoredSoFar
<1>12. CASE AddSecret \/ SaveManifestMirror \/ OpenSecret \/ LeaveView \/ RevealSecret
            \/ RevealFails \/ HideSecret \/ CloseQr \/ ConfirmDelete \/ DeleteSd
  BY <1>12 DEF AddSecret, SaveManifestMirror, OpenSecret, LeaveView, RevealSecret,
     RevealFails, HideSecret, CloseQr, ConfirmDelete, DeleteSd, StoredSoFar
<1>13. QED
  BY <1>2, <1>3, <1>4, <1>5, <1>6, <1>7, <1>8, <1>9, <1>10, <1>11, <1>12
     DEF Next, User, Program, World

\* The only step that acknowledges a secret finds it on the card.
LEMMA AckStep ==
  ASSUME Inv, StoredSoFar, [Next]_vars
  PROVE  \A a \in acked' \ acked : OnSd(a)'
<1>1. CASE SaveManifestMirror
  <2>1. TypeOK /\ Control
    BY DEF Inv
  <2>2. ASSUME NEW a \in acked' \ acked PROVE OnSd(a)'
    <3>1. op = "add" /\ a = [key |-> key, id |-> cur.id, text |-> cur.text]
      BY <1>1, <2>2 DEF SaveManifestMirror
    <3>2. cur \in Entries /\ key \in Keys
      BY <1>1, <2>1, <3>1 DEF SaveManifestMirror, Control
    <3>3. [id |-> cur.id, text |-> cur.text] = cur
      BY <3>2 DEF Entries
    <3>4. sdManifest = [key |-> key, entries |-> manifest] /\ cur \in manifest
      BY <1>1, <3>1 DEF SaveManifestMirror, StoredSoFar, Cipher
    <3>5. sdManifest \notin {None, Torn}
      <4>1. sdManifest \in [key : Keys, entries : SUBSET Entries]
        BY <2>1, <3>2, <3>4 DEF TypeOK
      <4>2. QED
        BY <4>1, MarkersAssumption
    <3>6. sdSecrets[a.id] = [key |-> a.key, text |-> a.text]
      BY <1>1, <3>1 DEF SaveManifestMirror, StoredSoFar
    <3>7. OnSd(a)
      BY <3>1, <3>3, <3>4, <3>5, <3>6 DEF OnSd, Holds, Opens
    <3>8. QED
      BY <1>1, <3>7 DEF SaveManifestMirror, OnSd, Holds, Opens
  <2>3. QED
    BY <2>2
<1>2. CASE ~SaveManifestMirror
  <2>1. acked' \subseteq acked
    BY <1>2 DEF Next, User, Program, World, vars, Fault,
       Boot, CheckSdCard, AnswerRetry, FindVault, AnswerRestore, AnswerCreate,
       RestoreDirs, RestoreMeta, RestoreManifest, RestoreList, RestoreSecrets, Restored,
       InitSdDirs, InitFlashDirs, InitMeta, InitMirror, NewPassphrase, LoadMeta,
       EnterPassphrase, LoadManifest, Lock, AddSecret, SaveSecretSd, SaveSecretMirror,
       SaveManifestSd, OpenSecret, LeaveView, RevealSecret, RevealFails, HideSecret, CloseQr,
       ConfirmDelete, DeleteSd, DeleteMirror, PowerLoss, Pull, Insert, LoseCard, SwapCard
  <2>2. QED
    BY <2>1
<1>3. QED
  BY <1>1, <1>2

\* "Secret stored!" is shown only for a secret that the card lists and holds
\* under the vault's key, whatever the flash does, whenever the card is pulled
\* and put back, whenever power fails and whatever card the user goes on with,
\* as long as the card is not replaced in the middle of the save.
THEOREM StoredIsOnCardHolds ==
  ASSUME "lose" \notin Faults
  PROVE  Spec => StoredIsOnCard
<1>1. Init => Inv /\ StoredSoFar
  BY InitInv DEF Init, StoredSoFar
<1>2. Inv /\ StoredSoFar /\ [Next]_vars => (Inv /\ StoredSoFar)'
  <2>1. ~LoseCard
    BY DEF LoseCard, Fault
  <2>2. QED
    BY <2>1, InvStep, StoredStep
<1>3. Inv /\ StoredSoFar /\ [Next]_vars => [\A a \in acked' \ acked : OnSd(a)']_vars
  BY AckStep
<1>4. QED
  BY <1>1, <1>2, <1>3, PTL DEF Spec, StoredIsOnCard

----------------------------------------------------------------------------
(* Labels and contents, while the card stays in the slot.                  *)

OpenPcs == {"home", "view", "reveal", "qr", "addSd", "addMirror", "delSd", "delMirror"}

\* What the card's manifest lists.
CardEntries == IF IsManifest(sdManifest) THEN sdManifest.entries ELSE {}

\* Without a lost card the mirror's metadata is never ahead of the card's, so
\* nothing is ever restored; the card is there wherever it is written.
CardStays ==
  /\ sdMeta # None => sdDirs
  /\ flMeta # None \/ pc = "initMirror" => sdMeta # None
  /\ pc \in {"askRestore", "restoreDirs"} => ~mounted
  /\ pc \notin {"restoreMeta", "restoreManifest", "restoreList", "restoreSecrets", "restored"}
  /\ pc \in OpenPcs \cup {"initMirror", "newPass", "askPass", "loadManifest",
                        "saveSd", "saveMirror"}
       => inserted /\ sdDirs

\* The manifest in RAM is the card's, but for the entry being added or removed.
RamIsCard ==
  /\ pc \in OpenPcs \cup {"saveSd"} /\ ~(pc = "saveSd" /\ op = "create")
       => sdManifest # Torn /\ (IsManifest(sdManifest) => sdManifest.key = key)
  /\ pc \in OpenPcs => manifest = CardEntries
  /\ pc = "saveSd" /\ op = "add" => manifest = CardEntries \cup {cur}
  /\ pc = "saveSd" /\ op = "delete" => manifest \subseteq CardEntries
  /\ pc \notin OpenPcs \cup {"saveSd", "saveMirror"} \/ (pc = "saveSd" /\ op = "create")
       => manifest = {}
  /\ pc \in {"view", "reveal", "qr", "delSd"} => cur \in manifest

NoCardFaults == Faults \cap {"pull", "lose", "swap"} = {}

LEMMA CardStaysStep ==
  ASSUME Inv, CardStays, [Next]_vars, ~Pull, ~LoseCard, ~SwapCard
  PROVE  CardStays'
<1>1. Torn # None /\ \A s \in Salts : s # None
  BY MarkersAssumption
<1>2. CASE Boot \/ CheckSdCard \/ Restored
  BY <1>2 DEF Boot, CheckSdCard, Restored, CardStays, OpenPcs
<1>3. CASE FindVault
  BY <1>3 DEF FindVault, VaultExistsSd, VaultExistsFlash, CardStays, OpenPcs
<1>4. CASE AnswerRetry \/ AnswerRestore \/ AnswerCreate \/ NewPassphrase \/ EnterPassphrase \/ Lock
  BY <1>4 DEF AnswerRetry, AnswerRestore, AnswerCreate, NewPassphrase,
     EnterPassphrase, Lock,
     Shutdown, CardStays, OpenPcs
<1>5. CASE RestoreDirs \/ RestoreMeta \/ RestoreManifest \/ RestoreList \/ RestoreSecrets
  BY <1>5 DEF RestoreDirs, RestoreMeta, RestoreManifest, RestoreList, RestoreSecrets,
     CardStays, OpenPcs
<1>6. CASE InitSdDirs \/ InitFlashDirs
  BY <1>6 DEF InitSdDirs, InitFlashDirs, Shutdown, CardStays, OpenPcs
<1>7. CASE InitMeta
  <2>1. salts + 1 # None
    BY <1>1, <1>7, BoundsAssumption DEF InitMeta, Inv, TypeOK, Control, Salts
  <2>2. QED
    BY <1>7, <2>1 DEF InitMeta, SdWritable, Shutdown, CardStays, OpenPcs
<1>8. CASE InitMirror
  BY <1>8 DEF InitMirror, CardStays, OpenPcs
<1>9. CASE LoadMeta
  BY <1>1, <1>9 DEF LoadMeta, Shutdown, CardStays, OpenPcs
<1>10. CASE LoadManifest
  BY <1>10 DEF LoadManifest, Unlock, CardStays, OpenPcs
<1>11. CASE AddSecret \/ SaveSecretSd \/ SaveSecretMirror \/ SaveManifestSd \/ SaveManifestMirror
  BY <1>11 DEF AddSecret, SaveSecretSd, SaveSecretMirror, SaveManifestSd,
     SaveManifestMirror,
     Shutdown, CardStays, OpenPcs
<1>12. CASE OpenSecret \/ LeaveView \/ RevealSecret \/ RevealFails \/ HideSecret \/ CloseQr
            \/ ConfirmDelete \/ DeleteSd \/ DeleteMirror
  BY <1>12 DEF OpenSecret, LeaveView, RevealSecret, RevealFails, HideSecret, CloseQr,
     ConfirmDelete,
     DeleteSd, DeleteMirror, CardStays, OpenPcs
<1>13. CASE PowerLoss
  BY <1>1, <1>13 DEF PowerLoss, TearSd, TearFlash, SdWritable, Shutdown, CardStays,
     OpenPcs
<1>14. CASE Pull \/ LoseCard \/ SwapCard
  BY <1>14
<1>15. CASE Insert \/ UNCHANGED vars
  BY <1>15 DEF Insert, vars, CardStays, OpenPcs
<1>16. QED
  BY <1>2, <1>3, <1>4, <1>5, <1>6, <1>7, <1>8, <1>9, <1>10, <1>11, <1>12, <1>13,
     <1>14, <1>15
     DEF Next, User, Program, World

LEMMA RamIsCardStep ==
  ASSUME Inv, CardStays, StoredSoFar, RamIsCard, [Next]_vars, ~Pull, ~LoseCard, ~SwapCard
  PROVE  RamIsCard'
<1>1. TypeOK /\ Control
  BY DEF Inv
<1>2. CASE Boot \/ CheckSdCard \/ FindVault \/ Restored \/ InitMirror
  BY <1>2 DEF Boot, CheckSdCard, FindVault, Restored, InitMirror, RamIsCard, OpenPcs
<1>3. CASE AnswerRetry \/ AnswerRestore \/ AnswerCreate \/ InitSdDirs \/ InitFlashDirs
            \/ InitMeta \/ LoadMeta \/ EnterPassphrase \/ Lock
  BY <1>3 DEF AnswerRetry, AnswerRestore, AnswerCreate, InitSdDirs, InitFlashDirs,
     InitMeta,
     LoadMeta, EnterPassphrase, Lock, Shutdown, ClearRam, RamIsCard, OpenPcs
<1>4. CASE NewPassphrase
  BY <1>4 DEF NewPassphrase, Shutdown, ClearRam, RamIsCard, OpenPcs
<1>5. CASE RestoreDirs \/ RestoreMeta \/ RestoreManifest \/ RestoreList \/ RestoreSecrets
  BY <1>5 DEF RestoreDirs, RestoreMeta, RestoreManifest, RestoreList, RestoreSecrets,
     CardStays, RamIsCard, OpenPcs
<1>6. CASE LoadManifest
  BY <1>6, MarkersAssumption DEF LoadManifest, Unlock, Opens, IsManifest, CardEntries,
     CardStays, RamIsCard, OpenPcs
<1>7. CASE AddSecret \/ OpenSecret \/ LeaveView \/ RevealSecret \/ RevealFails \/ HideSecret \/ CloseQr
           \/ ConfirmDelete \/ SaveSecretSd \/ DeleteSd
  BY <1>7 DEF AddSecret, OpenSecret, LeaveView, RevealSecret, RevealFails, HideSecret, CloseQr,
     ConfirmDelete, SaveSecretSd, DeleteSd, IsManifest, CardEntries, RamIsCard, OpenPcs
<1>8. CASE SaveSecretMirror
  BY <1>1, <1>8 DEF SaveSecretMirror, Control, IsManifest, CardEntries, RamIsCard, OpenPcs
<1>9. CASE DeleteMirror
  BY <1>1, <1>9 DEF DeleteMirror, Control, IsManifest, CardEntries, RamIsCard, OpenPcs
<1>10. CASE SaveManifestSd
  BY <1>10 DEF SaveManifestSd, SdWritable, CardStays, RamIsCard, OpenPcs
<1>11. CASE SaveManifestMirror
  <2>1. Cipher \in Keys
    BY <1>1, <1>11 DEF SaveManifestMirror, Control, Cipher
  <2>2. sdManifest = [key |-> Cipher, entries |-> manifest]
    BY <1>11 DEF SaveManifestMirror, StoredSoFar
  <2>3. sdManifest \in [key : Keys, entries : SUBSET Entries]
    BY <1>1, <2>1, <2>2 DEF TypeOK
  <2>4. IsManifest(sdManifest)
    BY <2>3, MarkersAssumption DEF IsManifest
  <2>5. QED
    BY <1>11, <2>2, <2>4 DEF SaveManifestMirror, IsManifest, CardEntries, RamIsCard,
       OpenPcs
<1>12. CASE PowerLoss
  BY <1>12 DEF PowerLoss, Shutdown, ClearRam, RamIsCard, OpenPcs
<1>13. CASE Pull \/ LoseCard \/ SwapCard
  BY <1>13
<1>14. CASE Insert \/ UNCHANGED vars
  BY <1>14 DEF Insert, vars, IsManifest, CardEntries, RamIsCard, OpenPcs
<1>15. QED
  BY <1>2, <1>3, <1>4, <1>5, <1>6, <1>7, <1>8, <1>9, <1>10, <1>11, <1>12, <1>13, <1>14
     DEF Next, User, Program, World

LEMMA LabelStep ==
  ASSUME Inv, IdInv, CardStays, StoredSoFar, RamIsCard,
         LabelMatchesContent, [Next]_vars, ~Pull, ~LoseCard, ~SwapCard
  PROVE  LabelMatchesContent'
<1>1. TypeOK /\ Control
  BY DEF Inv
<1>2. CASE SaveSecretSd
  <2>1. \A e \in CardEntries : e.id # cur.id
    BY <1>2 DEF SaveSecretSd, RamIsCard, OpenPcs, IdInv, FreshId
  <2>2. \A i \in Ids : i # cur.id => sdSecrets'[i] = sdSecrets[i]
    BY <1>1, <1>2 DEF SaveSecretSd, TypeOK
  <2>3. IsManifest(sdManifest) => \A e \in sdManifest.entries : e.id \in Ids
    BY <1>1 DEF TypeOK, ManifestFiles, IsManifest, Entries
  <2>4. QED
    BY <1>2, <2>1, <2>2, <2>3 DEF SaveSecretSd, CardEntries, IsManifest,
       LabelMatchesContent
<1>3. CASE SaveManifestSd
  <2>1. SdWritable
    BY <1>3 DEF SaveManifestSd, SdWritable, CardStays, OpenPcs
  <2>2. sdManifest' = [key |-> Cipher, entries |-> manifest] /\ sdSecrets' = sdSecrets
    BY <1>3, <2>1 DEF SaveManifestSd
  <2>3. CASE op = "create"
    BY <1>3, <2>2, <2>3 DEF SaveManifestSd, RamIsCard, LabelMatchesContent
  <2>4. CASE op \in {"add", "delete"}
    <3>1. Cipher = key
      BY <2>4 DEF Cipher
    <3>2. \A e \in CardEntries :
            sdSecrets[e.id] \in {None, Torn, [key |-> key, text |-> e.text]}
      BY <1>3, <2>4 DEF SaveManifestSd, RamIsCard, OpenPcs, CardEntries,
         LabelMatchesContent
    <3>3. \A e \in manifest :
            sdSecrets[e.id] \in {None, Torn, [key |-> key, text |-> e.text]}
      BY <1>3, <2>4, <3>2 DEF SaveManifestSd, RamIsCard, StoredSoFar
    <3>4. QED
      BY <2>2, <3>1, <3>3 DEF LabelMatchesContent
  <2>5. QED
    BY <1>1, <1>3, <2>3, <2>4 DEF SaveManifestSd, Control
<1>4. CASE DeleteSd
  <2>1. \A i \in Ids : sdSecrets'[i] \in {sdSecrets[i], None}
    BY <1>1, <1>4 DEF DeleteSd, TypeOK
  <2>2. IsManifest(sdManifest) => \A e \in sdManifest.entries : e.id \in Ids
    BY <1>1 DEF TypeOK, ManifestFiles, IsManifest, Entries
  <2>3. QED
    BY <1>4, <2>1, <2>2 DEF DeleteSd, IsManifest, LabelMatchesContent
<1>5. CASE PowerLoss
  <2>1. CASE UNCHANGED <<sdManifest, sdSecrets>> \/ sdManifest' = Torn
    BY <2>1 DEF IsManifest, LabelMatchesContent
  <2>2. CASE ~(UNCHANGED <<sdManifest, sdSecrets>> \/ sdManifest' = Torn)
    <3>1. PICK i \in Ids : sdSecrets' = [sdSecrets EXCEPT ![i] = Torn] /\ UNCHANGED sdManifest
      BY <1>5, <2>2 DEF PowerLoss, TearSd, TearFlash
    <3>2. \A j \in Ids : sdSecrets'[j] \in {sdSecrets[j], Torn}
      BY <1>1, <3>1 DEF TypeOK
    <3>3. IsManifest(sdManifest) => \A e \in sdManifest.entries : e.id \in Ids
      BY <1>1 DEF TypeOK, ManifestFiles, IsManifest, Entries
    <3>4. QED
      BY <3>1, <3>2, <3>3 DEF IsManifest, LabelMatchesContent
  <2>3. QED
    BY <2>1, <2>2
<1>6. CASE RestoreManifest \/ RestoreSecrets
  BY <1>6 DEF RestoreManifest, RestoreSecrets, CardStays
<1>7. CASE Pull \/ LoseCard \/ SwapCard
  BY <1>7
<1>8. CASE ~(SaveSecretSd \/ SaveManifestSd \/ DeleteSd \/ PowerLoss \/ RestoreManifest
             \/ RestoreSecrets \/ Pull \/ LoseCard \/ SwapCard)
  <2>1. UNCHANGED <<sdManifest, sdSecrets>>
    BY <1>8 DEF Next, User, Program, World, vars,
       Boot, CheckSdCard, AnswerRetry, FindVault, AnswerRestore, AnswerCreate,
       RestoreDirs, RestoreMeta, RestoreList, Restored, InitSdDirs, InitFlashDirs,
       InitMeta, InitMirror, NewPassphrase, LoadMeta, EnterPassphrase, LoadManifest,
       Lock, AddSecret, SaveSecretMirror, SaveManifestMirror, OpenSecret, LeaveView,
       RevealSecret, RevealFails, HideSecret, CloseQr, ConfirmDelete, DeleteMirror, Insert
  <2>2. QED
    BY <2>1 DEF IsManifest, LabelMatchesContent
<1>9. QED
  BY <1>2, <1>3, <1>4, <1>5, <1>6, <1>7, <1>8

LabelInv == Inv /\ IdInv /\ CardStays /\ StoredSoFar /\ RamIsCard /\ LabelMatchesContent

LEMMA LabelInvHolds == ASSUME NoCardFaults PROVE Spec => []LabelInv
<1>1. Init => LabelInv
  <2>1. SUFFICES ASSUME Init PROVE LabelInv
    OBVIOUS
  <2>2. Inv /\ IdInv
    BY <2>1, InitInv, InitIdInv
  <2>3. CardStays
    BY <2>1 DEF Init, CardStays, OpenPcs
  <2>4. StoredSoFar /\ RamIsCard
    BY <2>1 DEF Init, StoredSoFar, RamIsCard, OpenPcs
  <2>5. LabelMatchesContent
    BY <2>1 DEF Init, LabelMatchesContent, IsManifest
  <2>6. QED
    BY <2>2, <2>3, <2>4, <2>5 DEF LabelInv
<1>2. LabelInv /\ [Next]_vars => LabelInv'
  <2>1. ~Pull /\ ~LoseCard /\ ~SwapCard
    BY DEF Pull, LoseCard, SwapCard, Fault, NoCardFaults
  <2>2. QED
    BY <2>1, InvStep, IdInvStep, CardStaysStep, StoredStep, RamIsCardStep, LabelStep
       DEF LabelInv
<1>3. QED
  BY <1>1, <1>2, PTL DEF Spec

\* However often power fails, in the middle of whatever write, and whatever
\* the flash does, the card's manifest never points at another secret's file.
THEOREM LabelMatchesContentHolds ==
  ASSUME NoCardFaults
  PROVE  Spec => []LabelMatchesContent
<1>1. LabelInv => LabelMatchesContent
  BY DEF LabelInv
<1>2. QED
  BY <1>1, LabelInvHolds, PTL

LEMMA RevealStep ==
  ASSUME LabelInv, RevealShowsEntry, [Next]_vars
  PROVE  RevealShowsEntry'
<1>1. TypeOK /\ Control
  BY DEF LabelInv, Inv
<1>2. CASE RevealSecret
  <2>1. cur \in CardEntries /\ IsManifest(sdManifest) /\ sdManifest.key = key
    BY <1>2 DEF RevealSecret, LabelInv, RamIsCard, OpenPcs, CardEntries
  <2>2. sdSecrets[cur.id] \in {None, Torn, [key |-> key, text |-> cur.text]}
    BY <2>1 DEF LabelInv, LabelMatchesContent, CardEntries
  <2>3. sdSecrets[cur.id] = [key |-> key, text |-> cur.text]
    BY <1>2, <2>2 DEF RevealSecret, Opens
  <2>4. QED
    BY <1>2, <2>3 DEF RevealSecret, RevealShowsEntry
<1>3. CASE HideSecret \/ CloseQr \/ UNCHANGED vars \/ Insert
  BY <1>3 DEF HideSecret, CloseQr, Insert, vars, RevealShowsEntry
<1>4. CASE PowerLoss
  BY <1>4 DEF PowerLoss, Shutdown, ClearRam, RevealShowsEntry
<1>5. CASE Pull \/ LoseCard \/ SwapCard
  BY <1>5 DEF Pull, LoseCard, SwapCard, RevealShowsEntry
<1>6. CASE AnswerRetry \/ AnswerRestore \/ AnswerCreate \/ NewPassphrase \/ EnterPassphrase
           \/ Lock \/ InitSdDirs \/ InitFlashDirs \/ InitMeta \/ LoadMeta \/ SaveManifestSd
  BY <1>6 DEF AnswerRetry, AnswerRestore, AnswerCreate, NewPassphrase, EnterPassphrase,
     Lock, InitSdDirs, InitFlashDirs, InitMeta, LoadMeta, SaveManifestSd,
     Shutdown, ClearRam, RevealShowsEntry
<1>7. CASE Boot \/ CheckSdCard \/ FindVault \/ RestoreDirs \/ RestoreMeta \/ RestoreManifest
           \/ RestoreList \/ RestoreSecrets \/ Restored \/ InitMirror \/ LoadManifest
  BY <1>7 DEF Boot, CheckSdCard, FindVault, RestoreDirs, RestoreMeta, RestoreManifest,
     RestoreList, RestoreSecrets, Restored, InitMirror, LoadManifest, Unlock, RevealShowsEntry
<1>8. CASE AddSecret \/ SaveSecretSd \/ SaveSecretMirror \/ SaveManifestMirror \/ OpenSecret
           \/ LeaveView \/ RevealFails \/ ConfirmDelete \/ DeleteSd \/ DeleteMirror
  BY <1>8 DEF AddSecret, SaveSecretSd, SaveSecretMirror, SaveManifestMirror, OpenSecret,
     LeaveView, RevealFails, ConfirmDelete, DeleteSd, DeleteMirror, RevealShowsEntry
<1>9. QED
  BY <1>2, <1>3, <1>4, <1>5, <1>6, <1>7, <1>8 DEF Next, User, Program, World

\* What VaultView puts on the screen is the secret that was selected, and
\* the screen is cleared on the way out.
THEOREM RevealShowsEntryHolds ==
  ASSUME NoCardFaults
  PROVE  Spec => []RevealShowsEntry
<1>1. Init => RevealShowsEntry
  BY DEF Init, RevealShowsEntry
<1>2. LabelInv /\ RevealShowsEntry /\ [Next]_vars => RevealShowsEntry'
  BY RevealStep
<1>3. QED
  BY <1>1, <1>2, LabelInvHolds, PTL DEF Spec

----------------------------------------------------------------------------
(* Card and mirror, when power is all that fails.                          *)

SavePcs == {"saveSd", "saveMirror"}

\* Vaults made on this device, and a flash that does not fail.
OwnVaults == InitialCards \subseteq {"blank"} /\ "flash" \notin Faults

\* The directories of the mirror are there before anything is written that
\* belongs to a vault.
FlashReady ==
  /\ flMeta # None \/ sdMeta # None => flDirs
  /\ pc \in {"initMeta", "initMirror", "newPass", "restoreMeta", "askPass", "loadManifest"}
            \cup OpenPcs \cup SavePcs => flDirs
  /\ flDirs => FlashDirs
  /\ pc \in {"askRestore", "restoreDirs", "restoreMeta"} => flMeta # None

\* A secret reaches the mirror before a manifest lists it.
MirrorWritten ==
  pc \in SavePcs /\ op = "add" => flSecrets[cur.id] = [key |-> key, text |-> cur.text]

LEMMA FlashReadyStep ==
  ASSUME FlashReady, [Next]_vars, ~SwapCard
  PROVE  FlashReady'
<1>1. \A s \in Salts : s # None
  BY MarkersAssumption
<1>2. CASE Boot \/ CheckSdCard \/ Restored \/ FindVault
  BY <1>2 DEF Boot, CheckSdCard, Restored, FindVault, VaultExistsSd, VaultExistsFlash,
     FlashReady, OpenPcs, SavePcs
<1>3. CASE AnswerRetry \/ AnswerRestore \/ AnswerCreate \/ NewPassphrase \/ EnterPassphrase \/ Lock
  BY <1>3 DEF AnswerRetry, AnswerRestore, AnswerCreate, NewPassphrase,
     EnterPassphrase, Lock, Shutdown, FlashReady, OpenPcs, SavePcs
<1>4. CASE RestoreDirs \/ RestoreMeta \/ RestoreManifest \/ RestoreList \/ RestoreSecrets
  BY <1>4 DEF RestoreDirs, RestoreMeta, RestoreManifest, RestoreList, RestoreSecrets,
     FlashReady, OpenPcs, SavePcs
<1>5. CASE InitSdDirs \/ InitFlashDirs \/ InitMeta \/ InitMirror
  BY <1>5 DEF InitSdDirs, InitFlashDirs, InitMeta, InitMirror, Shutdown,
     FlashReady, OpenPcs, SavePcs
<1>6. CASE LoadMeta \/ LoadManifest
  BY <1>1, <1>6 DEF LoadMeta, LoadManifest, Unlock, Shutdown, FlashReady, OpenPcs, SavePcs
<1>7. CASE AddSecret \/ SaveSecretSd \/ SaveSecretMirror \/ SaveManifestSd \/ SaveManifestMirror
  BY <1>7 DEF AddSecret, SaveSecretSd, SaveSecretMirror, SaveManifestSd,
     SaveManifestMirror, Shutdown, FlashReady, OpenPcs, SavePcs
<1>8. CASE OpenSecret \/ LeaveView \/ RevealSecret \/ RevealFails \/ HideSecret \/ CloseQr
           \/ ConfirmDelete \/ DeleteSd \/ DeleteMirror
  BY <1>8 DEF OpenSecret, LeaveView, RevealSecret, RevealFails, HideSecret, CloseQr,
     ConfirmDelete, DeleteSd, DeleteMirror, FlashReady, OpenPcs, SavePcs
<1>9. CASE PowerLoss \/ Pull
  BY <1>9 DEF PowerLoss, Pull, TearSd, TearFlash, Shutdown, FlashReady, OpenPcs, SavePcs
<1>10. CASE LoseCard \/ Insert \/ UNCHANGED vars
  BY <1>10 DEF LoseCard, Insert, vars, FlashReady, OpenPcs, SavePcs
<1>11. QED
  BY <1>2, <1>3, <1>4, <1>5, <1>6, <1>7, <1>8, <1>9, <1>10 DEF Next, User, Program, World

\* The mirror takes every write.
LEMMA MirrorTakes ==
  ASSUME OwnVaults, FlashReady, pc \in OpenPcs \cup SavePcs \cup {"initMirror"}
  PROVE  \A old, new : MirrorOutcomes(old, new) = {new}
BY DEF OwnVaults, FlashReady, MirrorOutcomes, FlashWritable

LEMMA MirrorWrittenStep ==
  ASSUME OwnVaults, Inv, FlashReady, MirrorWritten, [Next]_vars
  PROVE  MirrorWritten'
<1>1. TypeOK /\ Control
  BY DEF Inv
<1>2. CASE SaveSecretMirror
  <2> DEFINE new == [key |-> key, text |-> cur.text]
  <2>0. MirrorOutcomes(flSecrets[cur.id], new) = {new}
    BY <1>2, MirrorTakes DEF SaveSecretMirror, OpenPcs
  <2>1. flSecrets' = [flSecrets EXCEPT ![cur.id] = new]
    BY <1>2, <2>0 DEF SaveSecretMirror
  <2>2. cur.id \in DOMAIN flSecrets
    BY <1>1, <1>2 DEF SaveSecretMirror, TypeOK, Control, Entries
  <2>3. QED
    BY <1>2, <2>1, <2>2 DEF SaveSecretMirror, MirrorWritten
<1>3. CASE SaveManifestSd
  BY <1>3 DEF SaveManifestSd, Shutdown, MirrorWritten, SavePcs
<1>4. CASE DeleteMirror
  BY <1>1, <1>4 DEF DeleteMirror, Control, MirrorWritten, SavePcs
<1>5. CASE PowerLoss \/ Pull
  BY <1>5 DEF PowerLoss, Pull, Shutdown, MirrorWritten, SavePcs
<1>6. CASE LoseCard \/ SwapCard \/ Insert \/ UNCHANGED vars
  BY <1>6 DEF LoseCard, SwapCard, Insert, vars, MirrorWritten, SavePcs
<1>7. CASE AnswerRetry \/ AnswerRestore \/ AnswerCreate \/ NewPassphrase
           \/ EnterPassphrase \/ Lock \/ InitSdDirs \/ InitFlashDirs \/ InitMeta \/ LoadMeta
  BY <1>7 DEF AnswerRetry, AnswerRestore, AnswerCreate, NewPassphrase,
     EnterPassphrase, Lock, InitSdDirs, InitFlashDirs, InitMeta, LoadMeta,
     Shutdown, MirrorWritten, SavePcs
<1>8. CASE Boot \/ CheckSdCard \/ FindVault \/ RestoreDirs \/ RestoreMeta \/ RestoreManifest
           \/ RestoreList \/ RestoreSecrets \/ Restored \/ InitMirror \/ LoadManifest
  BY <1>8 DEF Boot, CheckSdCard, FindVault, RestoreDirs, RestoreMeta, RestoreManifest,
     RestoreList, RestoreSecrets, Restored, InitMirror, LoadManifest, Unlock,
     MirrorWritten, SavePcs
<1>9. CASE AddSecret \/ SaveSecretSd \/ SaveManifestMirror \/ OpenSecret \/ LeaveView
           \/ RevealSecret \/ RevealFails \/ HideSecret \/ CloseQr \/ ConfirmDelete \/ DeleteSd
  BY <1>9 DEF AddSecret, SaveSecretSd, SaveManifestMirror, OpenSecret, LeaveView,
     RevealSecret, RevealFails, HideSecret, CloseQr, ConfirmDelete, DeleteSd, MirrorWritten, SavePcs
<1>10. QED
  BY <1>2, <1>3, <1>4, <1>5, <1>6, <1>7, <1>8, <1>9 DEF Next, User, Program, World

LEMMA ManifestIsOne ==
  ASSUME Inv, pc \in SavePcs
  PROVE  IsManifest([key |-> Cipher, entries |-> manifest])
<1>1. Cipher \in Keys
  BY DEF Inv, TypeOK, Control, SavePcs, Cipher
<1>2. [key |-> Cipher, entries |-> manifest] \in [key : Keys, entries : SUBSET Entries]
  BY <1>1 DEF Inv, TypeOK
<1>3. QED
  BY <1>2, MarkersAssumption DEF IsManifest

\* Before a vault is open there is no key, and the mirror's manifest is never
\* written before the card's.
Locked ==
  /\ pc \notin OpenPcs \cup SavePcs => key = None
  /\ flManifest # None => sdManifest # None

LEMMA LockedStep ==
  ASSUME LabelInv, Locked, [Next]_vars, ~Pull, ~LoseCard, ~SwapCard
  PROVE  Locked'
<1>1. Inv /\ CardStays /\ StoredSoFar
  BY DEF LabelInv
<1>2. Torn # None
  BY MarkersAssumption
<1>3. CASE SaveManifestSd
  BY <1>1, <1>3, ManifestIsOne DEF SaveManifestSd, Shutdown, ClearRam, IsManifest,
     Locked, OpenPcs, SavePcs
<1>4. CASE SaveManifestMirror
  BY <1>1, <1>4, ManifestIsOne DEF SaveManifestMirror, StoredSoFar, IsManifest, Locked,
     OpenPcs, SavePcs
<1>5. CASE PowerLoss
  <2>1. pc = "saveMirror" => sdManifest # None
    BY <1>1, ManifestIsOne DEF StoredSoFar, IsManifest, SavePcs
  <2>2. QED
    BY <1>2, <1>5, <2>1 DEF PowerLoss, TearSd, TearFlash, Shutdown, ClearRam, Locked,
       OpenPcs, SavePcs
<1>6. CASE Pull \/ LoseCard \/ SwapCard
  BY <1>6
<1>7. CASE RestoreDirs \/ RestoreMeta \/ RestoreManifest \/ RestoreList \/ RestoreSecrets
           \/ Restored
  BY <1>1, <1>7 DEF RestoreDirs, RestoreMeta, RestoreManifest, RestoreList,
     RestoreSecrets, Restored, CardStays, Locked, OpenPcs, SavePcs
<1>8. CASE AnswerRetry \/ AnswerRestore \/ AnswerCreate \/ NewPassphrase
           \/ EnterPassphrase \/ Lock \/ InitSdDirs \/ InitFlashDirs \/ InitMeta \/ LoadMeta
  BY <1>8 DEF AnswerRetry, AnswerRestore, AnswerCreate, NewPassphrase,
     EnterPassphrase, Lock, InitSdDirs, InitFlashDirs, InitMeta, LoadMeta,
     Shutdown, ClearRam, Locked, OpenPcs, SavePcs
<1>9. CASE Boot \/ CheckSdCard \/ FindVault \/ InitMirror \/ LoadManifest \/ Insert
           \/ UNCHANGED vars
  BY <1>9 DEF Boot, CheckSdCard, FindVault, InitMirror, LoadManifest, Unlock, Insert, vars,
     Locked, OpenPcs, SavePcs
<1>10. CASE AddSecret \/ SaveSecretSd \/ SaveSecretMirror \/ OpenSecret \/ LeaveView
           \/ RevealSecret \/ RevealFails \/ HideSecret \/ CloseQr \/ ConfirmDelete \/ DeleteSd \/ DeleteMirror
  BY <1>10 DEF AddSecret, SaveSecretSd, SaveSecretMirror, OpenSecret, LeaveView,
     RevealSecret, RevealFails, HideSecret, CloseQr, ConfirmDelete, DeleteSd, DeleteMirror, Locked,
     OpenPcs, SavePcs
<1>11. QED
  BY <1>3, <1>4, <1>5, <1>6, <1>7, <1>8, <1>9, <1>10 DEF Next, User, Program, World

\* The only step from loadManifest that sets the key reads the manifest.
LEMMA UnlockStep ==
  ASSUME LabelInv, Locked, [Next]_vars, ~Pull, ~LoseCard, ~SwapCard,
         pc = "loadManifest", key' # None, ~UNCHANGED vars
  PROVE  \/ Opens(sdManifest', key')
         \/ sdManifest' = None /\ flManifest' = None
<1>1. key = None /\ inserted
  BY DEF LabelInv, CardStays, Locked, OpenPcs, SavePcs
<1>2. CASE LoadManifest
  BY <1>1, <1>2 DEF LoadManifest, Unlock, Opens, Locked
<1>3. CASE PowerLoss
  BY <1>3 DEF PowerLoss, Shutdown, ClearRam
<1>4. ~Insert
  BY <1>1 DEF Insert
<1>5. LoadManifest \/ PowerLoss
  BY <1>4 DEF Next, User, Program, World,
     Boot, CheckSdCard, AnswerRetry, FindVault, AnswerRestore, AnswerCreate,
     RestoreDirs, RestoreMeta, RestoreManifest, RestoreList, RestoreSecrets, Restored,
     InitSdDirs, InitFlashDirs, InitMeta, InitMirror, NewPassphrase, LoadMeta,
     EnterPassphrase, Lock, AddSecret, SaveSecretSd, SaveSecretMirror,
     SaveManifestSd, SaveManifestMirror, OpenSecret, LeaveView, RevealSecret, RevealFails,
     HideSecret, CloseQr, ConfirmDelete, DeleteSd, DeleteMirror
<1>6. QED
  BY <1>2, <1>3, <1>5

\* While the card stays in the slot, a vault that has a manifest in either copy
\* is unlocked by no key but the one its card's manifest was written with,
\* however often power fails and whatever the flash does.
THEOREM UnlockProvesPassphraseHolds ==
  ASSUME NoCardFaults
  PROVE  Spec => UnlockProvesPassphrase
<1>1. ~Pull /\ ~LoseCard /\ ~SwapCard
  BY DEF Pull, LoseCard, SwapCard, Fault, NoCardFaults
<1>2. Init => Locked
  BY DEF Init, Locked, OpenPcs, SavePcs
<1>3. LabelInv /\ Locked /\ [Next]_vars => Locked'
  BY <1>1, LockedStep
<1>4. LabelInv /\ Locked /\ [Next]_vars =>
        [pc = "loadManifest" /\ key' # None =>
           \/ Opens(sdManifest', key')
           \/ sdManifest' = None /\ flManifest' = None]_vars
  BY <1>1, UnlockStep
<1>5. QED
  BY <1>2, <1>3, <1>4, LabelInvHolds, PTL DEF Spec, UnlockProvesPassphrase

\* The card answers while the vault is open, and what a deletion has removed so
\* far.
Removed ==
  /\ pc \in OpenPcs \cup {"saveMirror"} => mounted
  /\ pc = "delMirror" \/ (pc \in SavePcs /\ op = "delete") => sdSecrets[cur.id] = None
  /\ pc \in SavePcs /\ op = "delete" =>
       flSecrets[cur.id] = None /\ \A e \in manifest : e.id # cur.id

LEMMA RemovedStep ==
  ASSUME "flash" \notin Faults, LabelInv, Removed, [Next]_vars, ~Pull, ~LoseCard, ~SwapCard
  PROVE  Removed'
<1>1. TypeOK /\ Control /\ CardStays
  BY DEF LabelInv, Inv
<1>2. CASE DeleteSd
  <2>1. mounted /\ cur.id \in DOMAIN sdSecrets
    BY <1>1, <1>2 DEF DeleteSd, TypeOK, Control, Entries, Removed, OpenPcs
  <2>2. QED
    BY <1>2, <2>1 DEF DeleteSd, Removed, OpenPcs, SavePcs
<1>3. CASE DeleteMirror
  <2>1. cur.id \in DOMAIN flSecrets /\ op = "delete"
    BY <1>1, <1>3 DEF DeleteMirror, TypeOK, Control, Entries
  <2>2. flSecrets' = [flSecrets EXCEPT ![cur.id] = None]
    BY <1>3 DEF DeleteMirror
  <2>3. QED
    BY <1>3, <2>1, <2>2 DEF DeleteMirror, Removed, OpenPcs, SavePcs
<1>4. CASE SaveManifestSd
  BY <1>1, <1>4 DEF SaveManifestSd, SdWritable, CardStays, Removed, OpenPcs, SavePcs
<1>5. CASE SaveSecretMirror \/ SaveSecretSd \/ AddSecret
  BY <1>1, <1>5 DEF SaveSecretMirror, SaveSecretSd, AddSecret, Control, CardStays,
     Removed, OpenPcs, SavePcs
<1>6. CASE SaveManifestMirror \/ OpenSecret \/ LeaveView \/ RevealSecret \/ RevealFails
           \/ HideSecret \/ CloseQr \/ ConfirmDelete
  BY <1>1, <1>6 DEF SaveManifestMirror, OpenSecret, LeaveView, RevealSecret, RevealFails,
     HideSecret, CloseQr, ConfirmDelete, CardStays, Removed, OpenPcs, SavePcs
<1>7. CASE PowerLoss
  BY <1>7 DEF PowerLoss, Shutdown, Removed, OpenPcs, SavePcs
<1>8. CASE Pull \/ LoseCard \/ SwapCard
  BY <1>8
<1>9. CASE AnswerRetry \/ AnswerRestore \/ AnswerCreate \/ NewPassphrase
           \/ EnterPassphrase \/ Lock \/ InitSdDirs \/ InitFlashDirs \/ InitMeta \/ LoadMeta
  BY <1>9 DEF AnswerRetry, AnswerRestore, AnswerCreate, NewPassphrase,
     EnterPassphrase, Lock, InitSdDirs, InitFlashDirs, InitMeta, LoadMeta,
     Shutdown, Removed, OpenPcs, SavePcs
<1>10. CASE Boot \/ CheckSdCard \/ FindVault \/ RestoreDirs \/ RestoreMeta \/ RestoreManifest
           \/ RestoreList \/ RestoreSecrets \/ Restored \/ InitMirror \/ LoadManifest
  BY <1>1, <1>10 DEF Boot, CheckSdCard, FindVault, RestoreDirs, RestoreMeta,
     RestoreManifest, RestoreList, RestoreSecrets, Restored, InitMirror, LoadManifest,
     Unlock, CardStays, Removed, OpenPcs, SavePcs
<1>11. CASE Insert \/ UNCHANGED vars
  BY <1>11 DEF Insert, vars, Removed, OpenPcs, SavePcs
<1>12. QED
  BY <1>2, <1>3, <1>4, <1>5, <1>6, <1>7, <1>8, <1>9, <1>10, <1>11
     DEF Next, User, Program, World

\* A step that ends an operation.
LEMMA SucceedsIsSave == ASSUME Succeeds, [Next]_vars PROVE SaveManifestMirror
  BY DEF Succeeds, Next, User, Program, World, vars, Fault, Shutdown, Unlock,
     Boot, CheckSdCard, AnswerRetry, FindVault, AnswerRestore, AnswerCreate,
     RestoreDirs, RestoreMeta, RestoreManifest, RestoreList, RestoreSecrets, Restored,
     InitSdDirs, InitFlashDirs, InitMeta, InitMirror, NewPassphrase, LoadMeta,
     EnterPassphrase, LoadManifest, Lock, AddSecret, SaveSecretSd, SaveSecretMirror,
     SaveManifestSd, OpenSecret, LeaveView, RevealSecret, RevealFails, HideSecret, CloseQr,
     ConfirmDelete, DeleteSd, DeleteMirror, PowerLoss, Pull, Insert, LoseCard, SwapCard

\* Without pulls a card that does not answer holds no secret: it has just been
\* put in.
CardAnswers ==
  "pull" \notin Faults =>
    /\ mounted => inserted
    /\ ~inserted \/ (~mounted /\ pc # "off") => \A i \in Ids : sdSecrets[i] = None

\* What a deletion has achieved so far, under any faults.
Deleted ==
  /\ pc \in SavePcs /\ op = "delete" => \A e \in manifest : e.id # cur.id
  /\ pc = "saveMirror" => sdManifest \in {None, [key |-> Cipher, entries |-> manifest]}
  /\ "pull" \notin Faults =>
       (pc = "delMirror" \/ (pc \in SavePcs /\ op = "delete") => sdSecrets[cur.id] = None)
  /\ "flash" \notin Faults =>
       (pc \in SavePcs /\ op = "delete" => flSecrets[cur.id] = None)
  /\ FlashWritable \/ flManifest = None

LEMMA CardAnswersStep ==
  ASSUME Inv, CardAnswers, [Next]_vars
  PROVE  CardAnswers'
<1>1. TypeOK
  BY DEF Inv
<1>2. CASE SaveSecretSd
  BY <1>1, <1>2 DEF SaveSecretSd, SdWritable, TypeOK, CardAnswers
<1>3. CASE RestoreSecrets
  BY <1>3 DEF RestoreSecrets, CardAnswers
<1>4. CASE DeleteSd
  BY <1>1, <1>4 DEF DeleteSd, CardAnswers
<1>5. CASE PowerLoss
  BY <1>1, <1>5 DEF PowerLoss, TearSd, SdWritable, Shutdown, CardAnswers
<1>6. CASE Pull
  BY <1>6 DEF Pull, Fault, CardAnswers
<1>7. CASE Insert \/ LoseCard \/ SwapCard \/ UNCHANGED vars
  BY <1>7 DEF Insert, LoseCard, SwapCard, vars, CardAnswers
<1>8. CASE AnswerRetry \/ AnswerRestore \/ AnswerCreate \/ NewPassphrase \/ EnterPassphrase
           \/ Lock \/ InitSdDirs \/ InitFlashDirs \/ InitMeta \/ LoadMeta \/ SaveManifestSd
  BY <1>8 DEF AnswerRetry, AnswerRestore, AnswerCreate, NewPassphrase, EnterPassphrase,
     Lock, InitSdDirs, InitFlashDirs, InitMeta, LoadMeta, SaveManifestSd, Shutdown, CardAnswers
<1>9. CASE Boot \/ CheckSdCard \/ FindVault \/ RestoreDirs \/ RestoreMeta \/ RestoreManifest
           \/ RestoreList \/ Restored \/ InitMirror \/ LoadManifest
  BY <1>9 DEF Boot, CheckSdCard, FindVault, RestoreDirs, RestoreMeta, RestoreManifest,
     RestoreList, Restored, InitMirror, LoadManifest, Unlock, CardAnswers
<1>10. CASE AddSecret \/ SaveSecretMirror \/ SaveManifestMirror \/ OpenSecret \/ LeaveView
           \/ RevealSecret \/ RevealFails \/ HideSecret \/ CloseQr \/ ConfirmDelete \/ DeleteMirror
  BY <1>10 DEF AddSecret, SaveSecretMirror, SaveManifestMirror, OpenSecret, LeaveView,
     RevealSecret, RevealFails, HideSecret, CloseQr, ConfirmDelete, DeleteMirror, CardAnswers
<1>11. QED
  BY <1>2, <1>3, <1>4, <1>5, <1>6, <1>7, <1>8, <1>9, <1>10 DEF Next, User, Program, World

LEMMA DeletedStep ==
  ASSUME Inv, CardAnswers, Deleted, [Next]_vars
  PROVE  Deleted'
<1>1. TypeOK /\ Control
  BY DEF Inv
<1>2. CASE DeleteSd
  <2>1. cur.id \in Ids /\ cur.id \in DOMAIN sdSecrets
    BY <1>1, <1>2 DEF DeleteSd, TypeOK, Control, Entries
  <2>2. QED
    BY <1>2, <2>1 DEF DeleteSd, CardAnswers, FlashWritable, Deleted, SavePcs
<1>3. CASE DeleteMirror
  <2>1. cur.id \in DOMAIN flSecrets
    BY <1>1, <1>3 DEF DeleteMirror, TypeOK, Control, Entries
  <2>2. "flash" \notin Faults => flSecrets' = [flSecrets EXCEPT ![cur.id] = None]
    BY <1>3 DEF DeleteMirror
  <2>3. QED
    BY <1>3, <2>1, <2>2 DEF DeleteMirror, FlashWritable, Deleted, SavePcs
<1>4. CASE SaveManifestSd
  BY <1>4 DEF SaveManifestSd, Shutdown, Cipher, FlashWritable, Deleted, SavePcs
<1>5. CASE SaveManifestMirror
  BY <1>5 DEF SaveManifestMirror, MirrorOutcomes, FlashWritable, Deleted, SavePcs
<1>6. CASE PowerLoss \/ Pull
  BY <1>6 DEF PowerLoss, Pull, Fault, TearSd, TearFlash, Shutdown, Cipher, FlashWritable,
     Deleted, SavePcs
<1>7. CASE LoseCard \/ SwapCard
  <2>1. pc \in {"delMirror"} \cup SavePcs /\ op = "delete" => cur.id \in Ids
    BY <1>1 DEF Control, Entries, SavePcs
  <2>2. pc = "delMirror" => op = "delete"
    BY <1>1 DEF Control
  <2>3. QED
    BY <1>7, <2>1, <2>2 DEF LoseCard, SwapCard, Cipher, FlashWritable, Deleted, SavePcs
<1>8. CASE Insert \/ UNCHANGED vars
  BY <1>8 DEF Insert, vars, Cipher, FlashWritable, Deleted, SavePcs
<1>9. CASE AnswerRetry \/ AnswerRestore \/ AnswerCreate \/ NewPassphrase
           \/ EnterPassphrase \/ Lock \/ InitSdDirs \/ InitFlashDirs \/ InitMeta \/ LoadMeta
  BY <1>9 DEF AnswerRetry, AnswerRestore, AnswerCreate, NewPassphrase,
     EnterPassphrase, Lock, InitSdDirs, InitFlashDirs, InitMeta, LoadMeta,
     Shutdown, FlashWritable, Deleted, SavePcs
<1>10. CASE Boot \/ CheckSdCard \/ FindVault \/ RestoreDirs \/ RestoreMeta \/ RestoreManifest
           \/ RestoreList \/ RestoreSecrets \/ Restored \/ InitMirror \/ LoadManifest
  BY <1>10 DEF Boot, CheckSdCard, FindVault, RestoreDirs, RestoreMeta,
     RestoreManifest, RestoreList, RestoreSecrets, Restored, InitMirror, LoadManifest,
     Unlock, FlashWritable, Deleted, SavePcs
<1>11. CASE SaveSecretSd \/ SaveSecretMirror \/ AddSecret \/ OpenSecret \/ LeaveView
           \/ RevealSecret \/ RevealFails \/ HideSecret \/ CloseQr \/ ConfirmDelete
  BY <1>1, <1>11 DEF SaveSecretSd, SaveSecretMirror, AddSecret, OpenSecret, LeaveView,
     RevealSecret, RevealFails, HideSecret, CloseQr, ConfirmDelete, Control, FlashWritable,
     Deleted, SavePcs
<1>12. QED
  BY <1>2, <1>3, <1>4, <1>5, <1>6, <1>7, <1>8, <1>9, <1>10, <1>11
     DEF Next, User, Program, World

\* "Secret deleted" is shown only when the card's manifest does not list the
\* secret, for every kind and number of faults.  Its file on the card is gone
\* too unless cards are pulled, and the mirror has neither unless the flash
\* fails: these are the errors that _delete_with_mirror swallows.
THEOREM DeletedIsGoneHolds == Spec => DeletedIsGone
<1> DEFINE I == Inv /\ CardAnswers /\ Deleted
<1>1. Init => I
  BY InitInv DEF Init, CardAnswers, Deleted, SavePcs
<1>2. I /\ [Next]_vars => I'
  BY InvStep, CardAnswersStep, DeletedStep
<1>3. I /\ [Next]_vars =>
        [(Succeeds /\ op = "delete") =>
           /\ Unlisted(cur.id, sdManifest')
           /\ "pull" \notin Faults => sdSecrets'[cur.id] = None
           /\ "flash" \notin Faults =>
                Unlisted(cur.id, flManifest') /\ flSecrets'[cur.id] = None]_vars
  <2>1. SUFFICES ASSUME I, [Next]_vars, Succeeds, op = "delete"
                 PROVE  /\ Unlisted(cur.id, sdManifest')
                        /\ "pull" \notin Faults => sdSecrets'[cur.id] = None
                        /\ "flash" \notin Faults =>
                             Unlisted(cur.id, flManifest') /\ flSecrets'[cur.id] = None
    OBVIOUS
  <2>2. SaveManifestMirror /\ pc = "saveMirror"
    BY <2>1, SucceedsIsSave DEF Succeeds
  <2> DEFINE new == [key |-> Cipher, entries |-> manifest]
  <2>3. Unlisted(cur.id, new) /\ Unlisted(cur.id, None)
    BY <2>1, <2>2 DEF Deleted, Unlisted, IsManifest, SavePcs
  <2>4. Unlisted(cur.id, sdManifest')
    <3>1. sdManifest' = sdManifest
      BY <2>2 DEF SaveManifestMirror
    <3>2. QED
      BY <2>1, <2>2, <2>3, <3>1 DEF Deleted
  <2>5. "flash" \notin Faults => flManifest' \in {None, new}
    BY <2>1, <2>2 DEF SaveManifestMirror, MirrorOutcomes, Deleted
  <2>6. UNCHANGED <<sdSecrets, flSecrets>>
    BY <2>2 DEF SaveManifestMirror
  <2>7. QED
    BY <2>1, <2>2, <2>3, <2>4, <2>5, <2>6 DEF Deleted, SavePcs
<1>4. QED
  BY <1>1, <1>2, <1>3, PTL DEF Spec, DeletedIsGone

\* A file that is intact on the card is the same in the mirror.
Covered(i) == sdSecrets[i] \in {None, Torn} \/ flSecrets[i] = sdSecrets[i]

MirrorMatches == \A e \in CardEntries : Covered(e.id)

LEMMA CardEntriesType ==
  ASSUME TypeOK PROVE CardEntries \subseteq Entries /\ \A e \in CardEntries : e.id \in Ids
BY DEF TypeOK, ManifestFiles, CardEntries, IsManifest, Entries

LEMMA MatchesStep ==
  ASSUME OwnVaults, LabelInv, FlashReady, MirrorWritten, Removed, MirrorMatches,
         [Next]_vars, ~Pull, ~LoseCard, ~SwapCard
  PROVE  MirrorMatches'
<1>1. TypeOK /\ Control /\ CardStays /\ RamIsCard /\ StoredSoFar /\ IdInv
  BY DEF LabelInv, Inv
<1>2. \A e \in CardEntries : e.id \in Ids
  BY <1>1, CardEntriesType
<1>3. ASSUME UNCHANGED sdManifest,
             \A e \in CardEntries : sdSecrets'[e.id] \in {None, Torn}
                \/ (sdSecrets'[e.id] = sdSecrets[e.id] /\ flSecrets'[e.id] = flSecrets[e.id])
      PROVE  MirrorMatches'
  <2>1. CardEntries' = CardEntries
    BY <1>3 DEF CardEntries, IsManifest
  <2>2. \A e \in CardEntries : Covered(e.id)'
    BY <1>3 DEF MirrorMatches, Covered
  <2>3. QED
    BY <2>1, <2>2 DEF MirrorMatches
<1>4. pc \in {"addSd", "addMirror"} => \A e \in CardEntries : e.id # cur.id
  BY <1>1 DEF RamIsCard, IdInv, FreshId, OpenPcs
<1>5. CASE SaveSecretSd
  <2>1. \A i \in Ids : i # cur.id => sdSecrets'[i] = sdSecrets[i]
    BY <1>1, <1>5 DEF SaveSecretSd, TypeOK
  <2>2. QED
    BY <1>2, <1>3, <1>4, <1>5, <2>1 DEF SaveSecretSd
<1>6. CASE SaveSecretMirror
  <2>1. \A i \in Ids : i # cur.id => flSecrets'[i] = flSecrets[i]
    BY <1>1, <1>6 DEF SaveSecretMirror, TypeOK
  <2>2. QED
    BY <1>2, <1>3, <1>4, <1>6, <2>1 DEF SaveSecretMirror
<1>7. CASE SaveManifestSd
  <2>1. sdManifest' = [key |-> Cipher, entries |-> manifest]
         /\ UNCHANGED <<sdSecrets, flSecrets>>
    BY <1>1, <1>7 DEF SaveManifestSd, SdWritable, CardStays, OpenPcs
  <2>2. CardEntries' \subseteq manifest
    BY <2>1 DEF CardEntries
  <2>3. \A e \in manifest : Covered(e.id)
    <3>1. CASE op = "create"
      BY <1>1, <1>7, <3>1 DEF SaveManifestSd, RamIsCard
    <3>2. CASE op = "add"
      <4>1. Covered(cur.id)
        BY <1>1, <1>7, <3>2 DEF SaveManifestSd, StoredSoFar, MirrorWritten, SavePcs, Covered
      <4>2. QED
        BY <1>1, <1>7, <3>2, <4>1 DEF SaveManifestSd, RamIsCard, MirrorMatches
    <3>3. CASE op = "delete"
      BY <1>1, <1>7, <3>3 DEF SaveManifestSd, RamIsCard, MirrorMatches
    <3>4. QED
      BY <1>1, <1>7, <3>1, <3>2, <3>3 DEF SaveManifestSd, Control
  <2>4. QED
    BY <2>1, <2>2, <2>3 DEF MirrorMatches, Covered
<1>8. CASE DeleteSd
  <2>1. \A i \in Ids : sdSecrets'[i] \in {sdSecrets[i], None}
    BY <1>1, <1>8 DEF DeleteSd, TypeOK
  <2>2. QED
    BY <1>2, <1>3, <1>8, <2>1 DEF DeleteSd
<1>9. CASE DeleteMirror
  <2>1. \A i \in Ids : i # cur.id => flSecrets'[i] = flSecrets[i]
    BY <1>1, <1>9 DEF DeleteMirror, TypeOK
  <2>2. sdSecrets[cur.id] = None
    BY <1>9 DEF DeleteMirror, Removed
  <2>3. QED
    BY <1>2, <1>3, <1>9, <2>1, <2>2 DEF DeleteMirror
<1>10. CASE PowerLoss
  <2>1. CASE sdManifest' = Torn
    BY <2>1 DEF MirrorMatches, CardEntries, IsManifest
  <2>2. CASE UNCHANGED <<sdManifest, sdSecrets, flSecrets>>
    BY <1>3, <2>2
  <2>3. CASE UNCHANGED <<sdManifest, flSecrets>>
             /\ \E i \in Ids : sdSecrets' = [sdSecrets EXCEPT ![i] = Torn]
    <3>1. \A j \in Ids : sdSecrets'[j] \in {sdSecrets[j], Torn}
      BY <1>1, <2>3 DEF TypeOK
    <3>2. QED
      BY <1>2, <1>3, <2>3, <3>1
  <2>4. CASE UNCHANGED <<sdManifest, sdSecrets>> /\ pc = "addMirror"
             /\ flSecrets' = [flSecrets EXCEPT ![cur.id] = Torn]
    <3>1. \A i \in Ids : i # cur.id => flSecrets'[i] = flSecrets[i]
      BY <1>1, <2>4 DEF TypeOK
    <3>2. QED
      BY <1>2, <1>3, <1>4, <2>4, <3>1
  <2>5. QED
    BY <1>10, <2>1, <2>2, <2>3, <2>4 DEF PowerLoss, TearSd, TearFlash
<1>11. CASE RestoreManifest \/ RestoreSecrets
  BY <1>1, <1>11 DEF RestoreManifest, RestoreSecrets, CardStays
<1>12. CASE Pull \/ LoseCard \/ SwapCard
  BY <1>12
<1>13. CASE ~(SaveSecretSd \/ SaveSecretMirror \/ SaveManifestSd \/ DeleteSd \/ DeleteMirror
              \/ PowerLoss \/ RestoreManifest \/ RestoreSecrets \/ Pull \/ LoseCard \/ SwapCard)
  <2>1. UNCHANGED <<sdManifest, sdSecrets, flSecrets>>
    BY <1>13 DEF Next, User, Program, World, vars,
       Boot, CheckSdCard, AnswerRetry, FindVault, AnswerRestore, AnswerCreate,
       RestoreDirs, RestoreMeta, RestoreList, Restored, InitSdDirs, InitFlashDirs,
       InitMeta, InitMirror, NewPassphrase, LoadMeta, EnterPassphrase, LoadManifest,
       Lock, AddSecret, SaveManifestMirror, OpenSecret, LeaveView,
       RevealSecret, RevealFails, HideSecret, CloseQr, ConfirmDelete, Insert
  <2>2. QED
    BY <1>3, <2>1
<1>14. QED
  BY <1>5, <1>6, <1>7, <1>8, <1>9, <1>10, <1>11, <1>12, <1>13

LEMMA InitMirrors ==
  ASSUME OwnVaults, Init PROVE FlashReady /\ MirrorWritten /\ Removed /\ MirrorMatches
<1>1. ~("foreign" \in InitialCards)
  BY DEF OwnVaults
<1>2. sdMeta = None /\ sdManifest = None
  BY <1>1 DEF Init
<1>3. QED
  BY <1>2 DEF Init, FlashReady, MirrorWritten, Removed, MirrorMatches, CardEntries,
     IsManifest, OpenPcs, SavePcs

\* On a device that made its vault itself, a completed operation leaves the
\* mirror with the card's manifest and with every listed file that is intact on
\* the card, whatever any number of power losses left behind before it.
THEOREM MirrorCatchesUpHolds ==
  ASSUME Faults \subseteq {"power"}, InitialCards \subseteq {"blank"}
  PROVE  Spec => MirrorCatchesUp
<1>1. NoCardFaults /\ OwnVaults
  BY DEF NoCardFaults, OwnVaults
<1>2. ~Pull /\ ~LoseCard /\ ~SwapCard
  BY <1>1 DEF Pull, LoseCard, SwapCard, Fault, NoCardFaults
<1> DEFINE I == FlashReady /\ MirrorWritten /\ Removed /\ MirrorMatches
<1>3. Init => I
  BY <1>1, InitMirrors
<1>4. LabelInv /\ I /\ [Next]_vars => I'
  <2>1. LabelInv => Inv
    BY DEF LabelInv
  <2>2. "flash" \notin Faults
    BY <1>1 DEF OwnVaults
  <2>3. QED
    BY <1>1, <1>2, <2>1, <2>2, FlashReadyStep, MirrorWrittenStep, RemovedStep, MatchesStep
<1>5. LabelInv /\ I /\ [Next]_vars =>
        [Succeeds =>
           /\ flManifest' = sdManifest'
           /\ \A e \in manifest' :
                sdSecrets[e.id] \in {None, Torn} \/ flSecrets[e.id] = sdSecrets[e.id]]_vars
  <2>1. SUFFICES ASSUME LabelInv, I, [Next]_vars, Succeeds
                 PROVE  /\ flManifest' = sdManifest'
                        /\ \A e \in manifest' : Covered(e.id)
    BY DEF Covered
  <2>2. SaveManifestMirror
    BY <2>1, SucceedsIsSave
  <2> DEFINE new == [key |-> Cipher, entries |-> manifest]
  <2>3. sdManifest = new /\ IsManifest(new)
    BY <2>1, <2>2, ManifestIsOne DEF SaveManifestMirror, LabelInv, StoredSoFar, SavePcs
  <2>4. MirrorOutcomes(flManifest, new) = {new}
    BY <1>1, <2>1, <2>2, MirrorTakes DEF SaveManifestMirror, SavePcs
  <2>5. flManifest' = new /\ sdManifest' = new /\ manifest' = manifest
    BY <2>2, <2>3, <2>4 DEF SaveManifestMirror
  <2>6. CardEntries = manifest
    BY <2>3 DEF CardEntries
  <2>7. QED
    BY <2>1, <2>5, <2>6 DEF MirrorMatches
<1>6. QED
  BY <1>1, <1>3, <1>4, <1>5, LabelInvHolds, PTL DEF Spec, MirrorCatchesUp

----------------------------------------------------------------------------
(* Acknowledged secrets, when the device meets one fault: a power loss at  *)
(* any step, or a card that is lost at any step and the restore after it.  *)
(* The card is in one of three states: it carries the vault (Sound), it is *)
(* a blank one in the place of a lost one (Lost), or the mirror is being   *)
(* copied to it (Restoring).                                               *)

OneFault ==
  Faults \subseteq {"power", "lose"} /\ MaxFaults <= 1 /\ InitialCards \subseteq {"blank"}

CreatePcs == {"askCreate", "initSdDirs", "initFlashDirs", "initMeta", "initMirror", "newPass"}
RestorePcs == {"restoreMeta", "restoreManifest", "restoreList", "restoreSecrets", "restored"}

\* Once a secret is stored there is a card and no vault is made over it.
Calm ==
  acked # {} =>
    inserted /\ pc \notin CreatePcs /\ ~(pc \in SavePcs /\ op = "create")

\* The secret that is being deleted is not promised any more, the others have
\* other ids.
Deleting == pc \in {"delSd", "delMirror"} \/ (pc \in SavePcs /\ op = "delete")
Spared == Deleting => \A a \in acked : a.id # cur.id

Listed(a) == a.key = key /\ [id |-> a.id, text |-> a.text] \in manifest
InMirror(a) == OnFlash(a) /\ flMeta = a.key.salt
OnCard(a) == OnSd(a) /\ sdMeta = a.key.salt

\* A torn manifest on the card is there for good: VaultUnlock cannot open it,
\* so nothing is written any more.
Safe(a) == IF sdManifest = Torn THEN InMirror(a) ELSE OnCard(a)

\* The salt in use is the card's.
SaltOfCard ==
  /\ pc \in {"askPass", "loadManifest", "initMirror", "newPass"} => salt = sdMeta
  /\ pc = "loadManifest" => cand.salt = sdMeta
  /\ pc \in OpenPcs => key.salt = sdMeta
  /\ pc \in SavePcs => Cipher.salt = sdMeta

\* Before the fault both copies hold every secret.
BothHold ==
  faults = 0 =>
    /\ sdManifest # Torn
    /\ \A a \in acked : InMirror(a)
    /\ sdMeta # None /\ pc # "initMirror" => flMeta = sdMeta

Settled ==
  acked # {} =>
    (pc = "exists" => mounted) /\ pc \notin {"retry", "askRestore", "restoreDirs"}

Sound ==
  /\ CardStays /\ StoredSoFar /\ RamIsCard /\ SaltOfCard /\ Settled /\ BothHold
  /\ pc \in SavePcs => \A a \in acked : Listed(a)
  /\ \A a \in acked : Safe(a)

\* Nothing can be written to the blank card, and what the program still does
\* with its RAM spares the mirror's copy of the secrets.  A vault that was
\* being opened is open now, empty, under whatever was typed.
Lost ==
  /\ faults # 0 /\ inserted
  /\ ~sdDirs /\ sdMeta = None /\ sdManifest = None
  /\ pc \notin RestorePcs
  /\ pc \notin OpenPcs \cup SavePcs => manifest = {}
  /\ \/ pc \in {"view", "reveal", "qr", "delSd", "delMirror", "addMirror"} \cup SavePcs
     \/ pc \in {"home", "addSd"} /\ manifest # {}
     => \A a \in acked : a.key = key
  /\ pc = "addMirror" => \A a \in acked : a.id # cur.id
  /\ pc = "saveMirror" => \A a \in acked : Listed(a)
  /\ pc = "saveMirror" /\ op = "add" => cur \in manifest /\ flMeta = key.salt
  /\ \A a \in acked : InMirror(a)

\* restore_from_flash up to its step.
Restoring ==
  /\ faults # 0 /\ inserted /\ mounted /\ sdDirs
  /\ pc \in RestorePcs /\ manifest = {}
  /\ flMeta # None
  /\ sdMeta = IF pc = "restoreMeta" THEN None ELSE flMeta
  /\ sdManifest = IF pc \in {"restoreMeta", "restoreManifest"} THEN None ELSE flManifest
  /\ pc \in {"restoreSecrets", "restored"} =>
       \A i \in Ids : flSecrets[i] # None /\ i \notin todo => sdSecrets[i] = flSecrets[i]
  /\ pc = "restored" => todo = {}
  /\ \A a \in acked : InMirror(a)

AckInv ==
  /\ Inv /\ IdInv /\ MirrorFree /\ FlashReady /\ MirrorWritten /\ Calm /\ Spared
  /\ Sound \/ Lost \/ Restoring

LEMMA NoMoreFaults ==
  ASSUME OneFault, Inv
  PROVE  ~Pull /\ ~SwapCard /\ (faults # 0 => ~PowerLoss /\ ~LoseCard)
<1>1. ~Pull /\ ~SwapCard
  BY DEF OneFault, Pull, SwapCard, Fault
<1>2. faults \in Nat /\ faults <= 1
  BY BoundsAssumption DEF OneFault, Inv, TypeOK
<1>3. faults # 0 => ~(faults < MaxFaults)
  BY <1>2, BoundsAssumption DEF OneFault
<1>4. QED
  BY <1>1, <1>3 DEF PowerLoss, LoseCard, Fault

LEMMA AckTypes ==
  ASSUME TypeOK, NEW a \in acked
  PROVE  a.key \in Keys /\ a.id \in Ids /\ a.text \in Texts /\ a.key.salt \in Salts
BY DEF TypeOK, Keys

\* In an open vault every promised secret is listed under the vault's key.
LEMMA OpenListed ==
  ASSUME Sound, pc \in OpenPcs, NEW a \in acked
  PROVE  Listed(a) /\ OnCard(a)
<1>1. RamIsCard /\ Safe(a)
  BY DEF Sound
<1>2. sdManifest # Torn /\ manifest = CardEntries
  BY <1>1 DEF RamIsCard, OpenPcs
<1>3. OnCard(a)
  BY <1>1, <1>2 DEF Safe
<1>4. IsManifest(sdManifest) /\ sdManifest.key = a.key
       /\ [id |-> a.id, text |-> a.text] \in sdManifest.entries
  BY <1>3 DEF OnCard, OnSd, Holds, Opens, IsManifest
<1>5. sdManifest.key = key
  BY <1>1, <1>4 DEF RamIsCard, OpenPcs
<1>6. QED
  BY <1>2, <1>3, <1>4, <1>5 DEF Listed, CardEntries

\* A secret that is being stored has an id of its own.
LEMMA FreshAck ==
  ASSUME Sound, IdInv, pc \in {"addSd", "addMirror"}, NEW a \in acked
  PROVE  a.id # cur.id
<1>1. [id |-> a.id, text |-> a.text] \in manifest
  BY OpenListed DEF OpenPcs, Listed
<1>2. QED
  BY <1>1 DEF IdInv, FreshId

\* What is left alone stays as it is.
LEMMA KeepSd ==
  ASSUME NEW a, UNCHANGED <<sdManifest, sdMeta>>, sdSecrets'[a.id] = sdSecrets[a.id], OnCard(a)
  PROVE  OnCard(a)'
BY DEF OnCard, OnSd, Holds, Opens

LEMMA KeepFlash ==
  ASSUME NEW a, UNCHANGED <<flManifest, flMeta>>, flSecrets'[a.id] = flSecrets[a.id], InMirror(a)
  PROVE  InMirror(a)'
BY DEF InMirror, OnFlash, Holds, Opens

LEMMA SparedStep ==
  ASSUME Inv, Spared, pc = "view" => \A a \in acked : a.key = key, [Next]_vars
  PROVE  Spared'
<1>1. Control
  BY DEF Inv
<1>2. CASE ConfirmDelete
  BY <1>2 DEF ConfirmDelete, Spared
<1>3. CASE DeleteSd \/ DeleteMirror \/ SaveSecretMirror \/ SaveManifestSd
  BY <1>1, <1>3 DEF DeleteSd, DeleteMirror, SaveSecretMirror, SaveManifestSd, Control,
     Shutdown, Spared, Deleting, SavePcs
<1>4. CASE AnswerRetry \/ AnswerRestore \/ AnswerCreate \/ NewPassphrase
           \/ EnterPassphrase \/ Lock \/ InitSdDirs \/ InitFlashDirs \/ InitMeta \/ LoadMeta
           \/ PowerLoss
  BY <1>4 DEF AnswerRetry, AnswerRestore, AnswerCreate, NewPassphrase,
     EnterPassphrase, Lock, InitSdDirs, InitFlashDirs, InitMeta, LoadMeta, PowerLoss,
     Shutdown, Spared, Deleting, SavePcs
<1>5. CASE Boot \/ CheckSdCard \/ FindVault \/ RestoreDirs \/ RestoreMeta \/ RestoreManifest
           \/ RestoreList \/ RestoreSecrets \/ Restored \/ InitMirror \/ LoadManifest
  BY <1>5 DEF Boot, CheckSdCard, FindVault, RestoreDirs, RestoreMeta, RestoreManifest,
     RestoreList, RestoreSecrets, Restored, InitMirror, LoadManifest, Unlock,
     Spared, Deleting, SavePcs
<1>6. CASE AddSecret \/ SaveSecretSd \/ SaveManifestMirror \/ OpenSecret \/ LeaveView
           \/ RevealSecret \/ RevealFails \/ HideSecret \/ CloseQr
  BY <1>6 DEF AddSecret, SaveSecretSd, SaveManifestMirror, OpenSecret, LeaveView,
     RevealSecret, RevealFails, HideSecret, CloseQr, Spared, Deleting, SavePcs
<1>7. CASE Pull \/ LoseCard \/ SwapCard \/ Insert \/ UNCHANGED vars
  BY <1>7 DEF Pull, LoseCard, SwapCard, Fault, Insert, vars, Spared, Deleting, SavePcs
<1>8. QED
  BY <1>2, <1>3, <1>4, <1>5, <1>6, <1>7 DEF Next, User, Program, World

LEMMA CalmStep ==
  ASSUME Inv, Calm, [Next]_vars, ~Pull,
         pc = "exists" /\ acked # {} => VaultExistsSd \/ VaultExistsFlash,
         pc = "saveMirror" => inserted
  PROVE  Calm'
<1>1. Control
  BY DEF Inv
<1>2. CASE FindVault
  BY <1>2 DEF FindVault, Calm, CreatePcs, SavePcs
<1>3. CASE SaveManifestMirror
  BY <1>3 DEF SaveManifestMirror, Calm, CreatePcs, SavePcs
<1>4. CASE SaveSecretMirror \/ DeleteMirror \/ SaveManifestSd
  BY <1>1, <1>4 DEF SaveSecretMirror, DeleteMirror, SaveManifestSd, Control, Shutdown,
     Calm, CreatePcs, SavePcs
<1>5. CASE AnswerRetry \/ AnswerRestore \/ AnswerCreate \/ NewPassphrase
           \/ EnterPassphrase \/ Lock \/ InitSdDirs \/ InitFlashDirs \/ InitMeta \/ LoadMeta
           \/ PowerLoss
  BY <1>5 DEF AnswerRetry, AnswerRestore, AnswerCreate, NewPassphrase,
     EnterPassphrase, Lock, InitSdDirs, InitFlashDirs, InitMeta, LoadMeta, PowerLoss,
     Fault, Shutdown, Calm, CreatePcs, SavePcs
<1>6. CASE Boot \/ CheckSdCard \/ RestoreDirs \/ RestoreMeta \/ RestoreManifest
           \/ RestoreList \/ RestoreSecrets \/ Restored \/ InitMirror \/ LoadManifest
  BY <1>6 DEF Boot, CheckSdCard, RestoreDirs, RestoreMeta, RestoreManifest,
     RestoreList, RestoreSecrets, Restored, InitMirror, LoadManifest, Unlock,
     Calm, CreatePcs, SavePcs
<1>7. CASE AddSecret \/ SaveSecretSd \/ OpenSecret \/ LeaveView \/ DeleteSd
           \/ RevealSecret \/ RevealFails \/ HideSecret \/ CloseQr \/ ConfirmDelete
  BY <1>7 DEF AddSecret, SaveSecretSd, OpenSecret, LeaveView, DeleteSd,
     RevealSecret, RevealFails, HideSecret, CloseQr, ConfirmDelete, Calm, CreatePcs, SavePcs
<1>8. CASE Pull \/ LoseCard \/ SwapCard \/ Insert \/ UNCHANGED vars
  BY <1>8 DEF LoseCard, SwapCard, Fault, Insert, vars, Calm, CreatePcs, SavePcs
<1>9. QED
  BY <1>2, <1>3, <1>4, <1>5, <1>6, <1>7, <1>8 DEF Next, User, Program, World

LEMMA SaltOfCardStep ==
  ASSUME Inv, CardStays, SaltOfCard, [Next]_vars, ~Pull, ~LoseCard, ~SwapCard
  PROVE  SaltOfCard'
<1>1. Control
  BY DEF Inv
<1>2. CASE InitMeta \/ InitMirror
  BY <1>2 DEF InitMeta, InitMirror, Shutdown, SaltOfCard, OpenPcs, SavePcs
<1>3. CASE NewPassphrase
  BY <1>3 DEF NewPassphrase, Shutdown, Cipher, SaltOfCard, OpenPcs, SavePcs
<1>4. CASE EnterPassphrase \/ LoadMeta \/ LoadManifest
  BY <1>4 DEF EnterPassphrase, LoadMeta, LoadManifest, Unlock, Shutdown, SaltOfCard,
     OpenPcs, SavePcs
<1>5. CASE SaveSecretMirror \/ DeleteMirror
  BY <1>1, <1>5 DEF SaveSecretMirror, DeleteMirror, Control, Cipher, SaltOfCard, OpenPcs, SavePcs
<1>6. CASE SaveManifestSd
  BY <1>6 DEF SaveManifestSd, Shutdown, Cipher, SaltOfCard, OpenPcs, SavePcs
<1>7. CASE SaveManifestMirror
  BY <1>7 DEF SaveManifestMirror, SaltOfCard, OpenPcs, SavePcs
<1>8. CASE AnswerRetry \/ AnswerRestore \/ AnswerCreate \/ Lock \/ InitSdDirs
           \/ InitFlashDirs \/ PowerLoss
  BY <1>8 DEF AnswerRetry, AnswerRestore, AnswerCreate, Lock, InitSdDirs, InitFlashDirs,
     PowerLoss, Shutdown, SaltOfCard, OpenPcs, SavePcs
<1>9. CASE Boot \/ CheckSdCard \/ FindVault \/ RestoreDirs \/ RestoreMeta \/ RestoreManifest
           \/ RestoreList \/ RestoreSecrets \/ Restored
  BY <1>9 DEF Boot, CheckSdCard, FindVault, RestoreDirs, RestoreMeta, RestoreManifest,
     RestoreList, RestoreSecrets, Restored, CardStays, SaltOfCard, OpenPcs, SavePcs
<1>10. CASE AddSecret \/ SaveSecretSd \/ OpenSecret \/ LeaveView \/ DeleteSd
           \/ RevealSecret \/ RevealFails \/ HideSecret \/ CloseQr \/ ConfirmDelete
  BY <1>10 DEF AddSecret, SaveSecretSd, OpenSecret, LeaveView, DeleteSd,
     RevealSecret, RevealFails, HideSecret, CloseQr, ConfirmDelete, SaltOfCard, OpenPcs, SavePcs
<1>11. CASE Insert \/ UNCHANGED vars
  BY <1>11 DEF Insert, vars, Cipher, SaltOfCard, OpenPcs, SavePcs
<1>12. QED
  BY <1>2, <1>3, <1>4, <1>5, <1>6, <1>7, <1>8, <1>9, <1>10, <1>11
     DEF Next, User, Program, World

LEMMA SettledStep ==
  ASSUME CardStays, Settled, Calm, [Next]_vars, ~Pull, ~LoseCard, ~SwapCard,
         pc = "exists" /\ acked # {} => VaultExistsSd
  PROVE  Settled'
<1>1. CASE Boot \/ CheckSdCard \/ FindVault
  BY <1>1 DEF Boot, CheckSdCard, FindVault, Calm, Settled
<1>2. CASE AnswerRetry \/ AnswerRestore \/ AnswerCreate \/ NewPassphrase
           \/ EnterPassphrase \/ Lock \/ InitSdDirs \/ InitFlashDirs \/ InitMeta \/ LoadMeta
           \/ SaveManifestSd \/ PowerLoss
  BY <1>2 DEF AnswerRetry, AnswerRestore, AnswerCreate, NewPassphrase,
     EnterPassphrase, Lock, InitSdDirs, InitFlashDirs, InitMeta, LoadMeta, SaveManifestSd,
     PowerLoss, Fault, Shutdown, Settled
<1>3. CASE RestoreDirs \/ RestoreMeta \/ RestoreManifest \/ RestoreList \/ RestoreSecrets
           \/ Restored \/ InitMirror \/ LoadManifest
  BY <1>3 DEF RestoreDirs, RestoreMeta, RestoreManifest, RestoreList, RestoreSecrets,
     Restored, InitMirror, LoadManifest, Unlock, CardStays, Settled
<1>4. CASE AddSecret \/ SaveSecretSd \/ SaveSecretMirror \/ SaveManifestMirror \/ OpenSecret
           \/ LeaveView \/ DeleteSd \/ DeleteMirror \/ RevealSecret \/ RevealFails
           \/ HideSecret \/ CloseQr \/ ConfirmDelete
  BY <1>4 DEF AddSecret, SaveSecretSd, SaveSecretMirror, SaveManifestMirror, OpenSecret,
     LeaveView, DeleteSd, DeleteMirror, RevealSecret, RevealFails, HideSecret, CloseQr,
     ConfirmDelete, Settled
<1>5. CASE Insert \/ UNCHANGED vars
  BY <1>5 DEF Insert, vars, Settled
<1>6. QED
  BY <1>1, <1>2, <1>3, <1>4, <1>5 DEF Next, User, Program, World

\* A step that is not a fault and writes no file of a vault that holds secrets.
Quiet ==
  /\ UNCHANGED <<sdMeta, sdManifest, sdSecrets, flMeta, flManifest, flSecrets, faults>>
  /\ acked' \subseteq acked
  /\ pc = "initMirror" => pc' = "initMirror"

LEMMA QuietSteps ==
  ASSUME CardStays, [Next]_vars, ~PowerLoss, ~Pull, ~LoseCard, ~SwapCard,
         ~InitMeta, ~InitMirror, ~SaveSecretSd, ~SaveSecretMirror, ~SaveManifestSd,
         ~SaveManifestMirror, ~DeleteSd, ~DeleteMirror
  PROVE  Quiet
BY DEF Quiet, CardStays, Next, User, Program, World, vars,
   Boot, CheckSdCard, AnswerRetry, FindVault, AnswerRestore, AnswerCreate,
   RestoreDirs, RestoreMeta, RestoreManifest, RestoreList, RestoreSecrets, Restored,
   InitSdDirs, InitFlashDirs, NewPassphrase, LoadMeta, EnterPassphrase, LoadManifest,
   Lock, AddSecret, OpenSecret, LeaveView, RevealSecret, RevealFails, HideSecret, CloseQr,
   ConfirmDelete, Insert

LEMMA ExistsOnCard ==
  ASSUME Inv, Sound, pc = "exists", acked # {}
  PROVE  VaultExistsSd
<1>1. PICK a \in acked : TRUE
  OBVIOUS
<1>2. a.key.salt # None
  BY <1>1, AckTypes, MarkersAssumption DEF Inv
<1>3. Safe(a) /\ CardStays /\ mounted
  BY DEF Sound, Settled
<1>4. QED
  BY <1>2, <1>3 DEF Safe, OnCard, InMirror, CardStays, VaultExistsSd

LEMMA ListedStep ==
  ASSUME Inv, Sound, Calm, Spared, [Next]_vars, ~PowerLoss, ~Pull, ~LoseCard, ~SwapCard,
         pc' \in SavePcs, NEW a \in acked'
  PROVE  Listed(a)'
<1>1. CASE NewPassphrase
  BY <1>1 DEF NewPassphrase, Calm, CreatePcs
<1>2. CASE SaveSecretMirror
  BY <1>2, OpenListed DEF SaveSecretMirror, Listed, OpenPcs
<1>3. CASE DeleteMirror
  <2>1. a \in acked /\ pc = "delMirror"
    BY <1>3 DEF DeleteMirror
  <2>2. Listed(a) /\ a.id # cur.id
    BY <2>1, OpenListed DEF OpenPcs, Spared, Deleting
  <2>3. QED
    BY <1>3, <2>2 DEF DeleteMirror, Listed
<1>4. CASE SaveManifestSd
  BY <1>4 DEF SaveManifestSd, Shutdown, Sound, Listed, SavePcs
<1>5. CASE Insert \/ UNCHANGED vars
  BY <1>5 DEF Insert, vars, Sound, Listed
<1>6. QED
  BY <1>1, <1>2, <1>3, <1>4, <1>5 DEF Next, User, Program, World, Shutdown, Unlock, SavePcs,
     Boot, CheckSdCard, AnswerRetry, FindVault, AnswerRestore, AnswerCreate,
     RestoreDirs, RestoreMeta, RestoreManifest, RestoreList, RestoreSecrets, Restored,
     InitSdDirs, InitFlashDirs, InitMeta, InitMirror, LoadMeta, EnterPassphrase,
     LoadManifest, Lock, AddSecret, SaveSecretSd, SaveManifestMirror, OpenSecret,
     LeaveView, RevealSecret, RevealFails, HideSecret, CloseQr, ConfirmDelete, DeleteSd

LEMMA SafeSteps ==
  ASSUME OneFault, AckInv, Sound, [Next]_vars, ~PowerLoss, ~Pull, ~LoseCard, ~SwapCard
  PROVE  BothHold' /\ \A a \in acked' : Safe(a)'
<1>0. /\ Inv /\ IdInv /\ MirrorFree /\ FlashReady /\ MirrorWritten /\ Calm /\ Spared
      /\ TypeOK /\ Control /\ OwnVaults
  BY DEF AckInv, Inv, OneFault, OwnVaults
<1>1. /\ CardStays /\ StoredSoFar /\ RamIsCard /\ SaltOfCard /\ BothHold
      /\ \A a \in acked : Safe(a)
  BY DEF Sound
<1>2. \A a \in acked : a.id \in Ids
  BY <1>0, AckTypes
\* Only a file of a secret that is not promised changes.
<1>3. ASSUME UNCHANGED <<sdMeta, sdManifest, flMeta, flManifest, faults>>,
             acked' \subseteq acked, pc = "initMirror" => pc' = "initMirror",
             \A a \in acked : sdSecrets'[a.id] = sdSecrets[a.id]
                              /\ flSecrets'[a.id] = flSecrets[a.id]
      PROVE  BothHold' /\ \A a \in acked' : Safe(a)'
  <2>1. \A a \in acked : Safe(a)'
    BY <1>1, <1>3, KeepSd, KeepFlash DEF Safe
  <2>2. faults = 0 => \A a \in acked : InMirror(a)'
    BY <1>1, <1>3, KeepFlash DEF BothHold
  <2>3. QED
    BY <1>1, <1>3, <2>1, <2>2 DEF BothHold
<1>4. CASE InitMeta
  <2>1. acked' = {}
    BY <1>0, <1>4 DEF InitMeta, Calm, CreatePcs
  <2>2. QED
    BY <1>1, <1>4, <2>1 DEF InitMeta, Shutdown, BothHold
<1>5. CASE InitMirror
  <2>1. acked' = {}
    BY <1>0, <1>5 DEF InitMirror, Calm, CreatePcs
  <2>2. MirrorOutcomes(flMeta, salt) = {salt}
    BY <1>0, <1>5, MirrorTakes DEF InitMirror
  <2>3. QED
    BY <1>1, <1>5, <2>1, <2>2 DEF InitMirror, BothHold, SaltOfCard
<1>6. CASE SaveSecretSd
  <2>1. \A i \in Ids : i # cur.id => sdSecrets'[i] = sdSecrets[i]
    BY <1>0, <1>6 DEF SaveSecretSd, TypeOK
  <2>2. \A a \in acked : a.id # cur.id
    BY <1>0, <1>6, FreshAck DEF SaveSecretSd
  <2>3. QED
    BY <1>2, <1>3, <1>6, <2>1, <2>2 DEF SaveSecretSd
<1>7. CASE SaveSecretMirror
  <2>1. \A i \in Ids : i # cur.id => flSecrets'[i] = flSecrets[i]
    BY <1>0, <1>7 DEF SaveSecretMirror, TypeOK
  <2>2. \A a \in acked : a.id # cur.id
    BY <1>0, <1>7, FreshAck DEF SaveSecretMirror
  <2>3. QED
    BY <1>2, <1>3, <1>7, <2>1, <2>2 DEF SaveSecretMirror
<1>8. CASE DeleteSd
  <2>1. \A i \in Ids : i # cur.id => sdSecrets'[i] = sdSecrets[i]
    BY <1>0, <1>8 DEF DeleteSd, TypeOK
  <2>2. \A a \in acked : a.id # cur.id
    BY <1>0, <1>8 DEF DeleteSd, Spared, Deleting
  <2>3. QED
    BY <1>2, <1>3, <1>8, <2>1, <2>2 DEF DeleteSd
<1>9. CASE DeleteMirror
  <2>1. \A i \in Ids : i # cur.id => flSecrets'[i] = flSecrets[i]
    BY <1>0, <1>9 DEF DeleteMirror, TypeOK
  <2>2. \A a \in acked : a.id # cur.id
    BY <1>0, <1>9 DEF DeleteMirror, Spared, Deleting
  <2>3. QED
    BY <1>2, <1>3, <1>9, <2>1, <2>2 DEF DeleteMirror
<1>10. CASE SaveManifestSd
  <2> DEFINE new == [key |-> Cipher, entries |-> manifest]
  <2>1. pc = "saveSd" /\ sdManifest' = new
         /\ UNCHANGED <<sdMeta, sdSecrets, flMeta, flManifest, flSecrets, acked, faults>>
    BY <1>1, <1>10 DEF SaveManifestSd, SdWritable, CardStays, OpenPcs
  <2>2. IsManifest(new)
    BY <1>0, <2>1, ManifestIsOne DEF SavePcs
  <2>3. ASSUME NEW a \in acked PROVE OnCard(a)'
    <3>1. op # "create" /\ Listed(a)
      BY <1>0, <2>1 DEF Calm, SavePcs, Sound
    <3>2. sdManifest # Torn
      BY <1>1, <2>1, <3>1 DEF RamIsCard
    <3>3. OnCard(a) /\ Cipher = key
      BY <1>1, <3>1, <3>2 DEF Safe, Cipher
    <3>4. Opens(new, a.key) /\ [id |-> a.id, text |-> a.text] \in new.entries
      BY <2>2, <3>1, <3>3 DEF Opens, IsManifest, Listed
    <3>5. QED
      BY <2>1, <3>3, <3>4 DEF OnCard, OnSd, Holds, Opens
  <2>4. faults = 0 => \A a \in acked : InMirror(a)'
    BY <1>1, <2>1, KeepFlash DEF BothHold
  <2>5. sdManifest' # Torn
    BY <2>1, <2>2 DEF IsManifest
  <2>6. QED
    BY <1>1, <2>1, <2>3, <2>4, <2>5 DEF Safe, BothHold
<1>11. CASE SaveManifestMirror
  <2> DEFINE new == [key |-> Cipher, entries |-> manifest]
  <2>1. pc = "saveMirror" /\ sdManifest = new
         /\ UNCHANGED <<sdMeta, sdManifest, sdSecrets, flMeta, flSecrets, faults>>
    BY <1>1, <1>11 DEF SaveManifestMirror, StoredSoFar
  <2>2. IsManifest(new)
    BY <1>0, <2>1, ManifestIsOne DEF SavePcs
  <2>3. flManifest' = new
    <3>1. MirrorOutcomes(flManifest, new) = {new}
      BY <1>0, <2>1, MirrorTakes DEF SavePcs
    <3>2. QED
      BY <1>11, <3>1 DEF SaveManifestMirror
  <2>4. ASSUME NEW a \in acked PROVE OnCard(a)' /\ (faults = 0 => InMirror(a)')
    <3>1. op # "create" /\ Listed(a)
      BY <1>0, <2>1 DEF Calm, SavePcs, Sound
    <3>2. OnCard(a)
      BY <1>1, <2>1, <2>2 DEF Safe, IsManifest
    <3>3. Opens(new, a.key) /\ [id |-> a.id, text |-> a.text] \in new.entries
      BY <2>2, <3>1 DEF Opens, IsManifest, Listed, Cipher
    <3>4. faults = 0 => InMirror(a)'
      BY <1>1, <2>1, <2>3, <3>3 DEF BothHold, InMirror, OnFlash, Holds, Opens
    <3>5. QED
      BY <2>1, <3>2, <3>4, KeepSd
  <2>5. ASSUME NEW a \in acked' \ acked PROVE OnCard(a)' /\ (faults = 0 => InMirror(a)')
    <3>1. op = "add" /\ a = [key |-> key, id |-> cur.id, text |-> cur.text]
      BY <1>11, <2>5 DEF SaveManifestMirror
    <3>2. key.salt = sdMeta /\ key.salt \in Salts
      BY <1>0, <1>1, <2>1, <3>1 DEF SaltOfCard, Cipher, SavePcs, Control, Keys
    <3>3. OnSd(a)'
      BY <1>0, <1>1, AckStep
    <3>4. OnCard(a)'
      BY <2>1, <3>1, <3>2, <3>3 DEF OnCard
    <3>5. ASSUME faults = 0 PROVE InMirror(a)'
      <4>1. flMeta = key.salt
        BY <1>1, <2>1, <3>2, <3>5, MarkersAssumption DEF BothHold
      <4>2. flSecrets[cur.id] = [key |-> key, text |-> cur.text] /\ cur \in manifest
        BY <1>0, <1>1, <2>1, <3>1 DEF MirrorWritten, StoredSoFar, SavePcs
      <4>3. [id |-> cur.id, text |-> cur.text] = cur
        BY <1>0, <2>1, <3>1 DEF Control, Entries
      <4>4. Opens(new, key)
        BY <2>2, <3>1 DEF Opens, IsManifest, Cipher
      <4>5. QED
        BY <2>1, <2>3, <3>1, <4>1, <4>2, <4>3, <4>4 DEF InMirror, OnFlash, Holds, Opens
    <3>6. QED
      BY <3>4, <3>5
  <2>6. sdManifest' # Torn
    BY <2>1, <2>2 DEF IsManifest
  <2>7. QED
    BY <1>1, <2>1, <2>4, <2>5, <2>6 DEF Safe, BothHold
<1>12. CASE ~(InitMeta \/ InitMirror \/ SaveSecretSd \/ SaveSecretMirror \/ SaveManifestSd
              \/ SaveManifestMirror \/ DeleteSd \/ DeleteMirror)
  BY <1>1, <1>3, <1>12, QuietSteps DEF Quiet
<1>13. QED
  BY <1>4, <1>5, <1>6, <1>7, <1>8, <1>9, <1>10, <1>11, <1>12

LEMMA SoundStep ==
  ASSUME OneFault, AckInv, Sound, [Next]_vars, ~PowerLoss, ~Pull, ~LoseCard, ~SwapCard
  PROVE  Sound'
<1>1. Inv /\ Calm /\ Spared
  BY DEF AckInv
<1>2. CardStays /\ StoredSoFar /\ RamIsCard /\ SaltOfCard /\ Settled
  BY DEF Sound
<1>3. CardStays' /\ StoredSoFar' /\ RamIsCard' /\ SaltOfCard'
  BY <1>1, <1>2, CardStaysStep, StoredStep, RamIsCardStep, SaltOfCardStep
<1>4. Settled'
  BY <1>1, <1>2, ExistsOnCard, SettledStep
<1>5. pc' \in SavePcs => \A a \in acked' : Listed(a)'
  BY <1>1, ListedStep
<1>6. QED
  BY <1>3, <1>4, <1>5, SafeSteps DEF Sound

\* The power loss: one file is torn, the other copy is whole.
LEMMA SoundPower ==
  ASSUME OneFault, AckInv, Sound, [Next]_vars, PowerLoss
  PROVE  Sound'
<1>1. Inv /\ IdInv /\ Calm /\ TypeOK
  BY DEF AckInv, Inv
<1>2. ~Pull /\ ~LoseCard /\ ~SwapCard /\ faults = 0
  <2>1. faults = 0 /\ ~Pull /\ ~SwapCard
    BY <1>1, NoMoreFaults
  <2>2. pc' = "off" /\ pc # "off"
    BY DEF PowerLoss, Shutdown
  <2>3. QED
    BY <2>1, <2>2 DEF LoseCard
<1>3. CardStays /\ StoredSoFar /\ RamIsCard /\ SaltOfCard
  BY DEF Sound
<1>4. CardStays' /\ StoredSoFar' /\ RamIsCard' /\ SaltOfCard'
  BY <1>1, <1>2, <1>3, CardStaysStep, StoredStep, RamIsCardStep, SaltOfCardStep
<1>5. pc' = "off" /\ faults' # 0 /\ acked' = acked
  BY <1>2 DEF PowerLoss, Shutdown, Fault
<1>6. ASSUME NEW a \in acked PROVE Safe(a)'
  <2>1. sdManifest # Torn /\ OnCard(a) /\ InMirror(a) /\ a.id \in Ids
    BY <1>1, <1>2, AckTypes DEF Sound, Safe, BothHold
  <2>2. CASE UNCHANGED <<sdMeta, sdManifest, sdSecrets>>
    BY <2>1, <2>2, KeepSd DEF Safe
  <2>3. CASE sdManifest' = Torn /\ UNCHANGED fl
    BY <2>1, <2>3, KeepFlash DEF Safe
  <2>4. CASE sdMeta' = Torn /\ pc \in {"initMeta", "restoreMeta"}
    BY <1>1, <1>3, <2>4 DEF Calm, CreatePcs, CardStays
  <2>5. CASE /\ UNCHANGED <<sdMeta, sdManifest>> /\ pc = "addSd"
             /\ sdSecrets' = [sdSecrets EXCEPT ![cur.id] = Torn]
    <3>1. a.id # cur.id
      BY <1>1, <2>5, FreshAck
    <3>2. sdSecrets'[a.id] = sdSecrets[a.id]
      BY <1>1, <2>1, <2>5, <3>1 DEF TypeOK
    <3>3. QED
      BY <2>1, <2>5, <3>2, KeepSd DEF Safe
  <2>6. pc # "restoreSecrets"
    BY <1>3 DEF CardStays
  <2>7. QED
    BY <2>2, <2>3, <2>4, <2>5, <2>6 DEF PowerLoss, TearSd
<1>7. QED
  BY <1>4, <1>5, <1>6 DEF Sound, Settled, BothHold, SavePcs

\* The lost card: the mirror holds everything, whatever the program was doing.
LEMMA SoundLose ==
  ASSUME OneFault, AckInv, Sound, LoseCard
  PROVE  Lost'
<1>1. Inv /\ IdInv /\ Calm /\ TypeOK /\ Control
  BY DEF AckInv, Inv
<1>2. faults = 0
  BY <1>1, NoMoreFaults
<1>3. CardStays /\ StoredSoFar /\ RamIsCard /\ SaltOfCard
       /\ \A a \in acked : InMirror(a)
  BY <1>2 DEF Sound, BothHold
<1>4. /\ faults' # 0 /\ inserted' /\ ~sdDirs' /\ sdMeta' = None /\ sdManifest' = None
      /\ UNCHANGED <<flMeta, flManifest, flSecrets, key, manifest, pc, op, cur, cand, acked>>
  BY <1>2 DEF LoseCard, Fault
<1>5. pc \notin RestorePcs /\ (pc \notin OpenPcs \cup SavePcs => manifest = {})
  BY <1>3 DEF CardStays, RamIsCard, RestorePcs, SavePcs
<1>6. pc \in OpenPcs \cup SavePcs => \A a \in acked : Listed(a)
  BY OpenListed DEF Sound
<1>7. pc = "addMirror" => \A a \in acked : a.id # cur.id
  BY <1>1, FreshAck
<1>8. pc = "saveMirror" /\ op = "add" => cur \in manifest /\ flMeta = key.salt
  <2>1. SUFFICES ASSUME pc = "saveMirror", op = "add"
                 PROVE  cur \in manifest /\ flMeta = key.salt
    OBVIOUS
  <2>2. key \in Keys /\ key.salt = sdMeta
    BY <1>1, <1>3, <2>1 DEF Control, SaltOfCard, Cipher, SavePcs
  <2>3. sdMeta # None
    BY <2>2, MarkersAssumption DEF Keys
  <2>4. QED
    BY <1>2, <1>3, <2>1, <2>2, <2>3 DEF Sound, BothHold, StoredSoFar, SavePcs
<1>9. \A a \in acked : InMirror(a)'
  BY <1>3, <1>4, KeepFlash
<1>10. \A a \in acked : Listed(a) => a.key = key
  BY DEF Listed
<1>11. pc' = "saveMirror" => \A a \in acked' : Listed(a)'
  BY <1>4, <1>6 DEF Listed, SavePcs
<1>12. /\ pc' \notin RestorePcs /\ (pc' \notin OpenPcs \cup SavePcs => manifest' = {})
       /\ pc' \in OpenPcs \cup SavePcs => \A a \in acked' : a.key = key'
       /\ pc' = "addMirror" => \A a \in acked' : a.id # cur'.id
       /\ pc' = "saveMirror" /\ op' = "add" => cur' \in manifest' /\ flMeta' = key'.salt
  BY <1>4, <1>5, <1>6, <1>7, <1>8, <1>10
<1>13. QED
  BY <1>4, <1>9, <1>11, <1>12 DEF Lost, OpenPcs

\* With the card lost the program leaves the mirror's copies alone.
LEMMA LostMirror ==
  ASSUME OneFault, AckInv, Lost, [Next]_vars, NEW a \in acked'
  PROVE  InMirror(a)'
<1>0. /\ Inv /\ FlashReady /\ MirrorWritten /\ Calm /\ Spared
      /\ TypeOK /\ Control /\ OwnVaults
  BY DEF AckInv, Inv, OneFault, OwnVaults
<1>1. ~Pull /\ ~PowerLoss /\ ~LoseCard /\ ~SwapCard
  BY <1>0, NoMoreFaults DEF Lost
<1>2. ASSUME a \in acked, UNCHANGED <<flMeta, flManifest>>,
             flSecrets'[a.id] = flSecrets[a.id]
      PROVE  InMirror(a)'
  BY <1>2, KeepFlash DEF Lost
<1>3. a \in acked => a.id \in Ids
  BY <1>0, AckTypes
<1>4. CASE InitMirror
  BY <1>0, <1>4 DEF InitMirror, Calm, CreatePcs
<1>5. CASE SaveSecretMirror
  <2>1. \A i \in Ids : i # cur.id => flSecrets'[i] = flSecrets[i]
    BY <1>0, <1>5 DEF SaveSecretMirror, TypeOK
  <2>2. QED
    BY <1>2, <1>3, <1>5, <2>1 DEF SaveSecretMirror, Lost
<1>6. CASE DeleteMirror
  <2>1. \A i \in Ids : i # cur.id => flSecrets'[i] = flSecrets[i]
    BY <1>0, <1>6 DEF DeleteMirror, TypeOK
  <2>2. a \in acked /\ a.id # cur.id
    BY <1>0, <1>6 DEF DeleteMirror, Spared, Deleting
  <2>3. QED
    BY <1>2, <1>3, <1>6, <2>1, <2>2 DEF DeleteMirror
<1>7. CASE SaveManifestMirror
  <2> DEFINE new == [key |-> Cipher, entries |-> manifest]
  <2>1. pc = "saveMirror" /\ UNCHANGED <<flMeta, flSecrets>>
    BY <1>7 DEF SaveManifestMirror
  <2>2. IsManifest(new)
    BY <1>0, <2>1, ManifestIsOne DEF SavePcs
  <2>3. flManifest' = new
    <3>1. MirrorOutcomes(flManifest, new) = {new}
      BY <1>0, <2>1, MirrorTakes DEF SavePcs
    <3>2. QED
      BY <1>7, <3>1 DEF SaveManifestMirror
  <2>4. CASE a \in acked
    <3>1. op # "create" /\ Listed(a) /\ InMirror(a)
      BY <1>0, <2>1, <2>4 DEF Calm, SavePcs, Lost
    <3>2. Opens(new, a.key) /\ [id |-> a.id, text |-> a.text] \in new.entries
      BY <2>2, <3>1 DEF Opens, IsManifest, Listed, Cipher
    <3>3. QED
      BY <2>1, <2>3, <3>1, <3>2 DEF InMirror, OnFlash, Holds, Opens
  <2>5. CASE a \notin acked
    <3>1. op = "add" /\ a = [key |-> key, id |-> cur.id, text |-> cur.text]
      BY <1>7, <2>5 DEF SaveManifestMirror
    <3>2. flMeta = key.salt /\ cur \in manifest
      BY <2>1, <3>1 DEF Lost
    <3>3. flSecrets[cur.id] = [key |-> key, text |-> cur.text]
      BY <1>0, <2>1, <3>1 DEF MirrorWritten, SavePcs
    <3>4. [id |-> cur.id, text |-> cur.text] = cur
      BY <1>0, <2>1, <3>1 DEF Control, Entries
    <3>5. Opens(new, key)
      BY <2>2, <3>1 DEF Opens, IsManifest, Cipher
    <3>6. QED
      BY <2>1, <2>3, <3>1, <3>2, <3>3, <3>4, <3>5 DEF InMirror, OnFlash, Holds, Opens
  <2>6. QED
    BY <2>4, <2>5
<1>8. CASE ~(InitMirror \/ SaveSecretMirror \/ DeleteMirror \/ SaveManifestMirror)
  <2>1. UNCHANGED <<flMeta, flManifest, flSecrets>> /\ acked' \subseteq acked
    BY <1>1, <1>8 DEF Next, User, Program, World, vars,
       Boot, CheckSdCard, AnswerRetry, FindVault, AnswerRestore, AnswerCreate,
       RestoreDirs, RestoreMeta, RestoreManifest, RestoreList, RestoreSecrets, Restored,
       InitSdDirs, InitFlashDirs, InitMeta, NewPassphrase, LoadMeta, EnterPassphrase,
       LoadManifest, Lock, AddSecret, SaveSecretSd, SaveManifestSd, OpenSecret,
       LeaveView, RevealSecret, RevealFails, HideSecret, CloseQr, ConfirmDelete, DeleteSd, Insert
  <2>2. QED
    BY <1>2, <2>1
<1>9. QED
  BY <1>4, <1>5, <1>6, <1>7, <1>8

LEMMA LostStep ==
  ASSUME OneFault, AckInv, Lost, [Next]_vars
  PROVE  Lost' \/ Restoring' \/ Sound'
<1>0. Inv /\ Calm /\ Control /\ MirrorFree /\ FlashReady
  BY DEF AckInv, Inv
<1>1. ~Pull /\ ~PowerLoss /\ ~LoseCard /\ ~SwapCard
  BY <1>0, NoMoreFaults DEF Lost
<1>2. \A a \in acked' : InMirror(a)'
  BY LostMirror
\* A new vault on the new card; there was nothing to lose.
<1>3. CASE InitSdDirs /\ mounted
  <2>1. acked' = {} /\ flMeta' = None
    BY <1>0, <1>3 DEF InitSdDirs, Calm, CreatePcs, MirrorFree
  <2>2. /\ pc' = "initFlashDirs" /\ sdMeta' = None /\ faults' # 0
        /\ manifest' = {}
    BY <1>3 DEF InitSdDirs, Lost, OpenPcs, SavePcs
  <2>3. CardStays' /\ StoredSoFar' /\ RamIsCard' /\ SaltOfCard'
    BY <2>1, <2>2 DEF CardStays, StoredSoFar, RamIsCard, SaltOfCard, OpenPcs, SavePcs
  <2>4. QED
    BY <2>1, <2>2, <2>3 DEF Sound, Settled, BothHold
<1>4. CASE RestoreDirs /\ mounted
  <2>1. Restoring'
    BY <1>0, <1>2, <1>4 DEF RestoreDirs, Lost, Restoring, RestorePcs, FlashReady, OpenPcs,
       SavePcs
  <2>2. QED
    BY <2>1
<1>5. CASE (InitSdDirs \/ RestoreDirs) /\ ~mounted
  BY <1>2, <1>5 DEF InitSdDirs, RestoreDirs, Shutdown, ClearRam, Lost, RestorePcs, OpenPcs,
     SavePcs
<1>6. CASE Boot \/ CheckSdCard \/ FindVault \/ AnswerRetry \/ AnswerRestore \/ AnswerCreate \/ Lock
  BY <1>2, <1>6 DEF Boot, CheckSdCard, FindVault, AnswerRetry, AnswerRestore, AnswerCreate,
     Lock, Shutdown, ClearRam, Lost, RestorePcs, OpenPcs, SavePcs
<1>7. CASE RestoreMeta \/ RestoreManifest \/ RestoreList \/ RestoreSecrets \/ Restored
  BY <1>7 DEF RestoreMeta, RestoreManifest, RestoreList, RestoreSecrets, Restored, Lost,
     RestorePcs
<1>8. CASE InitFlashDirs \/ InitMeta \/ InitMirror \/ LoadMeta \/ EnterPassphrase
  BY <1>2, <1>8, MarkersAssumption DEF InitFlashDirs, InitMeta, InitMirror, LoadMeta,
     EnterPassphrase, SdWritable, Shutdown, ClearRam, Lost, RestorePcs, OpenPcs, SavePcs
<1>9. CASE NewPassphrase
  <2>1. acked' = {}
    BY <1>0, <1>9 DEF NewPassphrase, Calm, CreatePcs
  <2>2. QED
    BY <1>9, <2>1 DEF NewPassphrase, Shutdown, ClearRam, Lost, RestorePcs, OpenPcs, SavePcs
<1>10. CASE LoadManifest
  BY <1>2, <1>10 DEF LoadManifest, Unlock, Opens, Lost, RestorePcs, OpenPcs, SavePcs
<1>11. CASE AddSecret \/ SaveSecretSd
  BY <1>2, <1>11 DEF AddSecret, SaveSecretSd, SdWritable, Lost, RestorePcs, OpenPcs, SavePcs
<1>12. CASE SaveSecretMirror \/ DeleteMirror
  BY <1>2, <1>12 DEF SaveSecretMirror, DeleteMirror, Lost, RestorePcs, OpenPcs, SavePcs
<1>13. CASE SaveManifestSd
  BY <1>2, <1>13 DEF SaveManifestSd, SdWritable, Shutdown, ClearRam, Lost, RestorePcs,
     OpenPcs, SavePcs
<1>14. CASE SaveManifestMirror
  <2>1. \A a \in acked' : a.key = key'
    BY <1>0, <1>14 DEF SaveManifestMirror, Cipher, Calm, Lost, SavePcs
  <2>2. QED
    BY <1>2, <1>14, <2>1 DEF SaveManifestMirror, Lost, RestorePcs, OpenPcs, SavePcs
<1>15. CASE OpenSecret \/ LeaveView \/ RevealSecret \/ RevealFails \/ HideSecret \/ CloseQr
            \/ ConfirmDelete \/ DeleteSd
  BY <1>2, <1>15 DEF OpenSecret, LeaveView, RevealSecret, RevealFails, HideSecret, CloseQr,
     ConfirmDelete, DeleteSd, Lost, RestorePcs, OpenPcs, SavePcs
<1>16. CASE Insert
  BY <1>16 DEF Insert, Lost
<1>17. CASE UNCHANGED vars
  BY <1>2, <1>17 DEF vars, Lost, Listed, RestorePcs, OpenPcs, SavePcs
<1>18. QED
  BY <1>1, <1>3, <1>4, <1>5, <1>6, <1>7, <1>8, <1>9, <1>10, <1>11, <1>12, <1>13, <1>14,
     <1>15, <1>16, <1>17 DEF Next, User, Program, World

\* The restore runs to its end, and the card is the mirror's copy then.
LEMMA RestoringStep ==
  ASSUME OneFault, AckInv, Restoring, [Next]_vars
  PROVE  Restoring' \/ Sound'
<1>0. Inv /\ TypeOK /\ FlashReady
  BY DEF AckInv, Inv
<1>1. ~Pull /\ ~PowerLoss /\ ~LoseCard /\ ~SwapCard /\ ~Insert
  BY <1>0, NoMoreFaults DEF Restoring, Insert
<1>2. ASSUME UNCHANGED <<fl, acked>> PROVE \A a \in acked' : InMirror(a)'
  BY <1>2, KeepFlash DEF Restoring
<1>3. CASE RestoreMeta
  BY <1>2, <1>3 DEF RestoreMeta, SdWritable, Restoring, RestorePcs
<1>4. CASE RestoreManifest
  <2>1. sdManifest' = flManifest
    BY <1>4 DEF RestoreManifest, SdWritable, Restoring
  <2>2. QED
    BY <1>2, <1>4, <2>1 DEF RestoreManifest, Restoring, RestorePcs
<1>5. CASE RestoreList
  <2>1. flDirs /\ FlashDirs /\ mounted
    BY <1>0 DEF Restoring, FlashReady
  <2>2. /\ pc' = "restoreSecrets" /\ todo' = {i \in Ids : flSecrets[i] # None}
        /\ sdDirs' = TRUE /\ UNCHANGED <<card, sdMeta, sdManifest, fl, manifest, acked, faults>>
    BY <1>5, <2>1 DEF RestoreList, Restoring
  <2>3. sdMeta' = flMeta' /\ sdManifest' = flManifest'
    BY <1>5, <2>2 DEF RestoreList, Restoring
  <2>4. QED
    BY <1>2, <2>2, <2>3 DEF Restoring, RestorePcs
<1>6. CASE RestoreSecrets
  <2>1. CASE \E i \in todo : /\ sdSecrets' = [sdSecrets EXCEPT ![i] = flSecrets[i]]
                             /\ todo' = todo \ {i} /\ UNCHANGED pc
    <3>1. PICK i \in todo : /\ sdSecrets' = [sdSecrets EXCEPT ![i] = flSecrets[i]]
                            /\ todo' = todo \ {i} /\ UNCHANGED pc
      BY <2>1
    <3>2. \A j \in Ids : flSecrets[j] # None /\ j \notin todo' => sdSecrets'[j] = flSecrets[j]
      <4>1. \A j \in Ids : sdSecrets'[j] = IF j = i THEN flSecrets[j] ELSE sdSecrets[j]
        BY <1>0, <3>1 DEF TypeOK
      <4>2. \A j \in Ids : flSecrets[j] # None /\ j \notin todo => sdSecrets[j] = flSecrets[j]
        BY <1>6 DEF RestoreSecrets, Restoring
      <4>3. QED
        BY <3>1, <4>1, <4>2
    <3>3. QED
      BY <1>2, <1>6, <3>1, <3>2 DEF RestoreSecrets, Restoring, RestorePcs
  <2>2. CASE todo = {} /\ todo' = {} /\ UNCHANGED sdSecrets /\ pc' = "restored"
    BY <1>2, <1>6, <2>2 DEF RestoreSecrets, Restoring, RestorePcs
  <2>3. mounted /\ sdDirs
    BY DEF Restoring
  <2>4. QED
    BY <1>6, <2>1, <2>2, <2>3 DEF RestoreSecrets
<1>7. CASE Restored
  <2>1. /\ pc = "restored" /\ sdMeta = flMeta /\ flMeta # None /\ sdManifest = flManifest
        /\ \A i \in Ids : flSecrets[i] # None => sdSecrets[i] = flSecrets[i]
        /\ inserted /\ mounted /\ sdDirs /\ manifest = {}
    BY <1>7 DEF Restored, Restoring
  <2>2. pc' = "loadMeta" /\ UNCHANGED <<card, sd, fl, unlocked, locals, hist>>
    BY <1>7, <2>1 DEF Restored, VaultExistsSd
  <2>3. ASSUME NEW a \in acked PROVE Safe(a)'
    <3>1. InMirror(a) /\ a.id \in Ids
      BY <1>0, AckTypes DEF Restoring
    <3>2. [key |-> a.key, text |-> a.text] # None
      <4>1. [key |-> a.key, text |-> a.text] \in [key : Keys, text : Texts]
        BY <1>0, AckTypes
      <4>2. QED
        BY <4>1, MarkersAssumption
    <3>3. OnCard(a) /\ sdManifest # Torn
      BY <2>1, <3>1, <3>2 DEF InMirror, OnFlash, OnCard, OnSd, Holds, Opens
    <3>4. QED
      BY <2>2, <3>3, KeepSd DEF Safe
  <2>4. CardStays' /\ StoredSoFar' /\ RamIsCard' /\ SaltOfCard'
    BY <2>1, <2>2 DEF CardStays, StoredSoFar, RamIsCard, SaltOfCard, OpenPcs, SavePcs
  <2>5. faults' # 0
    BY <2>2 DEF Restoring
  <2>6. QED
    BY <2>2, <2>3, <2>4, <2>5 DEF Sound, Settled, BothHold, SavePcs
<1>8. CASE UNCHANGED vars
  BY <1>2, <1>8 DEF vars, Restoring, RestorePcs
<1>9. QED
  BY <1>1, <1>3, <1>4, <1>5, <1>6, <1>7, <1>8 DEF Next, User, Program, World, Restoring,
     RestorePcs, Boot, CheckSdCard, AnswerRetry, FindVault, AnswerRestore, AnswerCreate,
     RestoreDirs, InitSdDirs, InitFlashDirs, InitMeta, InitMirror, NewPassphrase, LoadMeta,
     EnterPassphrase, LoadManifest, Lock, AddSecret, SaveSecretSd, SaveSecretMirror,
     SaveManifestSd, SaveManifestMirror, OpenSecret, LeaveView, RevealSecret, RevealFails,
     HideSecret, CloseQr, ConfirmDelete, DeleteSd, DeleteMirror

LEMMA InitAckInv == ASSUME OneFault, Init PROVE AckInv
<1>1. OwnVaults
  BY DEF OneFault, OwnVaults
<1>2. Inv /\ IdInv /\ FlashReady /\ MirrorWritten
  BY <1>1, InitInv, InitIdInv, InitMirrors
<1>3. sdMeta = None /\ sdManifest = None /\ flMeta = None
  BY <1>1 DEF Init, OwnVaults
<1>4. pc = "off" /\ acked = {} /\ manifest = {}
  BY DEF Init
<1>5. MirrorFree
  BY <1>3 DEF MirrorFree
<1>6. CardStays /\ StoredSoFar /\ RamIsCard /\ SaltOfCard
  BY <1>3, <1>4 DEF CardStays, StoredSoFar, RamIsCard, SaltOfCard, OpenPcs, SavePcs
<1>7. Sound
  BY <1>3, <1>4, <1>6, MarkersAssumption DEF Sound, Settled, BothHold, SavePcs
<1>8. QED
  BY <1>2, <1>4, <1>5, <1>7 DEF AckInv, Calm, Spared

LEMMA AckInvStep == ASSUME OneFault, AckInv, [Next]_vars PROVE AckInv'
<1>0. /\ Inv /\ IdInv /\ MirrorFree /\ FlashReady /\ MirrorWritten /\ Calm /\ Spared
      /\ OwnVaults /\ ~Pull /\ ~SwapCard
  BY NoMoreFaults DEF AckInv, OneFault, OwnVaults
<1>1. Inv' /\ IdInv' /\ MirrorFree' /\ FlashReady' /\ MirrorWritten'
  BY <1>0, InvStep, IdInvStep, MirrorFreeStep, FlashReadyStep, MirrorWrittenStep
<1>2. Sound' \/ Lost' \/ Restoring'
  <2>1. CASE Sound
    BY <1>0, <2>1, SoundStep, SoundPower, SoundLose
  <2>2. CASE Lost
    BY <2>2, LostStep
  <2>3. CASE Restoring
    BY <2>3, RestoringStep
  <2>4. QED
    BY <2>1, <2>2, <2>3 DEF AckInv
<1>3. Spared'
  <2>1. pc = "view" => \A a \in acked : a.key = key
    <3>1. CASE Sound
      BY <3>1, OpenListed DEF OpenPcs, Listed
    <3>2. CASE Lost
      BY <3>2 DEF Lost
    <3>3. CASE Restoring
      BY <3>3 DEF Restoring, RestorePcs
    <3>4. QED
      BY <3>1, <3>2, <3>3 DEF AckInv
  <2>2. QED
    BY <1>0, <2>1, SparedStep
<1>4. Calm'
  <2>1. pc = "exists" /\ acked # {} => VaultExistsSd \/ VaultExistsFlash
    <3>1. CASE Sound
      BY <1>0, <3>1, ExistsOnCard
    <3>2. CASE Lost \/ Restoring
      <4>1. \A a \in acked : flMeta = a.key.salt /\ a.key.salt # None
        BY <1>0, <3>2, AckTypes, MarkersAssumption DEF Lost, Restoring, InMirror, Inv
      <4>2. QED
        BY <4>1 DEF VaultExistsFlash
    <3>3. QED
      BY <3>1, <3>2 DEF AckInv
  <2>2. pc = "saveMirror" => inserted
    BY DEF AckInv, Sound, CardStays, Lost, Restoring
  <2>3. QED
    BY <1>0, <2>1, <2>2, CalmStep
<1>5. QED
  BY <1>1, <1>2, <1>3, <1>4 DEF AckInv

\* On a device that made its vault itself and that meets one fault, a power
\* loss at any step or a lost card at any step with the restore that follows,
\* a secret that was reported stored and not deleted is listed and intact in
\* the card's or the mirror's copy, next to the salt of its key.
THEOREM AckSurvivesHolds ==
  ASSUME Faults \subseteq {"power", "lose"}, MaxFaults <= 1, InitialCards \subseteq {"blank"}
  PROVE  Spec => []AckSurvives
<1>1. OneFault
  BY DEF OneFault
<1>2. Init => AckInv
  BY <1>1, InitAckInv
<1>3. AckInv /\ [Next]_vars => AckInv'
  BY <1>1, AckInvStep
<1>4. AckInv => AckSurvives
  BY DEF AckInv, Sound, Lost, Restoring, Safe, InMirror, OnCard, AckSurvives
<1>5. QED
  BY <1>2, <1>3, <1>4, PTL DEF Spec
=============================================================================
