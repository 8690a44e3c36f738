----------------------------- MODULE WriteData -----------------------------
(***************************************************************************)
(* firmware.write_data as upgrade() calls it for a firmware slot: the file *)
(* is read into a buffer piece by piece; each full buffer is a chunk that  *)
(* is erased and programmed.  A header goes before the first byte, the     *)
(* SHA-256 of header and file after the last, zeros up to the end of the   *)
(* last chunk.  Power may fail, or a read, between any two steps; the next *)
(* upgrade starts again on what is there.                                  *)
(*                                                                         *)
(* A byte is what it is of: kind, image and position.  A read may return   *)
(* less than it was asked for, nothing at all included: the code has a     *)
(* counter for that (read_attempts).                                       *)
(***************************************************************************)
EXTENDS Integers, Sequences

CONSTANTS
  ChunkSize,    \* FIRMWARE_WRITE_CHUNCK_SIZE
  HeaderSize,   \* 5: the key byte and the size
  ShaSize,      \* len(sha_suffix)
  MaxAttempts,  \* 5
  SlotSize,     \* FIRMWARE_SLOT_2 - FIRMWARE_SLOT_1
  FileSizes,    \* sizes a firmware file may have: up to MAX_FIRMWARE_SIZE
  OldSize,      \* the size of the firmware that was in the slot before
  MaxTries,     \* bound: calls of write_data on the slot
  MaxHoles      \* bound: reads inside a chunk that return nothing, per call

ASSUME WriteDataAssumption ==
  /\ ChunkSize \in Nat /\ HeaderSize \in Nat \ {0} /\ ShaSize \in Nat \ {0}
  /\ HeaderSize < ChunkSize
  /\ MaxAttempts \in Nat /\ MaxTries \in Nat \ {0} /\ MaxHoles \in Nat
  /\ SlotSize \in Nat /\ SlotSize % ChunkSize = 0
  /\ FileSizes \subseteq Nat \ {0} /\ OldSize \in Nat
  /\ \A n \in FileSizes \cup {OldSize} : HeaderSize + n + ShaSize <= SlotSize

VARIABLES
  slot,      \* the flash from the slot's first byte on
  dataSize,  \* data_size
  wpc,       \* where write_data is
  i,         \* the chunk
  buffer,    \* what is in the buffer: chunk_read bytes
  totalRead,
  attempts,  \* read_attempts
  tries,     \* history: calls so far
  holes,     \* history: reads inside a chunk that returned nothing, this call
  ended      \* history: some call has written its last chunk

loop == <<i, buffer, totalRead, attempts>>
past == <<tries, holes, ended>>
wvars == <<slot, dataSize, wpc, loop, past>>

Byte(kind, image, p) == <<kind, image, p>>
Bytes(kind, image, from, n) == [k \in 1..n |-> Byte(kind, image, from + k)]
Erased == Byte("erased", 0, 0)
Zero == Byte("zero", 0, 0)

\* A block as Kboot wants it; an image is named by its size and its age.
Block(age, n) ==
  Bytes("header", <<age, n>>, 0, HeaderSize) \o Bytes("data", <<age, n>>, 0, n)
    \o Bytes("sha", <<age, n>>, 0, ShaSize)

New == <<"new", dataSize>>

\* chunk_size_after_header
Offset == IF i = 0 THEN HeaderSize ELSE 0
Room == ChunkSize - Offset

----------------------------------------------------------------------------
(* One round of the loop.                                                  *)

\* Mutant: the hash goes where the next byte of the file would.
FillHashLate(b, t) ==
  IF t >= dataSize /\ Len(b) < Room
  THEN LET left == dataSize + ShaSize - t
           n == IF Room - Len(b) - 1 < left THEN Room - Len(b) - 1 ELSE left
       IN  /\ buffer' = Append(b, Zero) \o Bytes("sha", New, t - dataSize, n)
           /\ totalRead' = t + n
  ELSE buffer' = b /\ totalRead' = t

\* Mutant: the hash behind the end of the file is not counted.
FillUncounted(b, t) ==
  IF t >= dataSize
  THEN LET left == dataSize + ShaSize - t
           n == IF Room - Len(b) < left THEN Room - Len(b) ELSE left
       IN  buffer' = b \o Bytes("sha", New, t - dataSize, n) /\ totalRead' = t
  ELSE buffer' = b /\ totalRead' = t

\* As much of the hash as has room behind the end of the file.
Fill(b, t) ==
  IF t >= dataSize
  THEN LET left == dataSize + ShaSize - t
           n == IF Room - Len(b) < left THEN Room - Len(b) ELSE left
       IN  /\ buffer' = b \o Bytes("sha", New, t - dataSize, n)
           /\ totalRead' = t + n
  ELSE buffer' = b /\ totalRead' = t

\* data.read returns n bytes.  A chunk that has room left waits for more.
ReadSome(n) ==
  /\ wpc = "read" /\ totalRead < dataSize
  /\ n <= Room - Len(buffer) /\ n <= dataSize - totalRead
  /\ LET b == buffer \o Bytes("data", New, totalRead, n)
         t == totalRead + n
     IN  IF Len(b) < Room /\ t < dataSize
         THEN wpc' = "read" /\ buffer' = b /\ totalRead' = t
         ELSE wpc' = "erase" /\ Fill(b, t)
  /\ UNCHANGED <<slot, dataSize, i, attempts, past>>

\* data.read returns nothing: an attempt when the chunk is empty, the end of
\* the chunk otherwise.
ReadNothing ==
  /\ wpc = "read" /\ totalRead < dataSize
  /\ IF buffer = <<>>
     THEN /\ wpc' = IF attempts < MaxAttempts THEN "read" ELSE "failed"
          /\ attempts' = IF attempts < MaxAttempts THEN attempts + 1 ELSE attempts
          /\ UNCHANGED <<buffer, totalRead, holes>>
     ELSE /\ holes < MaxHoles /\ holes' = holes + 1
          /\ wpc' = "erase"
          /\ UNCHANGED <<buffer, totalRead, attempts>>
  /\ UNCHANGED <<slot, dataSize, i, tries, ended>>

\* The file is in: what is left of the hash starts a chunk.
ReadHash ==
  /\ wpc = "read" /\ totalRead >= dataSize
  /\ wpc' = "erase"
  /\ Fill(<<>>, totalRead)
  /\ UNCHANGED <<slot, dataSize, i, attempts, past>>

\* data.read raises: "Error read/write data".
ReadFails ==
  /\ wpc = "read" /\ totalRead < dataSize
  /\ wpc' = "failed"
  /\ UNCHANGED <<slot, dataSize, loop, past>>

Program(from, bytes) ==
  slot' = [p \in DOMAIN slot |-> IF p \in from + 1 .. from + Len(bytes)
                                 THEN bytes[p - from] ELSE slot[p]]

Erase ==
  /\ wpc = "erase"
  /\ Program(i * ChunkSize, [k \in 1..ChunkSize |-> Erased])
  /\ wpc' = IF i = 0 THEN "header" ELSE "write"
  /\ UNCHANGED <<dataSize, loop, past>>

WriteHeader ==
  /\ wpc = "header"
  /\ Program(0, Bytes("header", New, 0, HeaderSize))
  /\ wpc' = "write"
  /\ UNCHANGED <<dataSize, loop, past>>

\* The buffer, padded with zeros.
WriteChunk ==
  /\ wpc = "write"
  /\ Program(i * ChunkSize + Offset,
       [k \in 1..Room |-> IF k <= Len(buffer) THEN buffer[k] ELSE Zero])
  /\ i' = i + 1 /\ buffer' = <<>>
  /\ wpc' = "head"
  /\ ended' = (ended \/ totalRead = dataSize + ShaSize)
  /\ UNCHANGED <<dataSize, totalRead, attempts, tries, holes>>

\* Mutant: the end is missed.
LoopHeadGoesOn ==
  /\ wpc = "head"
  /\ wpc' = IF totalRead > dataSize + ShaSize THEN "returned" ELSE "read"
  /\ UNCHANGED <<slot, dataSize, loop, past>>

\* The test at the head of the loop, after each chunk.
LoopHead ==
  /\ wpc = "head"
  /\ wpc' = IF totalRead = dataSize + ShaSize THEN "returned" ELSE "read"
  /\ UNCHANGED <<slot, dataSize, loop, past>>

----------------------------------------------------------------------------

Writing == {"read", "erase", "header", "write", "head"}

\* In write_data, or after it and before the sectors name the slot.
PowerCut ==
  /\ wpc \in Writing \cup {"returned"}
  /\ wpc' = "cut"
  /\ UNCHANGED <<slot, dataSize, loop, past>>

\* The next upgrade calls write_data again, on a slot that is torn or whole.
Again ==
  /\ wpc \in {"cut", "failed"} /\ tries < MaxTries
  /\ wpc' = "read"
  /\ i' = 0 /\ buffer' = <<>> /\ totalRead' = 0 /\ attempts' = 0
  /\ tries' = tries + 1 /\ holes' = 0
  /\ UNCHANGED <<slot, dataSize, ended>>

\* The other firmware is in the slot; the next slot's flash follows.
WriteInit ==
  /\ dataSize \in FileSizes
  /\ slot = [p \in 1 .. SlotSize + 2 * ChunkSize |->
               IF p <= Len(Block("old", OldSize)) THEN Block("old", OldSize)[p]
               ELSE Byte("beyond", 0, p)]
  /\ wpc = "read"
  /\ i = 0 /\ buffer = <<>> /\ totalRead = 0 /\ attempts = 0
  /\ tries = 1 /\ holes = 0 /\ ended = FALSE

WriteNext ==
  \/ \E n \in 1..ChunkSize : ReadSome(n)
  \/ ReadNothing \/ ReadHash \/ ReadFails
  \/ Erase \/ WriteHeader \/ WriteChunk \/ LoopHead
  \/ PowerCut \/ Again

----------------------------------------------------------------------------
(* What Kboot makes of it.                                                 *)

Holds(age, n) == SubSeq(slot, 1, Len(Block(age, n))) = Block(age, n)

----------------------------------------------------------------------------
(* Properties.                                                             *)

\* The variables stay in their types.
WriteTypeOK ==
  /\ wpc \in Writing \cup {"returned", "failed", "cut"}
  /\ i \in Nat /\ Len(buffer) <= Room
  /\ totalRead \in 0 .. dataSize + ShaSize
  /\ attempts \in 0..MaxAttempts /\ tries \in 1..MaxTries /\ holes \in 0..MaxHoles
  /\ ended \in BOOLEAN

\* write_data that returns leaves the block that Kboot checks: header, file,
\* hash, each byte in its place, however the reads were cut up; unless a read
\* came back empty inside a chunk.
ReturnedIsWhole ==
  wpc = "returned" /\ holes = 0 => Holds("new", dataSize)

\* However often the write is cut off and begun again, nothing in the slot passes
\* for the new firmware before a call has written its last chunk, the one that
\* brings its count to the end of the hash (firmware.py:109, 156).
TornUntilWritten == Holds("new", dataSize) => ended

\* Without such an empty read no chunk behind the slot is erased: the largest
\* file ends in the last chunk of the slot.
StaysInSlot ==
  wpc = "erase" /\ holes = 0 => (i + 1) * ChunkSize <= SlotSize
=============================================================================
