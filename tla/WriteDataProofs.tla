-------------------------- MODULE WriteDataProofs --------------------------
(***************************************************************************)
(* What holds of write_data for every chunk, header, hash, slot and file   *)
(* size, however the reads are cut up and however often the write is cut   *)
(* off and begun again.  The lemmas are about WriteNext, which             *)
(* UpgradeBoot takes as its WriteStep.                                     *)
(***************************************************************************)
EXTENDS WriteData, SequenceTheorems, TLAPS

SlotLength == SlotSize + 2 * ChunkSize
BlockSize == HeaderSize + dataSize + ShaSize

Kinds == {"header", "data", "sha", "erased", "zero", "beyond"}
Images == ({"old", "new"} \X Nat) \cup {0}
Cells == {Byte(kind, image, p) : kind \in Kinds, image \in Images, p \in Int}

\* Byte q of the file and its hash; byte p of the block; the block's last byte.
StreamByte(q) ==
  IF q <= dataSize THEN Byte("data", New, q) ELSE Byte("sha", New, q - dataSize)
BlockByte(p) ==
  IF p <= HeaderSize THEN Byte("header", New, p) ELSE StreamByte(p - HeaderSize)
LastByte == Byte("sha", New, ShaSize)

----------------------------------------------------------------------------
(* The inductive invariant.                                                *)

WriteTypes ==
  /\ dataSize \in FileSizes /\ slot \in [1..SlotLength -> Cells] /\ buffer \in Seq(Cells)
  /\ WriteTypeOK

\* Where the chunk begins, the position in the slot behind the buffer, and how
\* far it is from where the bytes read so far belong: the chunks that an empty
\* read ended too early.
Base == i * ChunkSize
Held == Len(buffer)
Behind == Base + Offset + Held
Lost == Behind - (HeaderSize + totalRead)

\* A chunk goes to the flash full, or with the end of the hash, or after an
\* empty read.
ChunkReady ==
  /\ Held > 0
  /\ \/ Held = Room
     \/ totalRead = dataSize + ShaSize
     \/ holes > 0 /\ totalRead < dataSize

\* Where the loop goes on: the test at its head changes nothing else.
LoopAt ==
  IF wpc # "head" THEN wpc
  ELSE IF totalRead = dataSize + ShaSize THEN "returned" ELSE "read"

Rounds == {"read", "erase", "header", "write"}

Position ==
  LoopAt \in Rounds =>
    /\ Lost >= 0
    /\ holes = 0 => Lost = 0
    /\ holes > 0 =>
         \/ Lost > 0
         \/ LoopAt # "read" /\ Held < Room /\ totalRead < dataSize
    /\ LoopAt = "read" =>
         /\ totalRead < dataSize => Held < Room
         /\ totalRead >= dataSize => buffer = << >> /\ totalRead < dataSize + ShaSize
    /\ LoopAt # "read" => ChunkReady

\* The buffer is the end of what was read so far.
BufferIs ==
  \A k \in 1..Len(buffer) : buffer[k] = StreamByte(totalRead - Len(buffer) + k)

\* What the chunks before this one hold when nothing is lost.
Filled == \A p \in 1..SlotLength : p <= Base /\ p <= BlockSize => slot[p] = BlockByte(p)

HeaderIs == \A p \in 1..HeaderSize : slot[p] = BlockByte(p)

\* The chunks before this one do not hold the end of the hash.
NoEnd == \A p \in 1..SlotLength : p <= Base => slot[p] # LastByte

Written ==
  LoopAt \in Rounds =>
    /\ BufferIs
    /\ LoopAt = "header" => i = 0
    /\ i > 0 \/ LoopAt = "write" => HeaderIs
    /\ holes = 0 => Filled
    /\ NoEnd

\* The end of the hash is nowhere before a call wrote its last chunk ...
NotYet == ~ended => \A p \in 1..SlotLength : slot[p] # LastByte

\* ... and after it in its place, unless something was lost.
Done ==
  LoopAt = "returned" =>
    /\ HeaderIs
    /\ IF holes = 0 THEN \A p \in 1..BlockSize : slot[p] = BlockByte(p)
       ELSE slot[BlockSize] # LastByte

WriteInv == WriteTypes /\ Position /\ Written /\ NotYet /\ Done

----------------------------------------------------------------------------
(* The operators of the model.                                             *)

LEMMA Sizes ==
  /\ ChunkSize \in Nat \ {0} /\ HeaderSize \in Nat \ {0} /\ ShaSize \in Nat \ {0}
  /\ HeaderSize < ChunkSize /\ SlotSize \in Nat /\ SlotLength \in Nat
  /\ \A n \in FileSizes : n \in Nat \ {0} /\ HeaderSize + n + ShaSize <= SlotLength
  /\ \A n \in FileSizes : HeaderSize + n + ShaSize <= SlotSize
  BY WriteDataAssumption DEF SlotLength

LEMMA CellFacts ==
  /\ 0 \in Images /\ \A age \in {"old", "new"}, n \in Nat : <<age, n>> \in Images
  /\ \A kind \in Kinds, image \in Images, p \in Int : Byte(kind, image, p) \in Cells
  /\ Erased \in Cells /\ Zero \in Cells
<1>1. /\ 0 \in Images
      /\ \A age \in {"old", "new"}, n \in Nat : <<age, n>> \in Images
  <2>1. \A age \in {"old", "new"}, n \in Nat : <<age, n>> \in {"old", "new"} \X Nat
    OBVIOUS
  <2>2. QED
    BY <2>1, Zenon DEF Images
<1>2. \A kind \in Kinds, image \in Images, p \in Int : Byte(kind, image, p) \in Cells
  BY DEF Cells
<1>3. QED
  BY <1>1, <1>2 DEF Erased, Zero, Kinds

\* A byte is of one kind, one image and one position.
LEMMA ByteEqual ==
  ASSUME NEW k, NEW k2, NEW im, NEW im2, NEW p, NEW p2, Byte(k, im, p) = Byte(k2, im2, p2)
  PROVE  k = k2 /\ im = im2 /\ p = p2
  BY DEF Byte

LEMMA BytesAre ==
  ASSUME NEW kind \in Kinds, NEW image \in Images, NEW from \in Int, NEW n \in Nat
  PROVE  /\ Bytes(kind, image, from, n) \in Seq(Cells)
         /\ Len(Bytes(kind, image, from, n)) = n
         /\ \A k \in 1..n : Bytes(kind, image, from, n)[k] = Byte(kind, image, from + k)
<1>1. \A k \in 1..n : Byte(kind, image, from + k) \in Cells
  BY CellFacts
<1>2. QED
  BY <1>1 DEF Bytes

LEMMA BlockIs ==
  ASSUME NEW age \in {"old", "new"}, NEW n \in Nat
  PROVE  /\ Block(age, n) \in Seq(Cells) /\ Len(Block(age, n)) = HeaderSize + n + ShaSize
         /\ \A p \in 1 .. HeaderSize + n + ShaSize :
              Block(age, n)[p] =
                IF p <= HeaderSize THEN Byte("header", <<age, n>>, p)
                ELSE IF p <= HeaderSize + n THEN Byte("data", <<age, n>>, p - HeaderSize)
                ELSE Byte("sha", <<age, n>>, p - HeaderSize - n)
<1> DEFINE h == Bytes("header", <<age, n>>, 0, HeaderSize)
           d == Bytes("data", <<age, n>>, 0, n)
           s == Bytes("sha", <<age, n>>, 0, ShaSize)
           hd == h \o d
<1>1. <<age, n>> \in Images
  BY CellFacts
<1>2. /\ h \in Seq(Cells) /\ Len(h) = HeaderSize
      /\ \A k \in 1..HeaderSize : h[k] = Byte("header", <<age, n>>, 0 + k)
  BY <1>1, BytesAre, Sizes DEF Kinds
<1>3. /\ d \in Seq(Cells) /\ Len(d) = n
      /\ \A k \in 1..n : d[k] = Byte("data", <<age, n>>, 0 + k)
  BY <1>1, BytesAre DEF Kinds
<1>4. /\ s \in Seq(Cells) /\ Len(s) = ShaSize
      /\ \A k \in 1..ShaSize : s[k] = Byte("sha", <<age, n>>, 0 + k)
  BY <1>1, BytesAre, Sizes DEF Kinds
<1> HIDE DEF h, d, s
<1>5. /\ hd \in Seq(Cells) /\ Len(hd) = HeaderSize + n
      /\ \A p \in 1 .. HeaderSize + n :
           hd[p] = IF p <= HeaderSize THEN h[p] ELSE d[p - HeaderSize]
  BY <1>2, <1>3, ConcatProperties
<1> HIDE DEF hd
<1>6. /\ hd \o s \in Seq(Cells) /\ Len(hd \o s) = HeaderSize + n + ShaSize
      /\ \A p \in 1 .. HeaderSize + n + ShaSize :
           (hd \o s)[p] = IF p <= HeaderSize + n THEN hd[p] ELSE s[p - (HeaderSize + n)]
  <2>1. /\ hd \o s \in Seq(Cells) /\ Len(hd \o s) = Len(hd) + Len(s)
        /\ \A p \in 1 .. Len(hd) + Len(s) :
             (hd \o s)[p] = IF p <= Len(hd) THEN hd[p] ELSE s[p - Len(hd)]
    BY <1>4, <1>5, ConcatProperties, Zenon
  <2>2. Len(hd) + Len(s) = HeaderSize + n + ShaSize
    BY <1>4, <1>5
  <2>3. QED
    BY <1>5, <2>1, <2>2, Zenon
<1>7. Block(age, n) = hd \o s
  BY DEF Block, hd, h, d, s
<1>8. ASSUME NEW p \in 1 .. HeaderSize + n + ShaSize
      PROVE  Block(age, n)[p] =
               IF p <= HeaderSize THEN Byte("header", <<age, n>>, p)
               ELSE IF p <= HeaderSize + n THEN Byte("data", <<age, n>>, p - HeaderSize)
               ELSE Byte("sha", <<age, n>>, p - HeaderSize - n)
  <2>1. CASE p <= HeaderSize
    <3>1. Block(age, n)[p] = h[p] /\ p \in 1..HeaderSize
      BY <1>5, <1>6, <1>7, <2>1, Sizes
    <3>2. QED
      BY <1>2, <2>1, <3>1
  <2>2. CASE ~(p <= HeaderSize) /\ p <= HeaderSize + n
    <3>1. Block(age, n)[p] = d[p - HeaderSize] /\ p - HeaderSize \in 1..n
      BY <1>5, <1>6, <1>7, <2>2, Sizes
    <3>2. QED
      BY <1>3, <2>2, <3>1, Sizes
  <2>3. CASE ~(p <= HeaderSize + n)
    <3>1. /\ Block(age, n)[p] = s[p - (HeaderSize + n)]
          /\ p - (HeaderSize + n) \in 1..ShaSize /\ ~(p <= HeaderSize)
      <4>1. p - (HeaderSize + n) \in 1..ShaSize /\ ~(p <= HeaderSize)
        BY <2>3, Sizes
      <4>2. QED
        BY <1>6, <1>7, <2>3, <4>1
    <3>2. p - (HeaderSize + n) = p - HeaderSize - n
      BY Sizes
    <3>3. QED
      <4>1. s[p - (HeaderSize + n)] = Byte("sha", <<age, n>>, p - HeaderSize - n)
        BY <1>4, <3>1, <3>2
      <4>2. QED
        BY <2>3, <3>1, <4>1, Zenon
  <2>4. QED
    BY <2>1, <2>2, <2>3, Sizes
<1>9. QED
  BY <1>6, <1>7, <1>8

\* Program writes the bytes and nothing else.
LEMMA ProgramIs ==
  ASSUME WriteTypes, NEW from \in Nat, NEW n \in Nat, NEW bytes \in [1..n -> Cells],
         Program(from, bytes)
  PROVE  /\ slot' \in [1..SlotLength -> Cells]
         /\ \A p \in 1..SlotLength :
              slot'[p] = IF from < p /\ p <= from + n THEN bytes[p - from] ELSE slot[p]
<1>1. bytes \in Seq(Cells) /\ Len(bytes) = n
  OBVIOUS
<1>2. DOMAIN slot = 1..SlotLength /\ slot \in [1..SlotLength -> Cells]
  BY DEF WriteTypes
<1>3. \A p \in 1..SlotLength : p \in from + 1 .. from + n <=> from < p /\ p <= from + n
  BY Sizes
<1>4. \A p \in 1..SlotLength : from < p /\ p <= from + n => p - from \in 1..n
  BY Sizes
<1>5. \A p \in 1..SlotLength :
        slot'[p] = IF from < p /\ p <= from + n THEN bytes[p - from] ELSE slot[p]
  BY <1>1, <1>2, <1>3 DEF Program
<1>6. slot' = [p \in 1..SlotLength |-> slot'[p]]
  BY <1>2 DEF Program
<1>7. \A p \in 1..SlotLength : slot'[p] \in Cells
  BY <1>2, <1>4, <1>5
<1>8. QED
  BY <1>5, <1>6, <1>7

----------------------------------------------------------------------------
(* Arithmetic of the chunks.                                               *)

LEMMA Products ==
  ASSUME NEW j \in Nat
  PROVE  /\ j * ChunkSize \in Nat /\ (j + 1) * ChunkSize = j * ChunkSize + ChunkSize
         /\ j > 0 => j * ChunkSize >= ChunkSize
<1>1. ChunkSize \in Nat
  BY Sizes
<1>2. /\ j * ChunkSize \in Nat /\ (j + 1) * ChunkSize = j * ChunkSize + ChunkSize
  BY <1>1
<1>3. ASSUME j > 0 PROVE j * ChunkSize >= ChunkSize
  <2>1. PICK m \in Nat : j = m + 1
    <3>1. j - 1 \in Nat /\ j = (j - 1) + 1
      BY <1>3
    <3>2. QED
      BY <3>1
  <2>2. (m + 1) * ChunkSize = m * ChunkSize + ChunkSize /\ m * ChunkSize \in Nat
    BY <1>1
  <2>3. QED
    BY <1>1, <2>1, <2>2
<1>4. QED
  BY <1>2, <1>3

\* The slot is whole chunks: a chunk that begins in it ends in it.
LEMMA WholeChunks ==
  ASSUME NEW j \in Nat, j * ChunkSize < SlotSize
  PROVE  (j + 1) * ChunkSize <= SlotSize
<1> DEFINE m == SlotSize \div ChunkSize
<1>1. ChunkSize \in Nat \ {0} /\ SlotSize \in Nat /\ SlotSize % ChunkSize = 0
  BY Sizes, WriteDataAssumption
<1>2. m \in Nat /\ SlotSize = ChunkSize * m
  BY <1>1
<1> HIDE DEF m
<1>3. j < m
  <2>1. SUFFICES ASSUME m <= j PROVE FALSE
    BY <1>2
  <2>2. PICK d \in Nat : j = m + d
    <3>1. j - m \in Nat /\ j = m + (j - m)
      BY <1>2, <2>1
    <3>2. QED
      BY <3>1
  <2>3. j * ChunkSize = ChunkSize * m + d * ChunkSize /\ d * ChunkSize \in Nat
    BY <1>1, <1>2, <2>2
  <2>4. QED
    BY <1>1, <1>2, <2>3
<1>4. PICK d \in Nat : m = (j + 1) + d
  <2>1. m - (j + 1) \in Nat /\ m = (j + 1) + (m - (j + 1))
    BY <1>2, <1>3
  <2>2. QED
    BY <2>1
<1>5. ChunkSize * m = (j + 1) * ChunkSize + d * ChunkSize /\ d * ChunkSize \in Nat
  BY <1>1, <1>4
<1>6. (j + 1) * ChunkSize \in Nat
  BY <1>1
<1>7. QED
  BY <1>2, <1>5, <1>6

\* The numbers of a state in their types.
LEMMA Numbers ==
  ASSUME WriteTypes
  PROVE  /\ dataSize \in Nat \ {0} /\ totalRead \in Nat /\ totalRead <= dataSize + ShaSize
         /\ i \in Nat /\ Held \in Nat /\ Held = Len(buffer) /\ Held <= Room
         /\ Base \in Nat /\ Offset \in Nat /\ Room \in Nat \ {0}
         /\ Base + Offset + Room = Base + ChunkSize
         /\ i = 0 => Base = 0 /\ Offset = HeaderSize
         /\ i > 0 => Base >= ChunkSize /\ Offset = 0
         /\ HeaderSize <= Base + Offset
         /\ Behind \in Nat /\ Lost \in Int /\ BlockSize \in Nat
         /\ BlockSize <= SlotSize /\ BlockSize <= SlotLength
         /\ holes \in Nat /\ New \in Images
<1>1. /\ dataSize \in FileSizes /\ i \in Nat /\ Len(buffer) <= Room
      /\ totalRead \in 0 .. dataSize + ShaSize /\ holes \in 0..MaxHoles
      /\ buffer \in Seq(Cells)
  BY DEF WriteTypes, WriteTypeOK
<1>2. /\ dataSize \in Nat \ {0} /\ totalRead \in Nat /\ totalRead <= dataSize + ShaSize
      /\ Held \in Nat /\ Held = Len(buffer) /\ Held <= Room /\ holes \in Nat
  BY <1>1, Sizes DEF Held
<1>3. Base \in Nat /\ (i = 0 => Base = 0) /\ (i > 0 => Base >= ChunkSize)
  BY <1>1, Products, Sizes DEF Base
<1>4. /\ Offset \in Nat /\ Room \in Nat \ {0} /\ Offset + Room = ChunkSize
      /\ i = 0 => Offset = HeaderSize
      /\ i > 0 => Offset = 0
  BY <1>1, Sizes DEF Offset, Room
<1>5. HeaderSize <= Base + Offset
  BY <1>1, <1>3, <1>4, Sizes
<1>6. New \in Images
  BY <1>2, CellFacts DEF New
<1>7. /\ Behind \in Nat /\ Lost \in Int /\ BlockSize \in Nat
      /\ BlockSize <= SlotSize /\ BlockSize <= SlotLength
  BY <1>1, <1>2, <1>3, <1>4, Sizes DEF Behind, Lost, BlockSize
<1>8. Base + Offset + Room = Base + ChunkSize
  BY <1>3, <1>4, Sizes
<1>9. QED
  BY <1>1, <1>2, <1>3, <1>4, <1>5, <1>6, <1>7, <1>8

\* The end of the hash is none of the other bytes.
LEMMA LastByteIs ==
  ASSUME WriteTypes
  PROVE  /\ Erased # LastByte /\ Zero # LastByte
         /\ \A p : Byte("header", New, p) # LastByte
         /\ \A q \in Int : q < dataSize + ShaSize => StreamByte(q) # LastByte
         /\ StreamByte(dataSize + ShaSize) = LastByte
         /\ BlockByte(BlockSize) = LastByte
<1>1. dataSize \in Nat /\ ShaSize \in Nat \ {0} /\ HeaderSize \in Nat
  BY Numbers, Sizes
<1>2. Erased # LastByte /\ Zero # LastByte /\ \A p : Byte("header", New, p) # LastByte
  BY ByteEqual DEF Erased, Zero, LastByte
<1>3. ASSUME NEW q \in Int, q < dataSize + ShaSize PROVE StreamByte(q) # LastByte
  <2>1. CASE q <= dataSize
    <3>1. StreamByte(q) = Byte("data", New, q)
      BY <2>1 DEF StreamByte
    <3>2. QED
      BY <3>1, ByteEqual DEF LastByte
  <2>2. CASE ~(q <= dataSize)
    <3>1. StreamByte(q) = Byte("sha", New, q - dataSize) /\ q - dataSize # ShaSize
      BY <1>1, <1>3, <2>2 DEF StreamByte
    <3>2. QED
      BY <3>1, ByteEqual DEF LastByte
  <2>3. QED
    BY <2>1, <2>2
<1>4. StreamByte(dataSize + ShaSize) = LastByte
  <2>1. ~(dataSize + ShaSize <= dataSize) /\ (dataSize + ShaSize) - dataSize = ShaSize
    BY <1>1
  <2>2. QED
    BY <2>1 DEF StreamByte, LastByte
<1>5. BlockByte(BlockSize) = LastByte
  <2>1. ~(BlockSize <= HeaderSize) /\ BlockSize - HeaderSize = dataSize + ShaSize
    BY <1>1 DEF BlockSize
  <2>2. QED
    BY <1>4, <2>1 DEF BlockByte
<1>6. QED
  BY <1>2, <1>3, <1>4, <1>5

----------------------------------------------------------------------------
(* Steps.                                                                  *)

\* The file stays the same: so does what its bytes are.
LEMMA SameFile ==
  ASSUME dataSize' = dataSize
  PROVE  /\ New' = New /\ BlockSize' = BlockSize /\ LastByte' = LastByte
         /\ HeaderIs' <=> \A p \in 1..HeaderSize : slot'[p] = BlockByte(p)
         /\ NoEnd' <=> \A p \in 1..SlotLength : p <= Base' => slot'[p] # LastByte
         /\ Filled' <=> \A p \in 1..SlotLength :
              p <= Base' /\ p <= BlockSize => slot'[p] = BlockByte(p)
         /\ BufferIs' <=> \A k \in 1..Len(buffer') :
              buffer'[k] = StreamByte(totalRead' - Len(buffer') + k)
         /\ (\A p \in 1..BlockSize : slot[p] = BlockByte(p))' <=>
              \A p \in 1..BlockSize : slot'[p] = BlockByte(p)
  BY DEF New, BlockSize, LastByte, HeaderIs, Filled, BufferIs, BlockByte, StreamByte, NoEnd

LEMMA SameChunk ==
  ASSUME i' = i
  PROVE  Base' = Base /\ Offset' = Offset /\ Room' = Room
  BY DEF Base, Offset, Room

\* Bytes behind bytes.
LEMMA Joined ==
  ASSUME NEW s1 \in Seq(Cells), NEW s2 \in Seq(Cells), NEW m \in Nat, NEW n \in Nat,
         Len(s1) = m, Len(s2) = n
  PROVE  /\ s1 \o s2 \in Seq(Cells) /\ Len(s1 \o s2) = m + n
         /\ \A k \in 1 .. m + n : k <= m => (s1 \o s2)[k] = s1[k]
         /\ \A k \in 1 .. m + n : ~(k <= m) => (s1 \o s2)[k] = s2[k - m]
<1>1. /\ s1 \o s2 \in Seq(Cells) /\ Len(s1 \o s2) = Len(s1) + Len(s2)
      /\ \A k \in 1 .. Len(s1) + Len(s2) :
           (s1 \o s2)[k] = IF k <= Len(s1) THEN s1[k] ELSE s2[k - Len(s1)]
  BY ConcatProperties, Zenon
<1>2. /\ s1 \o s2 \in Seq(Cells) /\ Len(s1 \o s2) = m + n
      /\ \A k \in 1 .. m + n :
           (s1 \o s2)[k] = IF k <= m THEN s1[k] ELSE s2[k - m]
  BY <1>1, Zenon
<1>3. QED
  BY <1>2, Zenon

\* More of the file behind what is in the buffer.
LEMMA MoreData ==
  ASSUME WriteTypes, BufferIs, NEW n \in Nat, totalRead + n <= dataSize,
         NEW b, b = buffer \o Bytes("data", New, totalRead, n)
  PROVE  /\ b \in Seq(Cells) /\ Len(b) = Len(buffer) + n
         /\ \A k \in 1 .. Len(buffer) + n : b[k] = StreamByte(totalRead - Len(buffer) + k)
<1> DEFINE d == Bytes("data", New, totalRead, n)
           m == Len(buffer)
<1>1. /\ dataSize \in Nat /\ totalRead \in Nat /\ buffer \in Seq(Cells)
      /\ m \in Nat /\ New \in Images
  BY Numbers DEF WriteTypes
<1>2. /\ d \in Seq(Cells) /\ Len(d) = n
      /\ \A k \in 1..n : d[k] = Byte("data", New, totalRead + k)
  BY <1>1, BytesAre DEF Kinds
<1>3. b = buffer \o d /\ \A k \in 1..m : buffer[k] = StreamByte(totalRead - m + k)
  BY DEF d, BufferIs
<1> HIDE DEF d
<1>4. /\ b \in Seq(Cells) /\ Len(b) = m + n
      /\ \A k \in 1 .. m + n : k <= m => b[k] = buffer[k]
      /\ \A k \in 1 .. m + n : ~(k <= m) => b[k] = d[k - m]
  <2>1. /\ buffer \o d \in Seq(Cells) /\ Len(buffer \o d) = m + n
        /\ \A k \in 1 .. m + n : k <= m => (buffer \o d)[k] = buffer[k]
        /\ \A k \in 1 .. m + n : ~(k <= m) => (buffer \o d)[k] = d[k - m]
    BY <1>1, <1>2, Joined
  <2>2. QED
    BY <1>3, <2>1, Zenon
<1> HIDE DEF m
<1>5. ASSUME NEW k \in 1 .. m + n PROVE b[k] = StreamByte(totalRead - m + k)
  <2>1. CASE k <= m
    <3>1. b[k] = buffer[k] /\ k \in 1..m
      BY <1>1, <1>4, <2>1
    <3>2. QED
      BY <1>3, <3>1
  <2>2. CASE ~(k <= m)
    <3>1. k - m \in 1..n
      BY <1>1, <2>2
    <3>2. /\ totalRead + (k - m) = totalRead - m + k
          /\ totalRead - m + k <= dataSize
      BY <1>1, <3>1
    <3>3. b[k] = Byte("data", New, totalRead + (k - m))
      BY <1>2, <1>4, <2>2, <3>1
    <3>4. QED
      BY <3>2, <3>3 DEF StreamByte
  <2>3. QED
    BY <2>1, <2>2
<1>6. QED
  BY <1>4, <1>5 DEF m

\* More of the hash behind the end of the file.
LEMMA MoreHash ==
  ASSUME WriteTypes, NEW b \in Seq(Cells), NEW t \in Nat, t >= dataSize,
         \A k \in 1..Len(b) : b[k] = StreamByte(t - Len(b) + k), NEW n \in Nat
  PROVE  /\ b \o Bytes("sha", New, t - dataSize, n) \in Seq(Cells)
         /\ Len(b \o Bytes("sha", New, t - dataSize, n)) = Len(b) + n
         /\ \A k \in 1 .. Len(b) + n :
              (b \o Bytes("sha", New, t - dataSize, n))[k] = StreamByte(t - Len(b) + k)
<1> DEFINE d == Bytes("sha", New, t - dataSize, n)
           m == Len(b)
           c == b \o Bytes("sha", New, t - dataSize, n)
<1>1. dataSize \in Nat /\ New \in Images /\ m \in Nat
  BY Numbers
<1>2. /\ d \in Seq(Cells) /\ Len(d) = n
      /\ \A k \in 1..n : d[k] = Byte("sha", New, t - dataSize + k)
  BY <1>1, BytesAre DEF Kinds
<1> HIDE DEF c
<1>3. c = b \o d
  BY DEF c
<1> HIDE DEF d
<1>4. /\ c \in Seq(Cells) /\ Len(c) = m + n
      /\ \A k \in 1 .. m + n : k <= m => c[k] = b[k]
      /\ \A k \in 1 .. m + n : ~(k <= m) => c[k] = d[k - m]
  <2>1. /\ b \o d \in Seq(Cells) /\ Len(b \o d) = m + n
        /\ \A k \in 1 .. m + n : k <= m => (b \o d)[k] = b[k]
        /\ \A k \in 1 .. m + n : ~(k <= m) => (b \o d)[k] = d[k - m]
    <3>1. d \in Seq(Cells) /\ Len(d) = n
      BY <1>2, Zenon
    <3>2. QED
      BY <3>1, Joined
  <2>2. QED
    BY <1>3, <2>1, Zenon
<1>5. \A k \in 1..m : b[k] = StreamByte(t - m + k)
  OBVIOUS
<1> HIDE DEF m
<1>6. ASSUME NEW k \in 1 .. m + n PROVE c[k] = StreamByte(t - m + k)
  <2>1. CASE k <= m
    <3>1. c[k] = b[k] /\ k \in 1..m
      BY <1>1, <1>4, <2>1
    <3>2. QED
      BY <1>5, <3>1
  <2>2. CASE ~(k <= m)
    <3>1. k - m \in 1..n
      BY <1>1, <2>2
    <3>2. /\ t - dataSize + (k - m) = (t - m + k) - dataSize
          /\ ~(t - m + k <= dataSize)
      BY <1>1, <3>1
    <3>3. c[k] = Byte("sha", New, t - dataSize + (k - m))
      BY <1>2, <1>4, <2>2, <3>1
    <3>4. QED
      BY <3>2, <3>3 DEF StreamByte
  <2>3. QED
    BY <2>1, <2>2
<1>7. QED
  BY <1>4, <1>6, Zenon DEF c, m

\* Fill adds what there is room for and there is.
LEMMA FillIs ==
  ASSUME WriteTypes, dataSize' = dataSize,
         NEW b \in Seq(Cells), NEW t \in Nat, t <= dataSize + ShaSize,
         Len(b) <= Room, \A k \in 1..Len(b) : b[k] = StreamByte(t - Len(b) + k),
         Fill(b, t)
  PROVE  /\ buffer' \in Seq(Cells) /\ totalRead' \in t .. dataSize + ShaSize
         /\ Len(buffer') = Len(b) + (totalRead' - t) /\ Len(buffer') <= Room
         /\ BufferIs'
         /\ t < dataSize => totalRead' = t
         /\ t >= dataSize => Len(buffer') = Room \/ totalRead' = dataSize + ShaSize
<1> DEFINE m == Len(b)
<1>1. dataSize \in Nat /\ ShaSize \in Nat /\ Room \in Nat /\ m \in Nat
  BY Numbers, Sizes
<1>2. CASE t >= dataSize
  <2> DEFINE left == dataSize + ShaSize - t
             n == IF Room - m < left THEN Room - m ELSE left
             c == b \o Bytes("sha", New, t - dataSize, n)
  <2>1. n \in Nat /\ n <= Room - m /\ n <= left /\ (n = Room - m \/ n = left)
    BY <1>1, <1>2
  <2>2. buffer' = c /\ totalRead' = t + n
    BY <1>2 DEF Fill
  <2> HIDE DEF n
  <2>3. /\ c \in Seq(Cells) /\ Len(c) = m + n
        /\ \A k \in 1 .. m + n : c[k] = StreamByte(t - m + k)
    BY <1>2, <2>1, MoreHash
  <2> HIDE DEF c, m
  <2>4. totalRead' - Len(buffer') = t - m
    BY <1>1, <2>1, <2>2, <2>3
  <2>5. BufferIs'
    BY <2>2, <2>3, <2>4, SameFile
  <2>6. m <= Room /\ m = Len(b)
    BY DEF m
  <2>7. QED
    BY <1>1, <1>2, <2>1, <2>2, <2>3, <2>5, <2>6
<1>3. CASE ~(t >= dataSize)
  <2>1. buffer' = b /\ totalRead' = t
    BY <1>3 DEF Fill
  <2>2. BufferIs'
    BY <2>1, SameFile
  <2>3. QED
    BY <1>1, <1>3, <2>1, <2>2
<1>4. QED
  BY <1>2, <1>3

LEMMA LostIs ==
  ASSUME NEW b, NEW o, NEW h, NEW t, Base' = b, Offset' = o, Held' = h, totalRead' = t
  PROVE  Lost' = (b + o + h) - (HeaderSize + t)
  BY Zenon DEF Lost, Behind

\* A read leaves the slot alone.
LEMMA ReadFrame ==
  ASSUME WriteInv, wpc = "read", UNCHANGED <<slot, dataSize, i, ended>>,
         wpc' \in {"read", "erase"}, buffer' \in Seq(Cells), BufferIs',
         WriteTypeOK', Position', holes' = 0 => holes = 0
  PROVE  WriteInv'
<1>1. WriteTypes'
  BY DEF WriteInv, WriteTypes
<1>2. Written'
  <2>1. Filled' <=> Filled
    BY SameFile, SameChunk DEF Filled
  <2>2. HeaderIs' <=> HeaderIs
    BY SameFile DEF HeaderIs
  <2>3. Written /\ (NoEnd' <=> NoEnd)
    BY SameFile, SameChunk DEF WriteInv, NoEnd
  <2>4. QED
    BY <2>1, <2>2, <2>3 DEF Written, Rounds, LoopAt
<1>3. NotYet'
  BY SameFile DEF WriteInv, NotYet
<1>4. Done'
  BY DEF Done, LoopAt
<1>5. QED
  BY <1>1, <1>2, <1>3, <1>4 DEF WriteInv

LEMMA ReadSomeInv ==
  ASSUME WriteInv, NEW n \in 1..ChunkSize, ReadSome(n)
  PROVE  WriteInv'
<1> DEFINE b == buffer \o Bytes("data", New, totalRead, n)
           t == totalRead + n
<1>0. WriteTypes /\ Position /\ Written
  BY DEF WriteInv
<1>1. /\ wpc = "read" /\ totalRead < dataSize
      /\ n <= Room - Len(buffer) /\ n <= dataSize - totalRead
      /\ UNCHANGED <<slot, dataSize, i, attempts, tries, holes, ended>>
  BY DEF ReadSome, past
<1>2. BufferIs
  BY <1>0, <1>1 DEF Written, Rounds, LoopAt
<1> DEFINE m == Len(buffer)
<1>3. /\ n \in Nat /\ m \in Nat /\ totalRead \in Nat /\ dataSize \in Nat /\ Room \in Nat
      /\ ShaSize \in Nat /\ t \in Nat /\ t <= dataSize
  <2>1. /\ m \in Nat /\ totalRead \in Nat /\ dataSize \in Nat /\ Room \in Nat
        /\ ShaSize \in Nat /\ ChunkSize \in Nat
    BY <1>0, Numbers, Sizes
  <2>2. QED
    BY <1>1, <2>1
<1>4. /\ b \in Seq(Cells) /\ Len(b) = m + n
      /\ \A k \in 1 .. m + n : b[k] = StreamByte(totalRead - m + k)
  BY <1>0, <1>2, <1>3, MoreData
<1>5. /\ ~(Len(b) < Room /\ t < dataSize) => wpc' = "erase" /\ Fill(b, t)
      /\ Len(b) < Room /\ t < dataSize => wpc' = "read" /\ buffer' = b /\ totalRead' = t
  BY DEF ReadSome
<1>6. m + n <= Room /\ totalRead - m = t - (m + n)
  BY <1>1, <1>3
<1> HIDE DEF b, t
<1>7. /\ buffer' \in Seq(Cells) /\ totalRead' \in t .. dataSize + ShaSize /\ BufferIs'
      /\ Len(buffer') = m + n + (totalRead' - t) /\ Len(buffer') <= Room
      /\ \/ wpc' = "read" /\ Len(buffer') < Room /\ totalRead' < dataSize
         \/ /\ wpc' = "erase"
            /\ Len(buffer') = Room \/ totalRead' = dataSize + ShaSize
  <2>1. CASE Len(b) < Room /\ t < dataSize
    <3>1. BufferIs'
      BY <1>1, <1>4, <1>5, <1>6, <2>1, SameFile
    <3>2. QED
      BY <1>3, <1>4, <1>5, <2>1, <3>1
  <2>2. CASE ~(Len(b) < Room /\ t < dataSize)
    <3>1. \A k \in 1 .. m + n : b[k] = StreamByte(t - (m + n) + k)
      BY <1>4, <1>6
    <3>2. /\ buffer' \in Seq(Cells) /\ totalRead' \in t .. dataSize + ShaSize
          /\ Len(buffer') = m + n + (totalRead' - t) /\ Len(buffer') <= Room
          /\ BufferIs'
          /\ t < dataSize => totalRead' = t
          /\ t >= dataSize => Len(buffer') = Room \/ totalRead' = dataSize + ShaSize
      <4>1. m + n \in Nat /\ t <= dataSize + ShaSize /\ dataSize' = dataSize
        BY <1>1, <1>3
      <4>2. QED
        BY <1>0, <1>3, <1>4, <1>5, <1>6, <2>2, <3>1, <4>1, FillIs
    <3>3. QED
      BY <1>3, <1>4, <1>5, <1>6, <2>2, <3>2
  <2>3. QED
    BY <2>1, <2>2
<1>8. t = totalRead + n /\ m = Held /\ Held' = Len(buffer')
  BY DEF t, Held
<1> HIDE DEF m
<1>9. Base' = Base /\ Offset' = Offset /\ Room' = Room
  BY <1>1, SameChunk
<1>10. WriteTypeOK'
  <2>1. totalRead' \in 0 .. dataSize + ShaSize
    BY <1>3, <1>7
  <2>2. QED
    BY <1>0, <1>1, <1>7, <1>9, <2>1 DEF WriteTypes, WriteTypeOK, Writing
<1>11. Position'
  <2> DEFINE t2 == totalRead'
             h2 == Held'
             lost2 == Lost'
  <2>1. Base \in Nat /\ Offset \in Nat /\ HeaderSize \in Nat /\ Held \in Nat
    BY <1>0, Numbers, Sizes
  <2>2. /\ t2 \in t .. dataSize + ShaSize /\ h2 = m + n + (t2 - t) /\ h2 <= Room
        /\ \/ wpc' = "read" /\ h2 < Room /\ t2 < dataSize
           \/ wpc' = "erase" /\ (h2 = Room \/ t2 = dataSize + ShaSize)
    BY <1>7, <1>8, Zenon
  <2>3. lost2 = (Base + Offset + h2) - (HeaderSize + t2)
    BY <1>9, LostIs
  <2>4. lost2 >= 0 /\ (holes' = 0 => lost2 = 0) /\ (holes' > 0 => lost2 > 0)
    <3>1. Lost >= 0 /\ (holes = 0 => Lost = 0) /\ (holes > 0 => Lost > 0)
      BY <1>0, <1>1 DEF Position, Rounds, LoopAt
    <3> HIDE DEF t2, h2, lost2
    <3>2. lost2 = Lost
      BY <1>3, <1>8, <2>1, <2>2, <2>3 DEF Lost, Behind
    <3>3. QED
      BY <1>1, <3>1, <3>2
  <2>5. /\ wpc' = "read" => h2 < Room /\ t2 < dataSize /\ ~(t2 >= dataSize)
        /\ wpc' # "read" => h2 > 0 /\ (h2 = Room \/ t2 = dataSize + ShaSize)
    <3> HIDE DEF t2, h2
    <3>1. QED
      BY <1>3, <2>2
  <2>6. wpc' # "read" => ChunkReady'
    BY <1>1, <1>9, <2>5, Zenon DEF ChunkReady
  <2>7. wpc' = "read" => Held' < Room' /\ totalRead' < dataSize' /\ ~(totalRead' >= dataSize')
    BY <1>1, <1>9, <2>5, Zenon
  <2>8. LoopAt' = wpc'
    BY <1>7 DEF LoopAt
  <2>9. QED
    BY <2>4, <2>6, <2>7, <2>8, Zenon DEF Position
<1>12. QED
  BY <1>1, <1>7, <1>10, <1>11, ReadFrame

\* A write that stops leaves the slot alone.
LEMMA StopFrame ==
  ASSUME WriteInv, UNCHANGED <<slot, dataSize, i, buffer, ended>>,
         wpc' \in {"failed", "cut"}, WriteTypeOK'
  PROVE  WriteInv'
<1>1. WriteTypes'
  BY DEF WriteInv, WriteTypes
<1>2. NotYet'
  BY SameFile DEF WriteInv, NotYet
<1>3. LoopAt' \notin Rounds /\ LoopAt' # "returned"
  BY DEF Rounds, LoopAt
<1>4. QED
  BY <1>1, <1>2, <1>3 DEF WriteInv, Position, Written, Done

LEMMA ReadNothingInv ==
  ASSUME WriteInv, ReadNothing
  PROVE  WriteInv'
<1>0. WriteTypes /\ Position /\ Written
  BY DEF WriteInv
<1>1. /\ wpc = "read" /\ totalRead < dataSize
      /\ UNCHANGED <<slot, dataSize, i, tries, buffer, totalRead, ended>>
  BY DEF ReadNothing
<1>2. /\ dataSize \in Nat /\ totalRead \in Nat /\ Held \in Nat /\ Held = Len(buffer)
      /\ Room \in Nat /\ Lost \in Int /\ holes \in Nat
  BY <1>0, Numbers
<1>3. Base' = Base /\ Offset' = Offset /\ Room' = Room /\ Held' = Held /\ Lost' = Lost
  <2>1. Base' = Base /\ Offset' = Offset /\ Room' = Room /\ Held' = Held
    BY <1>1, SameChunk DEF Held
  <2>2. QED
    BY <1>1, <2>1, Zenon DEF Lost, Behind
<1>4. BufferIs'
  <2>1. BufferIs
    BY <1>0, <1>1 DEF Written, Rounds, LoopAt
  <2>2. QED
    BY <1>1, <2>1, SameFile DEF BufferIs
<1>5. /\ Lost >= 0 /\ (holes = 0 => Lost = 0) /\ (holes > 0 => Lost > 0)
      /\ Held < Room
  BY <1>0, <1>1 DEF Position, Rounds, LoopAt
<1>6. attempts \in 0..MaxAttempts /\ holes \in 0..MaxHoles
  BY <1>0 DEF WriteTypes, WriteTypeOK
<1>7. MaxAttempts \in Nat /\ MaxHoles \in Nat
  BY WriteDataAssumption
<1>8. CASE buffer = << >>
  <2>1. /\ wpc' = IF attempts < MaxAttempts THEN "read" ELSE "failed"
        /\ attempts' = IF attempts < MaxAttempts THEN attempts + 1 ELSE attempts
        /\ holes' = holes
    BY <1>8 DEF ReadNothing
  <2>2. attempts' \in 0..MaxAttempts
    BY <1>6, <1>7, <2>1
  <2>3. WriteTypeOK'
    BY <1>0, <1>1, <1>3, <2>1, <2>2 DEF WriteTypes, WriteTypeOK, Writing
  <2>4. CASE wpc' = "read"
    <3>1. ~(totalRead >= dataSize)
      BY <1>1, <1>2
    <3>2. Position'
      BY <1>1, <1>3, <1>5, <2>1, <2>4, <3>1 DEF Position, LoopAt
    <3>3. QED
      BY <1>0, <1>1, <1>4, <2>1, <2>3, <2>4, <3>2, ReadFrame DEF WriteTypes
  <2>5. CASE wpc' = "failed"
    BY <1>1, <2>3, <2>5, StopFrame
  <2>6. QED
    BY <2>1, <2>4, <2>5
<1>9. CASE buffer # << >>
  <2>1. wpc' = "erase" /\ holes < MaxHoles /\ holes' = holes + 1 /\ attempts' = attempts
    BY <1>9 DEF ReadNothing
  <2>2. holes' \in 0..MaxHoles /\ holes' > 0 /\ holes' # 0
    BY <1>6, <1>7, <2>1
  <2>3. WriteTypeOK'
    BY <1>0, <1>1, <1>3, <2>1, <2>2 DEF WriteTypes, WriteTypeOK, Writing
  <2>4. Held > 0
    BY <1>0, <1>2, <1>9 DEF WriteTypes
  <2>5. ChunkReady'
    BY <1>1, <1>3, <2>2, <2>4 DEF ChunkReady
  <2>6. Position'
    BY <1>1, <1>3, <1>5, <2>1, <2>2, <2>5 DEF Position, LoopAt
  <2>7. QED
    BY <1>0, <1>1, <1>4, <2>1, <2>2, <2>3, <2>6, ReadFrame DEF WriteTypes
<1>10. QED
  BY <1>8, <1>9

LEMMA ReadHashInv ==
  ASSUME WriteInv, ReadHash
  PROVE  WriteInv'
<1>0. WriteTypes /\ Position
  BY DEF WriteInv
<1>1. /\ wpc = "read" /\ totalRead >= dataSize /\ wpc' = "erase"
      /\ Fill(<< >>, totalRead)
      /\ UNCHANGED <<slot, dataSize, i, attempts, tries, holes, ended>>
  BY DEF ReadHash, past
<1>2. /\ dataSize \in Nat /\ totalRead \in Nat /\ ShaSize \in Nat /\ Room \in Nat \ {0}
      /\ Base \in Nat /\ Offset \in Nat /\ HeaderSize \in Nat
  BY <1>0, Numbers, Sizes
<1>3. /\ buffer = << >> /\ totalRead < dataSize + ShaSize
      /\ Lost >= 0 /\ (holes = 0 => Lost = 0) /\ (holes > 0 => Lost > 0)
  BY <1>0, <1>1 DEF Position, Rounds, LoopAt
<1>4. Held = 0
  BY <1>3 DEF Held
<1> DEFINE none == << >>
           t2 == totalRead'
           h2 == Held'
           lost2 == Lost'
<1>5. /\ none \in Seq(Cells) /\ Len(none) = 0 /\ Len(none) <= Room
      /\ \A k \in 1..Len(none) : none[k] = StreamByte(totalRead - Len(none) + k)
  BY <1>2
<1> HIDE DEF none
<1>6. /\ buffer' \in Seq(Cells) /\ totalRead' \in totalRead .. dataSize + ShaSize
      /\ Len(buffer') = Len(none) + (totalRead' - totalRead) /\ Len(buffer') <= Room
      /\ BufferIs'
      /\ Len(buffer') = Room \/ totalRead' = dataSize + ShaSize
  <2>1. Fill(none, totalRead) /\ dataSize' = dataSize
    BY <1>1 DEF none
  <2>2. totalRead \in Nat /\ totalRead <= dataSize + ShaSize
    BY <1>2, <1>3
  <2>3. QED
    BY <1>0, <1>1, <1>5, <2>1, <2>2, FillIs
<1>7. /\ t2 \in totalRead .. dataSize + ShaSize /\ h2 = 0 + (t2 - totalRead) /\ h2 <= Room
      /\ h2 = Room \/ t2 = dataSize + ShaSize
  BY <1>5, <1>6, Zenon DEF Held
<1>8. Base' = Base /\ Offset' = Offset /\ Room' = Room
  BY <1>1, SameChunk
<1>9. WriteTypeOK'
  <2>1. t2 \in 0 .. dataSize + ShaSize
    <3> HIDE DEF t2
    <3>1. QED
      BY <1>2, <1>7
  <2>2. QED
    BY <1>0, <1>1, <1>6, <1>8, <2>1 DEF WriteTypes, WriteTypeOK, Writing
<1>10. Position'
  <2>1. lost2 = (Base + Offset + h2) - (HeaderSize + t2)
    BY <1>8, LostIs
  <2>2. lost2 = Lost /\ h2 > 0
    <3> HIDE DEF t2, h2, lost2
    <3>1. QED
      BY <1>2, <1>3, <1>4, <1>7, <2>1 DEF Lost, Behind
  <2>3. ChunkReady'
    BY <1>1, <1>7, <1>8, <2>2, Zenon DEF ChunkReady
  <2>4. LoopAt' = wpc'
    BY <1>1 DEF LoopAt
  <2>5. QED
    BY <1>1, <1>3, <2>2, <2>3, <2>4, Zenon DEF Position
<1>11. QED
  BY <1>1, <1>6, <1>9, <1>10, ReadFrame

LEMMA StopInv ==
  ASSUME WriteInv, ReadFails \/ PowerCut
  PROVE  WriteInv'
<1>1. /\ wpc' \in {"failed", "cut"}
      /\ UNCHANGED <<slot, dataSize, i, buffer, totalRead, attempts, tries, holes, ended>>
  BY DEF ReadFails, PowerCut, loop, past
<1>2. Room' = Room
  BY <1>1, SameChunk
<1>3. WriteTypeOK'
  BY <1>1, <1>2 DEF WriteInv, WriteTypes, WriteTypeOK
<1>4. QED
  BY <1>1, <1>3, StopFrame

\* A step that changes nothing but the label, and the loop goes on as before.
LEMMA SameState ==
  ASSUME WriteInv, LoopAt' = LoopAt, wpc' \in Writing \cup {"returned", "failed", "cut"},
         UNCHANGED <<slot, dataSize, i, buffer, totalRead, attempts, tries, holes, ended>>
  PROVE  WriteInv'
<1>1. Base' = Base /\ Offset' = Offset /\ Room' = Room /\ Held' = Held
  BY SameChunk DEF Held
<1>2. Lost' = Lost
  BY <1>1, Zenon DEF Lost, Behind
<1>3. WriteTypes'
  BY <1>1 DEF WriteInv, WriteTypes, WriteTypeOK
<1>4. Position'
  BY <1>1, <1>2, Zenon DEF WriteInv, Position, ChunkReady
<1>5. Written'
  <2>1. BufferIs' = BufferIs /\ Filled' = Filled /\ NoEnd' = NoEnd /\ HeaderIs' = HeaderIs
    BY <1>1, SameFile, Zenon DEF BufferIs, Filled, NoEnd, HeaderIs
  <2>2. QED
    BY <2>1, Zenon DEF WriteInv, Written
<1>6. NotYet' /\ Done'
  BY SameFile DEF WriteInv, NotYet, Done, HeaderIs
<1>7. QED
  BY <1>3, <1>4, <1>5, <1>6 DEF WriteInv

\* The test at the head of the loop.
LEMMA LoopHeadInv ==
  ASSUME WriteInv, LoopHead
  PROVE  WriteInv'
  BY SameState DEF LoopHead, loop, past, LoopAt, Writing

\* A write that begins again has written nothing, whatever is in the slot.
LEMMA AgainInv ==
  ASSUME WriteInv, Again
  PROVE  WriteInv'
<1>0. WriteTypes /\ NotYet
  BY DEF WriteInv
<1>1. /\ wpc \in {"cut", "failed"} /\ wpc' = "read" /\ tries < MaxTries
      /\ i' = 0 /\ buffer' = << >> /\ totalRead' = 0 /\ attempts' = 0
      /\ tries' = tries + 1 /\ holes' = 0 /\ slot' = slot /\ dataSize' = dataSize
      /\ ended' = ended
  BY DEF Again
<1>2. /\ dataSize \in Nat \ {0} /\ HeaderSize \in Nat /\ ShaSize \in Nat
      /\ ChunkSize \in Nat /\ HeaderSize < ChunkSize
  BY <1>0, Numbers, Sizes
<1>3. /\ Base' = 0 /\ Offset' = HeaderSize /\ Room' = ChunkSize - HeaderSize
      /\ Held' = 0
  BY <1>1, <1>2 DEF Base, Offset, Room, Held
<1>4. WriteTypeOK'
  <2>1. tries' \in 1..MaxTries /\ attempts' \in 0..MaxAttempts /\ holes' \in 0..MaxHoles
    BY <1>0, <1>1, WriteDataAssumption DEF WriteTypes, WriteTypeOK
  <2>2. Len(buffer') <= Room' /\ totalRead' \in 0 .. dataSize' + ShaSize
    BY <1>1, <1>2, <1>3
  <2>3. QED
    BY <1>0, <1>1, <2>1, <2>2 DEF WriteTypes, WriteTypeOK, Writing
<1>5. WriteTypes'
  BY <1>0, <1>1, <1>4 DEF WriteTypes
<1>6. Position'
  <2>1. Lost' = (0 + HeaderSize + 0) - (HeaderSize + 0)
    BY <1>1, <1>3, LostIs
  <2>2. Lost' = 0
    BY <1>2, <2>1
  <2>3. Held' < Room' /\ ~(totalRead' >= dataSize')
    BY <1>1, <1>2, <1>3
  <2>4. QED
    BY <1>1, <2>2, <2>3 DEF Position, LoopAt
<1>7. Written'
  <2>1. BufferIs'
    BY <1>1, SameFile
  <2>2. Filled'
    BY <1>1, <1>3, SameFile
  <2>3. NoEnd'
    BY <1>1, <1>3, SameFile
  <2>4. QED
    BY <1>1, <2>1, <2>2, <2>3 DEF Written, LoopAt
<1>8. NotYet'
  BY <1>0, <1>1, SameFile DEF NotYet
<1>9. QED
  BY <1>1, <1>5, <1>6, <1>7, <1>8 DEF WriteInv, Done, LoopAt

\* A step that programs the slot and goes on with the same chunk.
LEMMA SlotFrame ==
  ASSUME WriteInv, wpc \in {"erase", "header"}, wpc' \in {"header", "write"},
         UNCHANGED <<dataSize, i, buffer, totalRead, attempts, tries, holes, ended>>,
         slot' \in [1..SlotLength -> Cells],
         wpc' = "header" => i = 0, i > 0 \/ wpc' = "write" => HeaderIs',
         holes = 0 => Filled', NoEnd',
         ~ended => \A p \in 1..SlotLength : slot'[p] # LastByte
  PROVE  WriteInv'
<1>1. Base' = Base /\ Offset' = Offset /\ Room' = Room /\ Held' = Held
  BY SameChunk DEF Held
<1>2. Lost' = Lost
  BY <1>1, Zenon DEF Lost, Behind
<1>3. WriteTypes'
  BY <1>1 DEF WriteInv, WriteTypes, WriteTypeOK, Writing
<1>4. Position'
  BY <1>1, <1>2 DEF WriteInv, Position, ChunkReady, Rounds, LoopAt
<1>5. Written'
  <2>1. BufferIs'
    BY SameFile DEF WriteInv, Written, Rounds, LoopAt, BufferIs
  <2>2. QED
    BY <2>1 DEF Written, LoopAt
<1>6. NotYet'
  BY SameFile DEF NotYet
<1>7. QED
  BY <1>3, <1>4, <1>5, <1>6 DEF WriteInv, Done, LoopAt

LEMMA EraseInv ==
  ASSUME WriteInv, Erase
  PROVE  WriteInv'
<1> DEFINE blank == [k \in 1..ChunkSize |-> Erased]
<1>0. WriteTypes /\ Position /\ Written /\ NotYet
  BY DEF WriteInv
<1>1. /\ wpc = "erase" /\ wpc' = (IF i = 0 THEN "header" ELSE "write")
      /\ Program(Base, blank)
      /\ UNCHANGED <<dataSize, i, buffer, totalRead, attempts, tries, holes, ended>>
  BY DEF Erase, loop, past, Base
<1>2. /\ i \in Nat /\ Base \in Nat /\ (i > 0 => Base >= ChunkSize)
      /\ ChunkSize \in Nat /\ HeaderSize \in Nat /\ HeaderSize < ChunkSize
      /\ SlotLength \in Nat /\ HeaderSize <= SlotLength
  BY <1>0, Numbers, Sizes DEF SlotLength
<1>3. blank \in [1..ChunkSize -> Cells] /\ \A k \in 1..ChunkSize : blank[k] = Erased
  BY CellFacts
<1> HIDE DEF blank
<1>4. /\ slot' \in [1..SlotLength -> Cells]
      /\ \A p \in 1..SlotLength :
           slot'[p] = IF Base < p /\ p <= Base + ChunkSize THEN blank[p - Base] ELSE slot[p]
  BY <1>0, <1>1, <1>2, <1>3, ProgramIs
<1>5. /\ \A p \in 1..SlotLength : p <= Base => slot'[p] = slot[p]
      /\ \A p \in 1..SlotLength : slot'[p] = slot[p] \/ slot'[p] = Erased
  <2>1. \A p \in 1..SlotLength :
          /\ p <= Base => ~(Base < p)
          /\ Base < p /\ p <= Base + ChunkSize => p - Base \in 1..ChunkSize
    BY <1>2
  <2>2. QED
    BY <1>3, <1>4, <2>1
<1>6. ~ended => \A p \in 1..SlotLength : slot'[p] # LastByte
  BY <1>0, <1>1, <1>5, LastByteIs DEF NotYet
<1>7. i > 0 => HeaderIs'
  <2>1. SUFFICES ASSUME i > 0 PROVE HeaderIs'
    OBVIOUS
  <2>2. \A p \in 1..HeaderSize : p \in 1..SlotLength /\ p <= Base
    BY <1>2, <2>1
  <2>3. HeaderIs
    BY <1>0, <1>1, <2>1 DEF Written, Rounds, LoopAt
  <2>4. QED
    BY <1>1, <1>5, <2>2, <2>3, SameFile DEF HeaderIs
<1>8. holes = 0 => Filled'
  <2>1. holes = 0 => Filled
    BY <1>0, <1>1 DEF Written, Rounds, LoopAt
  <2>2. QED
    BY <1>1, <1>5, <2>1, SameFile, SameChunk DEF Filled
<1>9. /\ wpc' \in {"header", "write"} /\ wpc' = "header" => i = 0
      /\ i > 0 \/ wpc' = "write" => i > 0
  BY <1>1, <1>2
<1>10. NoEnd'
  <2>1. NoEnd
    BY <1>0, <1>1 DEF Written, Rounds, LoopAt
  <2>2. QED
    BY <1>1, <1>5, <2>1, SameFile, SameChunk DEF NoEnd
<1>11. QED
  BY <1>1, <1>4, <1>6, <1>10, <1>7, <1>8, <1>9, SlotFrame

LEMMA WriteHeaderInv ==
  ASSUME WriteInv, WriteHeader
  PROVE  WriteInv'
<1> DEFINE head == Bytes("header", New, 0, HeaderSize)
<1>0. WriteTypes /\ Position /\ Written /\ NotYet
  BY DEF WriteInv
<1>1. /\ wpc = "header" /\ wpc' = "write" /\ Program(0, head)
      /\ UNCHANGED <<dataSize, i, buffer, totalRead, attempts, tries, holes, ended>>
  BY DEF WriteHeader, loop, past
<1>2. i = 0 /\ Base = 0 /\ New \in Images /\ HeaderSize \in Nat /\ HeaderSize <= SlotLength
  <2>1. i = 0
    BY <1>0, <1>1 DEF Written, Rounds, LoopAt
  <2>2. QED
    BY <1>0, <2>1, Numbers, Sizes DEF SlotLength
<1>3. /\ head \in [1..HeaderSize -> Cells]
      /\ \A k \in 1..HeaderSize : head[k] = Byte("header", New, k)
  <2>1. \A k \in 1..HeaderSize : Byte("header", New, 0 + k) \in Cells /\ 0 + k = k
    BY <1>2, CellFacts DEF Kinds
  <2>2. QED
    BY <2>1 DEF Bytes
<1> HIDE DEF head
<1>4. /\ slot' \in [1..SlotLength -> Cells]
      /\ \A p \in 1..SlotLength :
           slot'[p] = IF 0 < p /\ p <= 0 + HeaderSize THEN head[p - 0] ELSE slot[p]
  BY <1>0, <1>1, <1>2, <1>3, ProgramIs
<1>5. \A p \in 1..SlotLength :
        slot'[p] = IF p <= HeaderSize THEN Byte("header", New, p) ELSE slot[p]
  <2>1. \A p \in 1..SlotLength :
          /\ 0 < p /\ p - 0 = p /\ 0 + HeaderSize = HeaderSize
          /\ p <= HeaderSize => p \in 1..HeaderSize
    BY <1>2
  <2>2. QED
    BY <1>3, <1>4, <2>1
<1>6. ~ended => \A p \in 1..SlotLength : slot'[p] # LastByte
  BY <1>0, <1>1, <1>5, LastByteIs DEF NotYet
<1>7. HeaderIs'
  <2>1. \A p \in 1..HeaderSize : p \in 1..SlotLength /\ p <= HeaderSize
    BY <1>2, Sizes
  <2>2. QED
    BY <1>1, <1>5, <2>1, SameFile DEF BlockByte
<1>8. Filled' /\ NoEnd'
  <2>1. Base' = 0
    BY <1>1, <1>2, SameChunk
  <2>2. \A p \in 1..SlotLength : ~(p <= 0)
    OBVIOUS
  <2>3. QED
    BY <1>1, <2>1, <2>2, SameFile
<1>9. QED
  BY <1>1, <1>4, <1>6, <1>7, <1>8, SlotFrame

\* What WriteChunk puts behind the chunks before: the buffer, then zeros.
LEMMA ChunkIs ==
  ASSUME WriteInv, WriteChunk
  PROVE  /\ slot' \in [1..SlotLength -> Cells]
         /\ \A p \in 1..SlotLength :
              IF Base + Offset < p /\ p <= Base + ChunkSize
              THEN IF p - (Base + Offset) <= Held
                   THEN slot'[p] = StreamByte(totalRead - Held + (p - (Base + Offset)))
                   ELSE slot'[p] = Zero
              ELSE slot'[p] = slot[p]
<1> DEFINE out == [k \in 1..Room |-> IF k <= Len(buffer) THEN buffer[k] ELSE Zero]
           from == Base + Offset
<1>0. WriteTypes /\ Written
  BY DEF WriteInv
<1>1. wpc = "write" /\ Program(from, out)
  BY DEF WriteChunk, Base
<1>2. /\ from \in Nat /\ Room \in Nat /\ Held \in Nat /\ Held = Len(buffer)
      /\ from + Room = Base + ChunkSize /\ SlotLength \in Nat
  <2>1. /\ Base \in Nat /\ Offset \in Nat /\ Base + Offset + Room = Base + ChunkSize
        /\ Room \in Nat /\ Held \in Nat /\ Held = Len(buffer) /\ SlotLength \in Nat
    BY <1>0, Numbers, Sizes
  <2>2. QED
    BY <2>1
<1>3. buffer \in Seq(Cells) /\ \A k \in 1..Held : buffer[k] = StreamByte(totalRead - Held + k)
  BY <1>0, <1>1 DEF WriteTypes, Written, Rounds, LoopAt, BufferIs, Held
<1>4. /\ out \in [1..Room -> Cells]
      /\ \A k \in 1..Room :
           out[k] = IF k <= Held THEN StreamByte(totalRead - Held + k) ELSE Zero
  <2>1. \A k \in 1..Room : k <= Held => k \in 1..Held
    BY <1>2
  <2>2. \A k \in 1..Held : buffer[k] \in Cells
    BY <1>2, <1>3
  <2>3. Zero \in Cells
    BY CellFacts
  <2>4. out = [k \in 1..Room |-> IF k <= Held THEN buffer[k] ELSE Zero]
    BY <1>2
  <2>5. QED
    BY <1>3, <2>1, <2>2, <2>3, <2>4
<1> HIDE DEF out, from
<1>5. /\ slot' \in [1..SlotLength -> Cells]
      /\ \A p \in 1..SlotLength :
           slot'[p] = IF from < p /\ p <= from + Room THEN out[p - from] ELSE slot[p]
  BY <1>0, <1>1, <1>2, <1>4, ProgramIs
<1>6. \A p \in 1..SlotLength : from < p /\ p <= from + Room => p - from \in 1..Room
  BY <1>2
<1>7. \A p \in 1..SlotLength :
        IF from < p /\ p <= Base + ChunkSize
        THEN IF p - from <= Held
             THEN slot'[p] = StreamByte(totalRead - Held + (p - from))
             ELSE slot'[p] = Zero
        ELSE slot'[p] = slot[p]
  BY <1>2, <1>4, <1>5, <1>6
<1>8. QED
  BY <1>5, <1>7, Zenon DEF from

LEMMA WriteChunkInv ==
  ASSUME WriteInv, WriteChunk
  PROVE  WriteInv'
<1> DEFINE from == Base + Offset
<1>0. WriteTypes /\ Position /\ Written /\ NotYet
  BY DEF WriteInv
<1>1. /\ wpc = "write" /\ i' = i + 1 /\ buffer' = << >>
      /\ wpc' = "head" /\ ended' = (ended \/ totalRead = dataSize + ShaSize)
      /\ UNCHANGED <<dataSize, totalRead, attempts, tries, holes>>
  BY DEF WriteChunk
<1>2. /\ dataSize \in Nat \ {0} /\ totalRead \in Nat /\ totalRead <= dataSize + ShaSize
      /\ i \in Nat /\ Held \in Nat /\ Held <= Room /\ Room \in Nat
      /\ Base \in Nat /\ Offset \in Nat /\ from \in Nat /\ from + Room = Base + ChunkSize
      /\ HeaderSize <= from /\ Lost = (from + Held) - (HeaderSize + totalRead)
      /\ holes \in Nat /\ BlockSize \in Nat /\ BlockSize <= SlotLength
      /\ BlockSize = HeaderSize + dataSize + ShaSize
  <2>1. /\ dataSize \in Nat \ {0} /\ totalRead \in Nat /\ totalRead <= dataSize + ShaSize
        /\ i \in Nat /\ Held \in Nat /\ Held <= Room /\ Room \in Nat
        /\ Base \in Nat /\ Offset \in Nat /\ Base + Offset + Room = Base + ChunkSize
        /\ HeaderSize <= Base + Offset /\ holes \in Nat
        /\ BlockSize \in Nat /\ BlockSize <= SlotLength
    BY <1>0, Numbers
  <2>2. /\ Lost = (from + Held) - (HeaderSize + totalRead)
        /\ BlockSize = HeaderSize + dataSize + ShaSize
    BY Zenon DEF Lost, Behind, BlockSize
  <2>3. QED
    BY <2>1, <2>2
<1>3. /\ ChunkSize \in Nat \ {0} /\ HeaderSize \in Nat \ {0} /\ ShaSize \in Nat \ {0}
      /\ HeaderSize < ChunkSize /\ SlotLength \in Nat /\ HeaderSize <= SlotLength
  BY Sizes DEF SlotLength
<1>4. /\ i = 0 => Base = 0 /\ Offset = HeaderSize
      /\ i > 0 => Base >= ChunkSize /\ Offset = 0
  BY <1>0, Numbers
<1>5. /\ slot' \in [1..SlotLength -> Cells]
      /\ \A p \in 1..SlotLength :
           IF from < p /\ p <= Base + ChunkSize
           THEN IF p - from <= Held
                THEN slot'[p] = StreamByte(totalRead - Held + (p - from))
                ELSE slot'[p] = Zero
           ELSE slot'[p] = slot[p]
  BY ChunkIs, Zenon
<1>6. /\ Lost >= 0 /\ (holes = 0 => Lost = 0)
      /\ holes > 0 => Lost > 0 \/ (Held < Room /\ totalRead < dataSize)
      /\ Held > 0
      /\ Held = Room \/ totalRead = dataSize + ShaSize \/ (holes > 0 /\ totalRead < dataSize)
  BY <1>0, <1>1 DEF Position, ChunkReady, Rounds, LoopAt
<1>7. HeaderIs /\ (holes = 0 => Filled) /\ NoEnd
  BY <1>0, <1>1 DEF Written, Rounds, LoopAt
<1>8. ~ended => \A p \in 1..SlotLength : slot[p] # LastByte
  BY <1>0 DEF NotYet
<1> HIDE DEF from
<1>9. Base' = Base + ChunkSize /\ Offset' = 0 /\ Room' = ChunkSize /\ Held' = 0
  <2>1. Base' = Base + ChunkSize
    BY <1>1, <1>2, Products DEF Base
  <2>2. i' # 0
    BY <1>1, <1>2
  <2>3. QED
    BY <1>1, <1>3, <2>1, <2>2 DEF Offset, Room, Held
<1>10. HeaderIs'
  <2>1. \A p \in 1..HeaderSize : p \in 1..SlotLength /\ ~(from < p)
    BY <1>2, <1>3
  <2>2. \A p \in 1..HeaderSize : slot'[p] = slot[p]
    BY <1>5, <2>1
  <2>3. QED
    BY <1>1, <1>7, <2>2, SameFile DEF HeaderIs
<1>11. ASSUME holes = 0, NEW p \in 1..SlotLength, p <= Base + ChunkSize, p <= BlockSize
       PROVE  slot'[p] = BlockByte(p)
  <2>1. CASE p <= from
    <3>1. slot'[p] = slot[p]
      <4>1. ~(from < p)
        BY <1>2, <2>1
      <4>2. QED
        BY <1>5, <4>1
    <3>2. CASE p <= Base
      BY <1>7, <1>11, <3>1, <3>2 DEF Filled
    <3>3. CASE ~(p <= Base)
      <4>1. p \in 1..HeaderSize
        BY <1>2, <1>3, <1>4, <2>1, <3>3 DEF from
      <4>2. QED
        BY <1>7, <3>1, <4>1 DEF HeaderIs
    <3>4. QED
      BY <3>2, <3>3
  <2>2. CASE ~(p <= from)
    <3>1. from < p /\ p - from <= Held
      BY <1>2, <1>3, <1>6, <1>11, <2>2
    <3>2. slot'[p] = StreamByte(totalRead - Held + (p - from))
      BY <1>5, <1>11, <3>1
    <3>3. totalRead - Held + (p - from) = p - HeaderSize /\ ~(p <= HeaderSize)
      BY <1>2, <1>3, <1>6, <1>11, <3>1
    <3>4. QED
      BY <3>2, <3>3 DEF BlockByte
  <2>3. QED
    BY <2>1, <2>2
<1>12. ASSUME NEW p \in 1..SlotLength,
              totalRead - Held + (p - from) < dataSize + ShaSize \/ ~(p - from <= Held),
              ~ended \/ p <= Base + ChunkSize
       PROVE  slot'[p] # LastByte
  <2>1. CASE ~(from < p /\ p <= Base + ChunkSize)
    <3>1. slot'[p] = slot[p]
      BY <1>5, <2>1
    <3>2. CASE ~ended
      BY <1>8, <3>1, <3>2
    <3>3. CASE p <= Base
      BY <1>7, <3>1, <3>3 DEF NoEnd
    <3>4. CASE ended /\ ~(p <= Base)
      <4>1. p \in 1..HeaderSize /\ p <= HeaderSize
        BY <1>2, <1>3, <1>4, <1>12, <2>1, <3>4 DEF from
      <4>2. slot[p] = Byte("header", New, p)
        BY <1>7, <4>1 DEF HeaderIs, BlockByte
      <4>3. QED
        BY <1>0, <3>1, <4>2, LastByteIs
    <3>5. QED
      BY <3>2, <3>3, <3>4
  <2>2. CASE from < p /\ p <= Base + ChunkSize /\ p - from <= Held
    <3>1. slot'[p] = StreamByte(totalRead - Held + (p - from))
      BY <1>5, <2>2
    <3>2. totalRead - Held + (p - from) \in Int
      BY <1>2, <1>3
    <3>3. QED
      BY <1>0, <1>12, <2>2, <3>1, <3>2, LastByteIs
  <2>3. CASE from < p /\ p <= Base + ChunkSize /\ ~(p - from <= Held)
    BY <1>0, <1>5, <2>3, LastByteIs
  <2>4. QED
    BY <2>1, <2>2, <2>3
<1>13. WriteTypes'
  <2>1. i' \in Nat /\ Len(buffer') <= Room' /\ buffer' \in Seq(Cells)
    BY <1>1, <1>2, <1>3, <1>9
  <2>2. QED
    BY <1>0, <1>1, <1>2, <1>5, <2>1 DEF WriteTypes, WriteTypeOK, Writing
<1>14. CASE totalRead # dataSize + ShaSize
  <2>1. LoopAt' = "read"
    BY <1>1, <1>14 DEF LoopAt
  <2>2. Position'
    <3> DEFINE lost2 == Lost'
    <3>1. lost2 = ((Base + ChunkSize) + 0 + 0) - (HeaderSize + totalRead)
      BY <1>1, <1>9, LostIs
    <3>2. lost2 >= 0 /\ (holes = 0 => lost2 = 0) /\ (holes > 0 => lost2 > 0)
      <4> HIDE DEF lost2
      <4>1. QED
        BY <1>2, <1>3, <1>6, <1>14, <3>1
    <3>3. 0 < ChunkSize /\ totalRead < dataSize + ShaSize
      BY <1>2, <1>3, <1>14
    <3>4. QED
      BY <1>1, <1>9, <2>1, <3>2, <3>3 DEF Position
  <2>3. Written'
    <3>1. BufferIs'
      BY <1>1, SameFile
    <3>2. holes = 0 => Filled'
      BY <1>1, <1>9, <1>11, SameFile
    <3>3. NoEnd'
      <4>1. ASSUME NEW p \in 1..SlotLength, p <= Base + ChunkSize PROVE slot'[p] # LastByte
        <5>1. totalRead - Held + (p - from) < dataSize + ShaSize \/ ~(p - from <= Held)
          BY <1>2, <1>3, <1>14
        <5>2. QED
          BY <1>12, <4>1, <5>1
      <4>2. QED
        BY <1>1, <1>9, <4>1, SameFile
    <3>4. QED
      BY <1>1, <1>10, <2>1, <3>1, <3>2, <3>3 DEF Written
  <2>4. NotYet'
    <3>1. ASSUME NEW p \in 1..SlotLength, ~ended PROVE slot'[p] # LastByte
      <4>1. totalRead - Held + (p - from) < dataSize + ShaSize \/ ~(p - from <= Held)
        BY <1>2, <1>3, <1>14
      <4>2. QED
        BY <1>12, <3>1, <4>1
    <3>2. QED
      BY <1>1, <3>1, SameFile DEF NotYet
  <2>5. QED
    BY <1>13, <2>1, <2>2, <2>3, <2>4 DEF WriteInv, Done
<1>15. CASE totalRead = dataSize + ShaSize
  <2>1. LoopAt' = "returned" /\ LoopAt' \notin Rounds /\ ended'
    BY <1>1, <1>15 DEF Rounds, LoopAt
  <2>2. ASSUME holes = 0, NEW p \in 1..BlockSize PROVE slot'[p] = BlockByte(p)
    <3>1. p \in 1..SlotLength /\ p <= Base + ChunkSize /\ p <= BlockSize
      BY <1>2, <1>3, <1>6, <1>15, <2>2
    <3>2. QED
      BY <1>11, <2>2, <3>1
  <2>3. ASSUME holes # 0 PROVE slot'[BlockSize] # LastByte
    <3>1. /\ BlockSize \in 1..SlotLength
          /\ totalRead - Held + (BlockSize - from) < dataSize + ShaSize
          /\ BlockSize <= Base + ChunkSize
      BY <1>2, <1>3, <1>6, <1>15, <2>3
    <3>2. QED
      BY <1>12, <3>1
  <2>4. Done'
    BY <1>1, <1>10, <2>1, <2>2, <2>3, SameFile DEF Done
  <2>5. QED
    BY <1>13, <2>1, <2>4 DEF WriteInv, Position, Written, NotYet
<1>16. QED
  BY <1>14, <1>15

----------------------------------------------------------------------------
(* The invariant and what follows from it.                                 *)

LEMMA WriteInitInv ==
  ASSUME WriteInit
  PROVE  WriteInv
<1> DEFINE old == Block("old", OldSize)
           n == HeaderSize + OldSize + ShaSize
<1>1. /\ dataSize \in FileSizes
      /\ slot = [p \in 1..SlotLength |-> IF p <= Len(old) THEN old[p] ELSE Byte("beyond", 0, p)]
      /\ wpc = "read" /\ i = 0 /\ buffer = << >> /\ totalRead = 0 /\ attempts = 0
      /\ tries = 1 /\ holes = 0 /\ ended = FALSE
  BY DEF WriteInit, SlotLength
<1>2. /\ dataSize \in Nat \ {0} /\ HeaderSize \in Nat \ {0} /\ ShaSize \in Nat \ {0}
      /\ ChunkSize \in Nat /\ HeaderSize < ChunkSize /\ SlotLength \in Nat /\ OldSize \in Nat
      /\ n \in Nat
  BY <1>1, Sizes, WriteDataAssumption
<1>3. /\ old \in Seq(Cells) /\ Len(old) = n
      /\ \A p \in 1..n :
           old[p] = IF p <= HeaderSize THEN Byte("header", <<"old", OldSize>>, p)
                    ELSE IF p <= HeaderSize + OldSize
                    THEN Byte("data", <<"old", OldSize>>, p - HeaderSize)
                    ELSE Byte("sha", <<"old", OldSize>>, p - HeaderSize - OldSize)
  BY <1>2, BlockIs
<1> HIDE DEF old, n
<1>4. \A p \in 1..SlotLength :
        /\ p \in Int /\ (p <= n => p \in 1..n)
        /\ slot[p] = IF p <= n THEN old[p] ELSE Byte("beyond", 0, p)
  BY <1>1, <1>2, <1>3
<1>5. slot \in [1..SlotLength -> Cells]
  <2>1. \A p \in 1..n : old[p] \in Cells
    BY <1>2, <1>3
  <2>2. \A p \in Int : Byte("beyond", 0, p) \in Cells
    BY CellFacts DEF Kinds
  <2>3. \A p \in 1..SlotLength : slot[p] \in Cells
    BY <1>4, <2>1, <2>2
  <2>4. slot = [p \in 1..SlotLength |-> slot[p]]
    BY <1>1
  <2>5. QED
    BY <2>3, <2>4
<1>6. Base = 0 /\ Offset = HeaderSize /\ Room = ChunkSize - HeaderSize /\ Held = 0
  BY <1>1, <1>2 DEF Base, Offset, Room, Held
<1>7. WriteTypes
  <2>1. /\ totalRead \in 0 .. dataSize + ShaSize /\ Len(buffer) <= Room
        /\ buffer \in Seq(Cells)
    BY <1>1, <1>2, <1>6
  <2>2. attempts \in 0..MaxAttempts /\ tries \in 1..MaxTries /\ holes \in 0..MaxHoles
    BY <1>1, WriteDataAssumption
  <2>3. QED
    BY <1>1, <1>5, <2>1, <2>2 DEF WriteTypes, WriteTypeOK, Writing
<1>8. Position
  <2>1. Lost = 0
    BY <1>1, <1>2, <1>6 DEF Lost, Behind
  <2>2. Held < Room /\ ~(totalRead >= dataSize)
    BY <1>1, <1>2, <1>6
  <2>3. QED
    BY <1>1, <2>1, <2>2 DEF Position, LoopAt
<1>9. Written
  <2>1. BufferIs
    BY <1>1 DEF BufferIs
  <2>2. Filled
    BY <1>6 DEF Filled
  <2>3. NoEnd
    BY <1>6 DEF NoEnd
  <2>4. QED
    BY <1>1, <2>1, <2>2, <2>3 DEF Written, LoopAt
<1>10. NotYet
  <2>1. ASSUME NEW p \in 1..SlotLength PROVE slot[p] # LastByte
    <3>1. <<"old", OldSize>> # New
      BY DEF New
    <3>2. CASE p <= n
      <4>1. slot[p] = old[p] /\ p \in 1..n
        BY <1>4, <3>2
      <4>2. \E kind, q : slot[p] = Byte(kind, <<"old", OldSize>>, q)
        BY <1>3, <4>1
      <4>3. QED
        BY <3>1, <4>2, ByteEqual DEF LastByte
    <3>3. CASE ~(p <= n)
      <4>1. slot[p] = Byte("beyond", 0, p)
        BY <1>4, <3>3
      <4>2. QED
        BY <4>1, ByteEqual DEF LastByte
    <3>4. QED
      BY <3>2, <3>3
  <2>2. QED
    BY <2>1 DEF NotYet
<1>11. QED
  BY <1>1, <1>7, <1>8, <1>9, <1>10 DEF WriteInv, Done, LoopAt

LEMMA WriteNextInv ==
  ASSUME WriteInv, WriteNext
  PROVE  WriteInv'
  BY ReadSomeInv, ReadNothingInv, ReadHashInv, StopInv, EraseInv, WriteHeaderInv,
     WriteChunkInv, LoopHeadInv, AgainInv DEF WriteNext

LEMMA WriteStutterInv ==
  ASSUME WriteInv, UNCHANGED wvars
  PROVE  WriteInv'
<1>1. /\ wpc' = wpc /\ LoopAt' = LoopAt
      /\ UNCHANGED <<slot, dataSize, i, buffer, totalRead, attempts, tries, holes, ended>>
  BY DEF wvars, loop, past, LoopAt
<1>2. wpc \in Writing \cup {"returned", "failed", "cut"}
  BY DEF WriteInv, WriteTypes, WriteTypeOK
<1>3. QED
  BY <1>1, <1>2, SameState

\* The slot holds the new firmware when each of its bytes is in its place.
LEMMA HoldsNew ==
  ASSUME WriteTypes
  PROVE  Holds("new", dataSize) <=> \A p \in 1..BlockSize : slot[p] = BlockByte(p)
<1> DEFINE new == Block("new", dataSize)
           found == SubSeq(slot, 1, BlockSize)
<1>1. /\ dataSize \in Nat /\ HeaderSize \in Nat /\ ShaSize \in Nat /\ BlockSize \in Nat
      /\ BlockSize <= SlotLength /\ BlockSize = HeaderSize + dataSize + ShaSize
      /\ BlockSize >= 1 /\ SlotLength \in Nat
  <2>1. /\ dataSize \in Nat /\ HeaderSize \in Nat /\ ShaSize \in Nat \ {0}
        /\ BlockSize \in Nat /\ BlockSize <= SlotLength /\ SlotLength \in Nat
    BY Numbers, Sizes
  <2>2. BlockSize = HeaderSize + dataSize + ShaSize
    BY DEF BlockSize
  <2>3. QED
    BY <2>1, <2>2
<1>2. /\ new \in Seq(Cells) /\ Len(new) = BlockSize
      /\ \A p \in 1..BlockSize : new[p] = BlockByte(p)
  <2>1. /\ new \in Seq(Cells) /\ Len(new) = HeaderSize + dataSize + ShaSize
        /\ \A p \in 1 .. HeaderSize + dataSize + ShaSize :
             new[p] = IF p <= HeaderSize THEN Byte("header", <<"new", dataSize>>, p)
                      ELSE IF p <= HeaderSize + dataSize
                      THEN Byte("data", <<"new", dataSize>>, p - HeaderSize)
                      ELSE Byte("sha", <<"new", dataSize>>, p - HeaderSize - dataSize)
    BY <1>1, BlockIs
  <2>2. \A p \in 1..BlockSize : p <= HeaderSize + dataSize <=> p - HeaderSize <= dataSize
    BY <1>1
  <2> HIDE DEF new
  <2>3. QED
    BY <1>1, <2>1, <2>2 DEF BlockByte, StreamByte, New
<1> HIDE DEF new
<1>3. \A p \in 1..BlockSize : slot[p] \in Cells
  BY <1>1 DEF WriteTypes
<1>4. /\ found \in Seq(Cells) /\ Len(found) = BlockSize
      /\ \A p \in 1..BlockSize : found[p] = slot[p]
  <2>1. /\ found \in Seq(Cells)
        /\ Len(found) = IF 1 <= BlockSize THEN BlockSize - 1 + 1 ELSE 0
        /\ \A p \in 1 .. BlockSize - 1 + 1 : found[p] = slot[1 + p - 1]
    BY <1>1, <1>3, SubSeqProperties
  <2>2. BlockSize - 1 + 1 = BlockSize /\ \A p \in 1..BlockSize : 1 + p - 1 = p
    BY <1>1
  <2> HIDE DEF found
  <2>3. QED
    BY <1>1, <2>1, <2>2
<1>5. Holds("new", dataSize) <=> found = new
  BY <1>2, Zenon DEF Holds, new
<1> HIDE DEF found
<1>6. ASSUME \A p \in 1..BlockSize : slot[p] = BlockByte(p) PROVE found = new
  BY <1>2, <1>4, <1>6, SeqEqual
<1>7. ASSUME found = new, NEW p \in 1..BlockSize PROVE slot[p] = BlockByte(p)
  BY <1>2, <1>4, <1>7
<1>8. QED
  BY <1>5, <1>6, <1>7

\* Without the end of the hash it does not.
LEMMA NotNew ==
  ASSUME WriteTypes, slot[BlockSize] # LastByte
  PROVE  ~Holds("new", dataSize)
<1>1. BlockSize \in 1..BlockSize
  <2>1. /\ BlockSize \in Nat /\ HeaderSize \in Nat \ {0} /\ dataSize \in Nat
        /\ ShaSize \in Nat
    BY Numbers, Sizes
  <2>2. BlockSize = HeaderSize + dataSize + ShaSize
    BY DEF BlockSize
  <2>3. QED
    BY <2>1, <2>2
<1>2. QED
  BY <1>1, HoldsNew, LastByteIs

LEMMA WriteInvImplies ==
  ASSUME WriteInv
  PROVE  WriteTypeOK /\ ReturnedIsWhole /\ TornUntilWritten /\ StaysInSlot
<1>1. WriteTypes /\ Position /\ NotYet /\ Done
  BY DEF WriteInv
<1>2. WriteTypeOK
  BY <1>1 DEF WriteTypes
<1>3. ReturnedIsWhole
  BY <1>1, HoldsNew DEF Done, ReturnedIsWhole, LoopAt
<1>4. TornUntilWritten
  <2>1. BlockSize \in 1..SlotLength
    <3>1. BlockSize \in Nat /\ BlockSize <= SlotLength /\ HeaderSize \in Nat \ {0}
          /\ dataSize \in Nat /\ ShaSize \in Nat
      BY <1>1, Numbers, Sizes
    <3>2. BlockSize = HeaderSize + dataSize + ShaSize
      BY DEF BlockSize
    <3>3. QED
      BY <3>1, <3>2
  <2>2. QED
    BY <1>1, <2>1, NotNew DEF NotYet, TornUntilWritten
<1>5. StaysInSlot
  <2>1. SUFFICES ASSUME wpc = "erase", holes = 0 PROVE (i + 1) * ChunkSize <= SlotSize
    BY DEF StaysInSlot
  <2>2. Lost = 0 /\ Held > 0
    BY <1>1, <2>1 DEF Position, ChunkReady, Rounds, LoopAt
  <2>3. /\ i \in Nat /\ Base \in Nat /\ Offset \in Nat /\ Held \in Nat /\ totalRead \in Nat
        /\ totalRead <= dataSize + ShaSize /\ BlockSize <= SlotSize
        /\ HeaderSize \in Nat /\ dataSize \in Nat /\ ShaSize \in Nat /\ SlotSize \in Nat
    BY <1>1, Numbers, Sizes
  <2>4. Base < SlotSize
    BY <2>2, <2>3 DEF Lost, Behind, BlockSize
  <2>5. QED
    BY <2>3, <2>4, WholeChunks DEF Base
<1>6. QED
  BY <1>2, <1>3, <1>4, <1>5
=============================================================================
