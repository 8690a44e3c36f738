---------------------------- MODULE AnimatedQR -----------------------------
(***************************************************************************)
(* Animated QR codes: to_qr_codes cuts a payload into parts and shows them *)
(* in turn, on a screen that the other side's camera watches: it may miss  *)
(* parts, see them again, start in the middle, or be turned to another     *)
(* code half-way.  qr_capture_loop hands what it sees to QRPartParser      *)
(* until is_complete.                                                      *)
(*                                                                         *)
(* Data: a part's content is the stretch of its code's payload it carries; *)
(* a prefix is its length and the numbers in it.  encode, camera and       *)
(* display are external.                                                   *)
(***************************************************************************)
EXTENDS Integers, FiniteSets, FiniteSetsExt

CONSTANTS
  Codes,        \* codes that may be captured: records of format, len and cap
  Others,       \* codes that are only shown
  MaxSwitches,  \* bound: times that another code is shown during the capture
  None          \* QRPartParser: no format yet

Formats == {"none", "pmofn", "bbqr"}

ASSUME QRAssumption ==
  /\ \A c \in Codes \cup Others :
       c.format \in Formats /\ c.len \in Nat \ {0} /\ c.cap \in Nat /\ c.cap > 17
  /\ MaxSwitches \in Nat
  /\ None \notin Formats

----------------------------------------------------------------------------
(* find_min_num_parts and to_qr_codes.                                     *)

PrefixLength1D == 6
PrefixLength2D == 8
BBQRPrefixLength == 8

CeilDiv(a, b) == (a + b - 1) \div b

\* Mutant: room for one-digit numbers only.
PmofnNumPartsShort(c) == CeilDiv(c.len, c.cap - PrefixLength1D)

PmofnNumParts(c) ==
  LET n == CeilDiv(c.len, c.cap - PrefixLength1D)
  IN  IF n > 9 THEN CeilDiv(c.len, c.cap - PrefixLength2D) ELSE n

\* BBQR parts are cut at multiples of eight characters of base 32.
Round8(n) == CeilDiv(n, 8) * 8
BBQRMax(c) == ((c.cap - BBQRPrefixLength) \div 8) * 8
BBQRSingle(c) == c.len < c.cap - BBQRPrefixLength

\* num_parts; a part that comes out larger than a code holds costs one more.
BBQRNumParts(c) ==
  LET n == CeilDiv(c.len, BBQRMax(c))
  IN  IF BBQRSingle(c) THEN 1
      ELSE IF Round8(c.len \div n) > BBQRMax(c) THEN n + 1 ELSE n

\* Mutant: the parts are not rounded.
BBQRPartSizeExact(c) ==
  IF BBQRSingle(c) THEN c.len ELSE CeilDiv(c.len, BBQRNumParts(c))

BBQRPartSize(c) ==
  IF BBQRSingle(c) THEN c.len ELSE Round8(c.len \div BBQRNumParts(c))

NumParts(c) ==
  CASE c.format = "none" -> 1
    [] c.format = "pmofn" -> PmofnNumParts(c)
    [] c.format = "bbqr" -> BBQRNumParts(c)

PartSize(c) ==
  CASE c.format = "none" -> c.len
    [] c.format = "pmofn" -> CeilDiv(c.len, NumParts(c))
    [] c.format = "bbqr" -> BBQRPartSize(c)

\* Mutant: both formats count from 0.
KeyOfZero(c, k) == k

\* The numbers in the prefix: pMofN counts from 1, BBQR from 0.
KeyOf(c, k) == IF c.format = "bbqr" THEN k ELSE k + 1

\* Part k of a code; the last one takes the rest.
Frame(c, k) ==
  [format |-> c.format, index |-> KeyOf(c, k), total |-> NumParts(c),
   part |-> [code |-> c, from |-> k * PartSize(c),
             to |-> IF k = NumParts(c) - 1 THEN c.len ELSE (k + 1) * PartSize(c)]]

Digits(n) == IF n < 10 THEN 1 ELSE IF n < 100 THEN 2 ELSE 3

\* "p%dof%d " or "B$" with encoding, type and two base-36 numbers.
PrefixLength(f) ==
  CASE f.format = "none" -> 0
    [] f.format = "pmofn" -> 4 + Digits(f.index) + Digits(f.total)
    [] f.format = "bbqr" -> BBQRPrefixLength

----------------------------------------------------------------------------

VARIABLES
  shown,     \* the code on the screen
  cursor,    \* part_index of its generator
  parts,     \* QRPartParser.parts
  total,     \* ... total
  format,    \* ... format
  loop,      \* qr_capture_loop: off, runs, or how it ended
  switches   \* history: times that the code was changed

parser == <<parts, total, format>>
vars == <<shown, cursor, parser, loop, switches>>

\* The screen shows the next part, the first after the last.
ShowNext ==
  /\ cursor' = IF cursor = NumParts(shown) - 1 THEN 0 ELSE cursor + 1
  /\ UNCHANGED <<shown, parser, loop, switches>>

\* Another code is shown.
ShowOther ==
  /\ loop = "runs" /\ switches < MaxSwitches
  /\ shown' \in Codes \ {shown}
  /\ cursor' = 0
  /\ switches' = switches + 1
  /\ UNCHANGED <<parser, loop>>

\* Mutant: the number of parts is enough.
IsCompleteByCount(ps, n, f) == Cardinality(DOMAIN ps) = n

\* is_complete: as many parts as announced, and numbers that add up.
IsComplete(ps, n, f) ==
  /\ n # -1
  /\ Cardinality(DOMAIN ps) = n
  /\ SumSet(DOMAIN ps) = SumSet(IF f = "bbqr" THEN 0 .. n - 1 ELSE 1..n)

\* parts[index] = part
Put(index, part) ==
  [k \in DOMAIN parts \cup {index} |-> IF k = index THEN part ELSE parts[k]]

\* A code is found in the picture.  The first one decides the format; one of
\* another format is an error then, unless the format is plain text.
See ==
  /\ loop = "runs"
  /\ LET f == Frame(shown, cursor)
         fmt == IF format = None THEN f.format ELSE format
     IN  /\ format' = fmt
         /\ IF fmt = "none" \/ f.format = fmt
            THEN /\ parts' = IF fmt = "none" THEN Put(1, f.part) ELSE Put(f.index, f.part)
                 /\ total' = IF fmt = "none" THEN 1 ELSE f.total
                 /\ loop' = IF IsComplete(parts', total', fmt) THEN "done" ELSE "runs"
            ELSE loop' = "raised" /\ UNCHANGED <<parts, total>>
  /\ UNCHANGED <<shown, cursor, switches>>

\* The user leaves: TOUCH or PAGE_PREV.
Leave ==
  /\ loop = "runs"
  /\ loop' = "left"
  /\ UNCHANGED <<shown, cursor, parser, switches>>

Init ==
  /\ \/ shown \in Codes /\ loop = "runs" /\ cursor \in 0 .. NumParts(shown) - 1
     \/ shown \in Others /\ loop = "off" /\ cursor = 0
  /\ parts = << >> /\ total = -1 /\ format = None /\ switches = 0

Next == ShowNext \/ ShowOther \/ See \/ Leave

\* The screen keeps turning, and the camera, which is not in step with it, sees
\* each part some time.
SeePart(k) == cursor = k /\ See
MaxParts == Max({NumParts(c) : c \in Codes})

Spec ==
  /\ Init /\ [][Next]_vars
  /\ WF_vars(ShowNext)
  /\ \A k \in 0 .. MaxParts - 1 : SF_vars(SeePart(k))

----------------------------------------------------------------------------
(* Properties.                                                             *)

\* The variables stay in their types.
TypeOK ==
  /\ shown \in Codes \cup Others /\ cursor \in 0 .. NumParts(shown) - 1
  /\ DOMAIN parts \subseteq 0..MaxParts
  /\ total \in {-1} \cup 1..MaxParts
  /\ format \in Formats \cup {None}
  /\ loop \in {"off", "runs", "done", "left", "raised"}
  /\ switches \in 0..MaxSwitches

\* The sum of the numbers and their count are enough to tell that no part is
\* missing, even when parts of a code with another total are among them.
CompleteHasAll ==
  loop = "done" => DOMAIN parts = IF format = "bbqr" THEN 0 .. total - 1 ELSE 1..total

\* The parts in the order of their numbers are the payload: no byte is lost,
\* repeated or out of place, and a BBQR part can be decoded by itself.
Joined ==
  LET ks == DOMAIN parts
      first == Min(ks)
      last == Max(ks)
  IN  /\ \A k \in ks : parts[k].code = shown
      /\ parts[first].from = 0 /\ parts[last].to = shown.len
      /\ \A k \in ks \ {last} :
           /\ k + 1 \in ks /\ parts[k].to = parts[k + 1].from
           /\ format = "bbqr" => (parts[k].to - parts[k].from) % 8 = 0

\* A capture of one code, whatever the camera misses or sees twice and wherever
\* it starts, returns its payload.
CapturesPayload == loop = "done" /\ switches = 0 => Joined

\* No part is empty and every part fits in the code that the screen has room
\* for (up to 99 parts, 9 for BBQR, whose last part may be longer).
PartsFit ==
  LET f == Frame(shown, cursor)
      n == f.part.to - f.part.from
  IN  /\ n > 0
      /\ f.total <= (IF f.format = "bbqr" THEN 9 ELSE 99) /\ f.format # "none"
           => PrefixLength(f) + n <= shown.cap

\* A capture that is not disturbed ends.
CaptureEnds == loop = "runs" ~> loop # "runs" \/ switches > 0
=============================================================================
