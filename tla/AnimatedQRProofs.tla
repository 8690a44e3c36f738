------------------------- MODULE AnimatedQRProofs --------------------------
(***************************************************************************)
(* What to_qr_codes cuts a payload into, and what a capture of one code    *)
(* returns, for every payload, every capacity of the screen and every      *)
(* order in which the camera sees the parts.                               *)
(***************************************************************************)
EXTENDS AnimatedQR, FiniteSetTheorems, WellFoundedInduction, TLAPS

----------------------------------------------------------------------------
(* Arithmetic.  The products of two variables are kept in lemmas that say  *)
(* one fact each.                                                          *)

\* The quotient of a division, between its two bounds.
LEMMA DivBounds ==
  ASSUME NEW a \in Nat, NEW b \in Nat \ {0}
  PROVE  /\ a \div b \in Nat
         /\ b * (a \div b) <= a
         /\ a < b * (a \div b) + b
  OBVIOUS

LEMMA MulMonotone ==
  ASSUME NEW a \in Nat, NEW b \in Nat, NEW c \in Nat, a <= b
  PROVE  a * c <= b * c
  OBVIOUS

LEMMA MulCancel ==
  ASSUME NEW a \in Nat, NEW b \in Nat, NEW c \in Nat, a * c < b * c
  PROVE  a < b
  OBVIOUS

LEMMA MulSucc ==
  ASSUME NEW a \in Int, NEW c \in Int
  PROVE  /\ (a + 1) * c = a * c + c
         /\ (a - 1) * c = a * c - c
         /\ a * c = c * a
         /\ a * c \in Int
  OBVIOUS

\* CeilDiv rounds up: so many parts of size d hold a, one less does not.
LEMMA CeilDivBounds ==
  ASSUME NEW a \in Nat \ {0}, NEW d \in Nat \ {0}
  PROVE  /\ CeilDiv(a, d) \in Nat \ {0}
         /\ a <= CeilDiv(a, d) * d
         /\ (CeilDiv(a, d) - 1) * d < a
<1> DEFINE q == CeilDiv(a, d)
<1>1. q \in Nat /\ d * q <= a + d - 1 /\ a + d - 1 < d * q + d
  BY DivBounds, a + d - 1 \in Nat DEF CeilDiv
<1>2. d * q = q * d /\ (q - 1) * d = q * d - d /\ q * d \in Int
  BY <1>1, MulSucc
<1> HIDE DEF q
<1>3. q # 0
  <2>1. SUFFICES ASSUME q = 0 PROVE FALSE
    OBVIOUS
  <2>2. d * q = 0
    BY <2>1
  <2> QED
    BY <1>1, <2>2
<1>4. a <= q * d /\ (q - 1) * d < a
  BY <1>1, <1>2
<1> QED
  BY <1>1, <1>3, <1>4 DEF q

\* It is the least number that does.
LEMMA CeilDivLeast ==
  ASSUME NEW a \in Nat \ {0}, NEW d \in Nat \ {0}, NEW m \in Nat, a <= m * d
  PROVE  CeilDiv(a, d) <= m
<1> DEFINE q == CeilDiv(a, d)
<1>1. q \in Nat \ {0} /\ (q - 1) * d < a
  BY CeilDivBounds
<1> HIDE DEF q
<1>2. q - 1 \in Nat /\ (q - 1) * d \in Int /\ m * d \in Int
  BY <1>1
<1>3. (q - 1) * d < m * d
  BY <1>1, <1>2
<1>4. q - 1 < m
  BY <1>2, <1>3, MulCancel
<1> QED
  BY <1>1, <1>4 DEF q

\* A payload cut into the number of parts that a code of capacity d needs, each
\* of the size CeilDiv gives: the parts fit and the last one is not empty.
LEMMA CutEvenly ==
  ASSUME NEW len \in Nat \ {0}, NEW d \in Nat \ {0}
  PROVE  LET n == CeilDiv(len, d)
             s == CeilDiv(len, n)
         IN  /\ n \in Nat \ {0} /\ s \in Nat \ {0}
             /\ s <= d
             /\ (n - 1) * s < len
             /\ len - (n - 1) * s <= s
<1> DEFINE n == CeilDiv(len, d)
           s == CeilDiv(len, n)
<1>1. n \in Nat \ {0} /\ len <= n * d /\ (n - 1) * d < len
  BY CeilDivBounds
<1> HIDE DEF n
<1>2. s \in Nat \ {0} /\ len <= s * n
  BY <1>1, CeilDivBounds
<1>3. s <= d
  BY <1>1, CeilDivLeast, MulSucc
<1> HIDE DEF s
<1>4. (n - 1) * s <= (n - 1) * d
  <2>1. s * (n - 1) <= d * (n - 1)
    BY <1>1, <1>2, <1>3, MulMonotone
  <2>2. s * (n - 1) = (n - 1) * s /\ d * (n - 1) = (n - 1) * d
    BY <1>1, <1>2, MulSucc
  <2> QED
    BY <2>1, <2>2
<1>5. (n - 1) * s = n * s - s /\ n * s = s * n /\ n * s \in Int
  BY <1>1, <1>2, MulSucc
<1>6. (n - 1) * d \in Int /\ (n - 1) * s \in Int
  BY <1>1, <1>2
<1>7. (n - 1) * s < len /\ len - (n - 1) * s <= s
  BY <1>1, <1>2, <1>4, <1>5, <1>6
<1> QED
  BY <1>1, <1>2, <1>3, <1>7 DEF n, s

\* Round8 gives the next multiple of eight.
LEMMA Round8Bounds ==
  ASSUME NEW x \in Nat \ {0}
  PROVE  /\ Round8(x) \in Nat \ {0} /\ Round8(x) % 8 = 0
         /\ x <= Round8(x)
         /\ \A m \in Nat : x <= m * 8 => Round8(x) <= m * 8
<1> DEFINE q == CeilDiv(x, 8)
<1>1. q \in Nat \ {0} /\ x <= q * 8
  BY CeilDivBounds
<1>2. \A m \in Nat : x <= m * 8 => q <= m
  BY CeilDivLeast
<1> HIDE DEF q
<1>3. Round8(x) = q * 8
  BY DEF Round8, q
<1> QED
  BY <1>1, <1>2, <1>3

\* The same for parts cut at multiples of eight, where a code holds w * 8: the
\* size never comes out larger than a code holds, the last part is not empty,
\* and with at most nine parts it is not too long.
LEMMA CutAtEights ==
  ASSUME NEW len \in Nat \ {0}, NEW w \in Nat \ {0}, len >= w * 8
  PROVE  LET n == CeilDiv(len, w * 8)
             s == Round8(len \div n)
         IN  /\ n \in Nat \ {0} /\ s \in Nat \ {0} /\ s % 8 = 0
             /\ s <= w * 8
             /\ (n - 1) * s < len
             /\ n <= 9 => len - (n - 1) * s <= w * 8
<1> DEFINE d == w * 8
           n == CeilDiv(len, d)
           q == len \div n
           s == Round8(q)
<1>0. d \in Nat \ {0} /\ d <= len /\ d >= 8
  OBVIOUS
<1>d. d = w * 8
  OBVIOUS
<1> HIDE DEF d
<1>1. n \in Nat \ {0} /\ len <= n * d /\ (n - 1) * d < len
  BY <1>0, CeilDivBounds
<1> HIDE DEF n
<1>2. q \in Nat /\ n * q <= len /\ len < n * q + n
  BY <1>1, DivBounds
<1> HIDE DEF q
<1>p. n * q \in Int /\ n * d \in Int /\ (n - 1) * d \in Int /\ (n - 1) * d = n * d - d
  BY <1>0, <1>1, <1>2, MulSucc
\* The parts are not empty: there are fewer of them than characters.
<1>3. q # 0
  <2>1. SUFFICES ASSUME q = 0 PROVE FALSE
    OBVIOUS
  <2>2. len < n
    BY <1>1, <1>2, <2>1
  <2>3. (n - 1) * 1 <= (n - 1) * d
    BY <1>0, <1>1
  <2> QED
    BY <1>0, <1>1, <1>p, <2>2, <2>3
<1>4. q <= d
  <2>1. SUFFICES ASSUME q >= d + 1 PROVE FALSE
    BY <1>0, <1>2
  <2>2. n * (d + 1) <= n * q
    BY <1>0, <1>1, <1>2, <2>1
  <2>3. n * (d + 1) = n * d + n
    BY <1>0, <1>1, MulSucc
  <2> QED
    BY <1>0, <1>1, <1>2, <1>p, <2>2, <2>3
<1>5. s \in Nat \ {0} /\ s % 8 = 0 /\ q <= s /\ s <= d
  BY <1>2, <1>3, <1>4, <1>d, Round8Bounds
<1> HIDE DEF s
<1>6. (n - 1) * s <= (n - 1) * d
  BY <1>0, <1>1, <1>5
<1>7. (n - 1) * s \in Int /\ (n - 1) * q \in Int /\ (n - 1) * q <= (n - 1) * s
       /\ (n - 1) * q = n * q - q
  BY <1>1, <1>2, <1>5, MulSucc
<1>8. (n - 1) * s < len
  BY <1>1, <1>p, <1>6, <1>7
\* What the division leaves is less than n, at most eight, which is the step
\* between a smaller size and the largest one.
<1>9. ASSUME n <= 9 PROVE len - (n - 1) * s <= d
  <2>1. CASE s = d
    BY <1>0, <1>1, <1>5, <1>p, <2>1
  <2>2. CASE s # d
    <3>1. s <= d - 8
      BY <1>d, <1>0, <1>5, <2>2
    <3>2. len - (n - 1) * s <= q + (n - 1)
      BY <1>1, <1>2, <1>p, <1>7
    <3> QED
      BY <1>0, <1>1, <1>2, <1>5, <1>7, <1>9, <3>1, <3>2
  <2> QED
    BY <2>1, <2>2
<1> QED
  BY <1>1, <1>5, <1>8, <1>9 DEF d, n, q, s

----------------------------------------------------------------------------
(* The parts of a code.                                                    *)

\* The room for the payload in a part of a code with so many parts.
Room(c) ==
  IF c.format = "pmofn" /\ NumParts(c) <= 9
    THEN c.cap - PrefixLength1D ELSE c.cap - PrefixLength2D

\* Every code is cut into parts of one size, of which the last is not empty.
\* The parts fit, the last of more than nine BBQR parts excepted.
CutWell(c) ==
  LET n == NumParts(c)
      s == PartSize(c)
  IN  /\ n \in Nat \ {0} /\ s \in Nat \ {0}
      /\ (n - 1) * s < c.len
      /\ c.format = "none" => n = 1
      /\ c.format = "bbqr" => n = 1 \/ s % 8 = 0
      /\ c.format # "none" =>
           /\ n = 1 \/ s <= Room(c)
           /\ c.format = "pmofn" \/ n <= 9 => c.len - (n - 1) * s <= Room(c)

LEMMA PlainCut ==
  ASSUME NEW c \in Codes \cup Others, c.format = "none"
  PROVE  CutWell(c)
<1>1. c.len \in Nat \ {0}
  BY QRAssumption
<1>2. NumParts(c) = 1 /\ PartSize(c) = c.len
  BY DEF NumParts, PartSize
<1> QED
  BY <1>1, <1>2 DEF CutWell

LEMMA PmofnCut ==
  ASSUME NEW c \in Codes \cup Others, c.format = "pmofn"
  PROVE  CutWell(c)
<1> DEFINE d1 == c.cap - PrefixLength1D
           d2 == c.cap - PrefixLength2D
           m == CeilDiv(c.len, d1)
           n == NumParts(c)
           s == PartSize(c)
<1>1. c.len \in Nat \ {0} /\ d1 \in Nat \ {0} /\ d2 \in Nat \ {0} /\ d2 <= d1
  BY QRAssumption DEF PrefixLength1D, PrefixLength2D
<1>2. n = (IF m > 9 THEN CeilDiv(c.len, d2) ELSE m) /\ s = CeilDiv(c.len, n)
  BY DEF NumParts, PmofnNumParts, PartSize
<1>3. Room(c) = IF n <= 9 THEN d1 ELSE d2
  BY DEF Room
<1>4. CASE m > 9
  <2>1. n = CeilDiv(c.len, d2)
    BY <1>2, <1>4
  <2>2. n \in Nat \ {0} /\ s \in Nat \ {0} /\ s <= d2 /\ (n - 1) * s < c.len
         /\ c.len - (n - 1) * s <= s
    BY <1>1, <1>2, <2>1, CutEvenly
  <2> HIDE DEF d1, d2, m, n, s
  <2>3. s <= Room(c) /\ c.len - (n - 1) * s <= Room(c)
    BY <1>1, <1>3, <2>2
  <2> QED
    BY <2>2, <2>3 DEF CutWell, n, s
<1>5. CASE ~(m > 9)
  <2>1. n = CeilDiv(c.len, d1)
    BY <1>2, <1>5
  <2>2. n \in Nat \ {0} /\ s \in Nat \ {0} /\ s <= d1 /\ (n - 1) * s < c.len
         /\ c.len - (n - 1) * s <= s
    BY <1>1, <1>2, <2>1, CutEvenly
  <2>3. n <= 9
    BY <1>1, <2>1, <2>2, <1>5
  <2> HIDE DEF d1, d2, m, n, s
  <2>4. s <= Room(c) /\ c.len - (n - 1) * s <= Room(c)
    BY <1>1, <1>3, <2>2, <2>3
  <2> QED
    BY <2>2, <2>4 DEF CutWell, n, s
<1> QED
  BY <1>4, <1>5

\* The size of a part never comes out too large, so num_parts is never raised.
LEMMA BBQRCut ==
  ASSUME NEW c \in Codes \cup Others, c.format = "bbqr"
  PROVE  CutWell(c)
<1>1. c.len \in Nat \ {0} /\ c.cap \in Nat /\ c.cap > 17
  BY QRAssumption
<1>2. NumParts(c) = BBQRNumParts(c) /\ PartSize(c) = BBQRPartSize(c)
  BY DEF NumParts, PartSize
<1>3. Room(c) = c.cap - 8
  BY DEF Room, PrefixLength2D
<1>4. CASE BBQRSingle(c)
  <2>1. NumParts(c) = 1 /\ PartSize(c) = c.len
    BY <1>2, <1>4 DEF BBQRNumParts, BBQRPartSize
  <2>2. c.len < c.cap - 8
    BY <1>4 DEF BBQRSingle, BBQRPrefixLength
  <2> QED
    BY <1>1, <1>3, <2>1, <2>2 DEF CutWell
<1>5. CASE ~BBQRSingle(c)
  <2> DEFINE w == (c.cap - 8) \div 8
             n == CeilDiv(c.len, w * 8)
             s == Round8(c.len \div n)
  <2>1. w \in Nat \ {0} /\ w * 8 <= c.cap - 8
    BY <1>1
  <2>2. c.len >= w * 8
    BY <1>1, <1>5, <2>1 DEF BBQRSingle, BBQRPrefixLength
  <2>3. BBQRMax(c) = w * 8
    BY DEF BBQRMax, BBQRPrefixLength
  <2> HIDE DEF w
  <2>4. /\ n \in Nat \ {0} /\ s \in Nat \ {0} /\ s % 8 = 0
        /\ s <= w * 8
        /\ (n - 1) * s < c.len
        /\ n <= 9 => c.len - (n - 1) * s <= w * 8
    BY <1>1, <2>1, <2>2, CutAtEights
  <2>5. BBQRNumParts(c) = n
    <3>1. ~(s > w * 8)
      BY <2>1, <2>4
    <3> QED
      BY <1>5, <2>3, <3>1 DEF BBQRNumParts
  <2>6. BBQRPartSize(c) = s
    BY <1>5, <2>5 DEF BBQRPartSize
  <2> HIDE DEF n, s
  <2>7. s <= Room(c) /\ (n <= 9 => c.len - (n - 1) * s <= Room(c))
    BY <1>1, <1>3, <2>1, <2>4
  <2> QED
    BY <1>2, <2>4, <2>5, <2>6, <2>7 DEF CutWell
<1> QED
  BY <1>4, <1>5

LEMMA EveryCodeCutWell ==
  ASSUME NEW c \in Codes \cup Others
  PROVE  CutWell(c)
BY PlainCut, PmofnCut, BBQRCut, QRAssumption DEF Formats

\* Part k of a code: where it begins and ends.
LEMMA FrameParts ==
  ASSUME NEW c, NEW k
  PROVE  /\ Frame(c, k).format = c.format
         /\ Frame(c, k).index = KeyOf(c, k)
         /\ Frame(c, k).total = NumParts(c)
         /\ Frame(c, k).part.code = c
         /\ Frame(c, k).part.from = k * PartSize(c)
         /\ Frame(c, k).part.to =
              IF k = NumParts(c) - 1 THEN c.len ELSE (k + 1) * PartSize(c)
BY DEF Frame

\* A part and its prefix in the code that the screen has room for.
LEMMA FrameFits ==
  ASSUME NEW c \in Codes \cup Others, NEW k \in 0 .. NumParts(c) - 1
  PROVE  LET f == Frame(c, k)
             n == f.part.to - f.part.from
         IN  /\ n > 0
             /\ f.total <= (IF f.format = "bbqr" THEN 9 ELSE 99) /\ f.format # "none"
                  => PrefixLength(f) + n <= c.cap
<1> DEFINE f == Frame(c, k)
           n == f.part.to - f.part.from
           N == NumParts(c)
           s == PartSize(c)
<1>1. c.len \in Nat \ {0} /\ c.cap \in Nat /\ c.cap > 17 /\ c.format \in Formats
  BY QRAssumption
<1>2. /\ N \in Nat \ {0} /\ s \in Nat \ {0}
      /\ (N - 1) * s < c.len
      /\ c.format # "none" =>
           /\ N = 1 \/ s <= Room(c)
           /\ c.format = "pmofn" \/ N <= 9 => c.len - (N - 1) * s <= Room(c)
  BY EveryCodeCutWell DEF CutWell
<1>3. f.format = c.format /\ f.index = KeyOf(c, k) /\ f.total = N
  BY FrameParts
<1>4. n = (IF k = N - 1 THEN c.len ELSE (k + 1) * s) - k * s
  BY FrameParts
<1>k. k \in 0 .. N - 1
  OBVIOUS
<1>r. Room(c) = IF c.format = "pmofn" /\ N <= 9 THEN c.cap - 6 ELSE c.cap - 8
  BY DEF Room, PrefixLength1D, PrefixLength2D
<1> HIDE DEF N, s, f
<1>5. n = IF k = N - 1 THEN c.len - (N - 1) * s ELSE s
  <2>1. (k + 1) * s = k * s + s /\ k * s \in Int
    BY <1>2, <1>k, MulSucc
  <2> QED
    BY <1>1, <1>2, <1>4, <1>k, <2>1
<1> HIDE DEF n
<1>p. (N - 1) * s \in Int
  BY <1>2
<1>6. n \in Int /\ n > 0
  BY <1>1, <1>2, <1>5, <1>p
<1>7. ASSUME N <= (IF c.format = "bbqr" THEN 9 ELSE 99), c.format # "none"
      PROVE  PrefixLength(f) + n <= c.cap
  <2>1. n <= Room(c)
    <3>1. c.format = "pmofn" \/ N <= 9
      BY <1>1, <1>7 DEF Formats
    <3>2. CASE k = N - 1
      BY <1>2, <1>5, <1>7, <3>1, <3>2
    <3>3. CASE k # N - 1
      BY <1>2, <1>5, <1>7, <1>k, <3>3
    <3> QED
      BY <3>2, <3>3
  <2>2. CASE c.format = "bbqr"
    <3>1. PrefixLength(f) = 8
      BY <1>3, <2>2 DEF PrefixLength, BBQRPrefixLength
    <3> QED
      BY <1>1, <1>6, <1>r, <2>1, <2>2, <3>1
  <2>3. CASE c.format = "pmofn"
    <3>1. PrefixLength(f) = 4 + Digits(f.index) + Digits(f.total)
      BY <1>3, <2>3 DEF PrefixLength
    <3>2. f.index \in 1..N /\ f.total = N
      BY <1>2, <1>3, <1>k, <2>3 DEF KeyOf
    <3>3. N <= 99
      BY <1>7, <2>3
    <3>4. /\ Digits(f.index) \in 1..2 /\ Digits(f.total) \in 1..2
          /\ N <= 9 => Digits(f.index) = 1 /\ Digits(f.total) = 1
      BY <1>2, <3>2, <3>3 DEF Digits
    <3> QED
      BY <1>1, <1>2, <1>6, <1>r, <2>1, <2>3, <3>1, <3>4
  <2> QED
    BY <1>1, <1>7, <2>2, <2>3 DEF Formats
<1> QED
  BY <1>3, <1>6, <1>7 DEF f, n

----------------------------------------------------------------------------
(* What is on the screen.                                                  *)

Showing == shown \in Codes \cup Others /\ cursor \in 0 .. NumParts(shown) - 1

LEMMA InitShowing == Init => Showing
<1>1. \A c \in Codes \cup Others : NumParts(c) \in Nat \ {0}
  BY EveryCodeCutWell DEF CutWell
<1> QED
  BY <1>1 DEF Init, Showing

LEMMA NextShowing == Showing /\ [Next]_vars => Showing'
<1> SUFFICES ASSUME Showing, [Next]_vars PROVE Showing'
  OBVIOUS
<1>1. \A c \in Codes \cup Others : NumParts(c) \in Nat \ {0}
  BY EveryCodeCutWell DEF CutWell
<1>2. CASE ShowNext
  BY <1>1, <1>2 DEF Showing, ShowNext
<1>3. CASE ShowOther
  BY <1>1, <1>3 DEF Showing, ShowOther
<1>4. CASE See
  BY <1>4 DEF Showing, See
<1>5. CASE Leave
  BY <1>5 DEF Showing, Leave
<1>6. CASE UNCHANGED vars
  BY <1>6 DEF Showing, vars
<1> QED
  BY <1>2, <1>3, <1>4, <1>5, <1>6 DEF Next

\* No part on the screen is empty, and every part with its prefix fits in the
\* code that the screen has room for, as find_min_num_parts means it to.
THEOREM PartsFitHolds == Spec => []PartsFit
<1>1. Showing => PartsFit
  BY FrameFits DEF Showing, PartsFit
<1> QED
  BY <1>1, InitShowing, NextShowing, PTL DEF Spec

----------------------------------------------------------------------------
(* A capture of one code.                                                  *)

\* part, under number k, is a part of the code on the screen.
IsPart(k, part) ==
  \E j \in 0 .. NumParts(shown) - 1 :
    k = KeyOf(shown, j) /\ part = Frame(shown, j).part

\* As long as no other code was shown, the parser holds parts of the code on
\* the screen, each under its number, and knows the code's format and total.
Collected ==
  /\ switches \in Nat
  /\ switches = 0 =>
       /\ format \in {None, shown.format}
       /\ format # None => total = NumParts(shown)
       /\ \A k \in DOMAIN parts : IsPart(k, parts[k])
       /\ loop = "done" => format # None /\ Cardinality(DOMAIN parts) = total

LEMMA InitCollected == Init => Collected
<1> SUFFICES ASSUME Init PROVE Collected
  OBVIOUS
<1>1. DOMAIN parts = {}
  BY DEF Init
<1>2. switches = 0 /\ format = None /\ loop # "done"
  BY DEF Init
<1> QED
  BY <1>1, <1>2 DEF Collected

\* A part of the code on the screen is put in its place.
LEMMA SeeCollected ==
  ASSUME Showing, Collected, See
  PROVE  Collected'
<1> DEFINE f == Frame(shown, cursor)
           fmt == IF format = None THEN f.format ELSE format
<1>0. shown' = shown /\ switches' = switches /\ loop = "runs"
  BY DEF See
<1>1. SUFFICES ASSUME switches = 0
               PROVE  /\ format' \in {None, shown.format}
                      /\ format' # None => total' = NumParts(shown)
                      /\ \A k \in DOMAIN parts' : IsPart(k, parts'[k])
                      /\ loop' = "done" =>
                           format' # None /\ Cardinality(DOMAIN parts') = total'
  BY <1>0 DEF Collected, IsPart
<1>2. /\ format \in {None, shown.format}
      /\ format # None => total = NumParts(shown)
      /\ \A k \in DOMAIN parts : IsPart(k, parts[k])
  BY <1>1 DEF Collected
<1>3. shown \in Codes \cup Others /\ cursor \in 0 .. NumParts(shown) - 1
  BY DEF Showing
<1>4. /\ f.format = shown.format /\ f.index = KeyOf(shown, cursor)
      /\ f.total = NumParts(shown)
  BY FrameParts
<1>5. shown.format # None /\ (shown.format = "none" => NumParts(shown) = 1)
  BY <1>3, EveryCodeCutWell, QRAssumption DEF CutWell
<1>6. fmt = shown.format /\ format' = shown.format
  BY <1>2, <1>4 DEF See
\* Plain text is filed under number 1, which is that of its only part.
<1>7. IF fmt = "none" THEN KeyOf(shown, cursor) = 1 /\ NumParts(shown) = 1
                      ELSE f.index = KeyOf(shown, cursor)
  BY <1>3, <1>4, <1>5, <1>6 DEF KeyOf
<1>8. parts' = Put(KeyOf(shown, cursor), f.part) /\ total' = NumParts(shown)
  <2>1. /\ parts' = IF fmt = "none" THEN Put(1, f.part) ELSE Put(f.index, f.part)
        /\ total' = IF fmt = "none" THEN 1 ELSE f.total
    BY <1>4, <1>6 DEF See
  <2> QED
    BY <1>4, <1>7, <2>1
<1>9. \A k \in DOMAIN parts' : IsPart(k, parts'[k])
  <2>1. IsPart(KeyOf(shown, cursor), f.part)
    BY <1>3 DEF IsPart
  <2> QED
    BY <1>2, <1>8, <2>1 DEF Put
<1>10. loop' = "done" => Cardinality(DOMAIN parts') = total'
  <2>1. loop' = IF IsComplete(parts', total', fmt) THEN "done" ELSE "runs"
    BY <1>4, <1>6 DEF See
  <2> QED
    BY <2>1 DEF IsComplete
<1> QED
  BY <1>5, <1>6, <1>8, <1>9, <1>10

LEMMA NextCollected == Showing /\ Collected /\ [Next]_vars => Collected'
<1> SUFFICES ASSUME Showing, Collected, [Next]_vars PROVE Collected'
  OBVIOUS
<1>1. CASE ShowNext
  BY <1>1 DEF Collected, IsPart, ShowNext, parser
<1>2. CASE ShowOther
  <2>1. switches' = switches + 1 /\ switches \in Nat
    BY <1>2 DEF ShowOther, Collected
  <2>2. switches' \in Nat /\ switches' # 0
    BY <2>1
  <2> QED
    BY <2>2 DEF Collected
<1>3. CASE See
  BY <1>3, SeeCollected
<1>4. CASE Leave
  BY <1>4 DEF Collected, IsPart, Leave, parser
<1>5. CASE UNCHANGED vars
  BY <1>5 DEF Collected, IsPart, vars, parser
<1> QED
  BY <1>1, <1>2, <1>3, <1>4, <1>5 DEF Next

\* The numbers of a code's parts: as many, without a gap.
LEMMA AllKeys ==
  ASSUME Showing, Collected, loop = "done", switches = 0
  PROVE  LET b == KeyOf(shown, 0)
             n == NumParts(shown)
         IN  /\ n \in Nat \ {0} /\ b \in Nat
             /\ DOMAIN parts = b .. b + n - 1
             /\ Min(DOMAIN parts) = b /\ Max(DOMAIN parts) = b + n - 1
             /\ \A k \in DOMAIN parts : parts[k] = Frame(shown, k - b).part
<1> DEFINE b == KeyOf(shown, 0)
           n == NumParts(shown)
           top == b + n - 1
<1>1. n \in Nat \ {0}
  BY EveryCodeCutWell DEF CutWell, Showing
<1>2. b \in Nat /\ \A j \in 0 .. n - 1 : KeyOf(shown, j) = b + j
  BY <1>1 DEF KeyOf
<1>3. /\ \A k \in DOMAIN parts : IsPart(k, parts[k])
      /\ Cardinality(DOMAIN parts) = n
  BY DEF Collected
<1>4. ASSUME NEW k \in DOMAIN parts
      PROVE  k \in b .. top /\ parts[k] = Frame(shown, k - b).part
  <2>1. PICK j \in 0 .. n - 1 : k = KeyOf(shown, j) /\ parts[k] = Frame(shown, j).part
    BY <1>3 DEF IsPart
  <2>2. k = b + j
    BY <1>2, <2>1
  <2> HIDE DEF b, n
  <2>3. k \in b .. b + n - 1 /\ k - b = j
    BY <1>1, <1>2, <2>2
  <2> QED
    BY <2>1, <2>3
<1> HIDE DEF b, n
<1>5. top \in Int /\ b <= top /\ top - b + 1 = n
  BY <1>1, <1>2
<1>6. IsFiniteSet(b .. top) /\ Cardinality(b .. top) = n
  BY <1>2, <1>5, FS_Interval
<1> HIDE DEF top
<1>7. DOMAIN parts = b .. top
  <2>1. DOMAIN parts \in SUBSET (b .. top)
    BY <1>4
  <2> QED
    BY <1>3, <1>6, <2>1, FS_Subset
<1>8. Min(b .. top) = b /\ Max(b .. top) = top
  <2>1. \A x \in b .. top : (\A y \in b .. top : x <= y) <=> x = b
    BY <1>2, <1>5
  <2>2. \A x \in b .. top : (\A y \in b .. top : x >= y) <=> x = top
    BY <1>2, <1>5
  <2>3. b \in b .. top /\ top \in b .. top
    BY <1>2, <1>5
  <2> QED
    BY <2>1, <2>2, <2>3 DEF Min, Max
<1> QED
  BY <1>1, <1>2, <1>4, <1>7, <1>8 DEF b, n, top

\* A capture during which no other code was shown returns the payload of the
\* code, whatever the camera missed, saw twice or began with: is_complete and
\* the sorted parts of result() are right.
THEOREM CapturesPayloadHolds == Spec => []CapturesPayload
<1>1. Showing /\ Collected => CapturesPayload
  <2> SUFFICES ASSUME Showing, Collected, loop = "done", switches = 0
               PROVE  Joined
    BY DEF CapturesPayload
  <2> DEFINE b == KeyOf(shown, 0)
             n == NumParts(shown)
             s == PartSize(shown)
             last == b + n - 1
  <2>1. /\ n \in Nat \ {0} /\ b \in Nat
        /\ DOMAIN parts = b .. last
        /\ Min(DOMAIN parts) = b /\ Max(DOMAIN parts) = last
        /\ \A k \in DOMAIN parts : parts[k] = Frame(shown, k - b).part
    BY AllKeys
  <2>2. s \in Nat \ {0} /\ (shown.format = "bbqr" => n = 1 \/ s % 8 = 0)
    BY EveryCodeCutWell DEF CutWell, Showing
  <2>3. format = shown.format
    BY DEF Collected
  <2>4. ASSUME NEW k \in DOMAIN parts
        PROVE  /\ parts[k].code = shown
               /\ parts[k].from = (k - b) * s
               /\ parts[k].to = IF k - b = n - 1 THEN shown.len ELSE (k - b + 1) * s
    BY <2>1, FrameParts
  <2> HIDE DEF b, n, s
  <2>5. b \in DOMAIN parts /\ last \in DOMAIN parts /\ last - b = n - 1
    BY <2>1
  <2>6. parts[b].from = 0 /\ parts[last].to = shown.len
    <3>1. (b - b) * s = 0
      BY <2>1, <2>2
    <3> QED
      BY <2>4, <2>5, <3>1
  <2>7. ASSUME NEW k \in DOMAIN parts \ {last}
        PROVE  /\ k + 1 \in DOMAIN parts /\ parts[k].to = parts[k + 1].from
               /\ format = "bbqr" => (parts[k].to - parts[k].from) % 8 = 0
    <3>1. k \in Nat /\ k + 1 \in DOMAIN parts /\ k - b # n - 1 /\ k - b \in Nat
           /\ (k + 1) - b = (k - b) + 1 /\ n # 1
      BY <2>1
    <3>2. /\ parts[k].from = (k - b) * s /\ parts[k].to = ((k - b) + 1) * s
          /\ parts[k + 1].from = ((k - b) + 1) * s
      BY <2>4, <3>1
    <3>3. ((k - b) + 1) * s = (k - b) * s + s /\ (k - b) * s \in Int
      BY <2>2, <3>1, MulSucc
    <3>4. parts[k].to - parts[k].from = s
      BY <2>2, <3>2, <3>3
    <3> QED
      BY <2>2, <2>3, <3>1, <3>2, <3>4
  <2> HIDE DEF last
  <2>8. \A k \in DOMAIN parts : parts[k].code = shown
    BY <2>4
  <2> QED
    BY <2>1, <2>6, <2>7, <2>8 DEF Joined
<1> QED
  BY <1>1, InitShowing, NextShowing, InitCollected, NextCollected, PTL DEF Spec

----------------------------------------------------------------------------
(* Sums.  SumSet is a recursive function over subsets that takes their     *)
(* elements in the order of CHOOSE; what it computes is proved by infinite *)
(* descent on the number of elements.                                      *)

\* A set of naturals that has a smaller element for each element is empty.
LEMMA Descent ==
  ASSUME NEW T \in SUBSET Nat, \A n \in T : \E m \in T : m < n
  PROVE  T = {}
<1>1. SUFFICES ASSUME T # {} PROVE FALSE
  OBVIOUS
<1>2. PICK x \in T : \A y \in T : ~(<<y, x>> \in OpToRel(<, Nat))
  BY <1>1, NatLessThanWellFounded, WFMin
<1>3. \A y \in T : ~(y < x)
  BY <1>2 DEF OpToRel
<1> QED
  BY <1>3

Pick(s) == CHOOSE x \in s : TRUE
Add(it, s) == IF s = {} THEN 0 ELSE Pick(s) + it[s \ {Pick(s)}]

\* it gives the sum of every subset of S.
IsSum(it, S) == it = [s \in SUBSET S |-> Add(it, s)]

LEMMA PickIn == ASSUME NEW s, s # {} PROVE Pick(s) \in s
BY DEF Pick

LEMMA SumSetIs == ASSUME NEW S PROVE SumSet(S) = (CHOOSE it : IsSum(it, S))[S]
BY DEF SumSet, FoldSet, MapThenFoldSet, IsSum, Add, Pick

\* One element fewer.
LEMMA Fewer ==
  ASSUME NEW s, IsFiniteSet(s), NEW x \in s
  PROVE  /\ IsFiniteSet(s \ {x}) /\ Cardinality(s) \in Nat \ {0}
         /\ Cardinality(s \ {x}) = Cardinality(s) - 1 /\ Cardinality(s \ {x}) \in Nat
<1>1. IsFiniteSet(s \ {x}) /\ Cardinality(s \ {x}) = Cardinality(s) - 1
  BY FS_RemoveElement
<1>2. Cardinality(s) \in Nat /\ Cardinality(s \ {x}) \in Nat
  BY <1>1, FS_CardinalityType
<1> QED
  BY <1>1, <1>2

LEMMA SumExists ==
  ASSUME NEW S, IsFiniteSet(S)
  PROVE  \E it : IsSum(it, S)
<1> DEFINE Small(n) == {s \in SUBSET S : Cardinality(s) <= n}
           P(n) == \E g : g = [s \in Small(n) |-> Add(g, s)]
           T == {n \in Nat : ~P(n)}
<1>1. \A s \in SUBSET S :
        IsFiniteSet(s) /\ Cardinality(s) \in Nat /\ Cardinality(s) <= Cardinality(S)
  BY FS_Subset, FS_CardinalityType
<1>2. P(0)
  <2>1. \A s \in Small(0) : s = {}
    BY <1>1, FS_EmptySet
  <2> DEFINE g == [s \in Small(0) |-> 0]
  <2>2. \A s \in Small(0) : Add(g, s) = 0
    BY <2>1 DEF Add
  <2>3. g = [s \in Small(0) |-> Add(g, s)]
    BY <2>2
  <2> QED
    BY <2>3
<1>3. ASSUME NEW n \in Nat \ {0}, P(n - 1) PROVE P(n)
  <2>1. PICK g : g = [s \in Small(n - 1) |-> Add(g, s)]
    BY <1>3
  <2> DEFINE h == [s \in Small(n) |-> Add(g, s)]
  <2>2. ASSUME NEW s \in Small(n) PROVE Add(h, s) = Add(g, s)
    <3>1. CASE s = {}
      BY <3>1 DEF Add
    <3>2. CASE s # {}
      <4> DEFINE t == s \ {Pick(s)}
      <4>1. t \in Small(n - 1)
        <5>1. Cardinality(t) = Cardinality(s) - 1 /\ Cardinality(s) \in Nat
          BY <1>1, <3>2, PickIn, Fewer
        <5>2. t \in SUBSET S /\ Cardinality(s) <= n
          OBVIOUS
        <5>3. Cardinality(t) <= n - 1
          BY <5>1, <5>2
        <5> QED
          BY <5>2, <5>3
      <4>2. t \in Small(n)
        BY <1>1, <4>1
      <4>3. g[t] = Add(g, t)
        BY <2>1, <4>1
      <4>4. h[t] = Add(g, t)
        BY <4>2
      <4> QED
        BY <3>2, <4>3, <4>4 DEF Add
    <3> QED
      BY <3>1, <3>2
  <2>3. h = [s \in Small(n) |-> Add(h, s)]
    BY <2>2
  <2> QED
    BY <2>3
<1> HIDE DEF P
<1>4. T = {}
  <2>1. \A n \in T : n # 0 /\ n - 1 \in T /\ n - 1 < n
    BY <1>2, <1>3
  <2>2. T \in SUBSET Nat
    OBVIOUS
  <2> HIDE DEF T
  <2> QED
    BY <2>1, <2>2, Descent
<1>5. P(Cardinality(S))
  BY <1>1, <1>4
<1>6. Small(Cardinality(S)) = SUBSET S
  BY <1>1
<1> QED
  BY <1>5, <1>6 DEF P, IsSum

LEMMA SumApply ==
  ASSUME NEW S, NEW it, IsSum(it, S), NEW s \in SUBSET S
  PROVE  it[s] = Add(it, s)
BY DEF IsSum

\* Every two of them agree.
LEMMA SumAgree ==
  ASSUME NEW S, NEW U, IsFiniteSet(S), NEW it, IsSum(it, S), NEW iu, IsSum(iu, U)
  PROVE  \A s \in SUBSET S : s \in SUBSET U => it[s] = iu[s]
<1> DEFINE Bad(n) == \E s \in SUBSET S :
                       s \in SUBSET U /\ Cardinality(s) = n /\ it[s] # iu[s]
           T == {n \in Nat : Bad(n)}
<1>1. \A s \in SUBSET S : IsFiniteSet(s) /\ Cardinality(s) \in Nat
  BY FS_Subset, FS_CardinalityType
<1>2. ASSUME NEW n \in T PROVE \E m \in T : m < n
  <2>1. PICK s \in SUBSET S : s \in SUBSET U /\ Cardinality(s) = n /\ it[s] # iu[s]
    OBVIOUS
  <2>2. it[s] = Add(it, s) /\ iu[s] = Add(iu, s)
    BY <2>1, SumApply
  <2>3. s # {}
    BY <2>1, <2>2 DEF Add
  <2> DEFINE t == s \ {Pick(s)}
  <2>4. t \in SUBSET S /\ t \in SUBSET U
    BY <2>1
  <2>5. it[t] # iu[t]
    BY <2>1, <2>2, <2>3 DEF Add
  <2>6. Cardinality(t) = n - 1 /\ Cardinality(t) \in Nat
    BY <1>1, <2>1, <2>3, PickIn, Fewer
  <2>7. n - 1 \in T
    BY <2>4, <2>5, <2>6
  <2> QED
    BY <2>7
<1>3. T = {}
  <2> HIDE DEF T
  <2>1. T \in SUBSET Nat
    BY DEF T
  <2> QED
    BY <1>2, <2>1, Descent
<1> QED
  BY <1>1, <1>3

\* SumSet adds the elements one by one.
LEMMA SumStep ==
  ASSUME NEW S, IsFiniteSet(S)
  PROVE  SumSet(S) = IF S = {} THEN 0 ELSE Pick(S) + SumSet(S \ {Pick(S)})
<1> DEFINE it == CHOOSE i : IsSum(i, S)
           R == S \ {Pick(S)}
           ir == CHOOSE i : IsSum(i, R)
<1>1. IsSum(it, S) /\ SumSet(S) = it[S]
  BY SumExists, SumSetIs
<1>2. IsFiniteSet(R)
  BY FS_Subset
<1>3. IsSum(ir, R) /\ SumSet(R) = ir[R]
  BY <1>2, SumExists, SumSetIs
<1> HIDE DEF it, ir
<1>4. it[S] = Add(it, S)
  BY <1>1, SumApply
<1>5. it[R] = ir[R]
  BY <1>1, <1>3, SumAgree
<1> QED
  BY <1>1, <1>3, <1>4, <1>5 DEF Add

LEMMA SumInt ==
  ASSUME NEW S \in SUBSET Int, IsFiniteSet(S)
  PROVE  SumSet(S) \in Int
<1> DEFINE Bad(n) == \E s \in SUBSET S : Cardinality(s) = n /\ SumSet(s) \notin Int
           T == {n \in Nat : Bad(n)}
<1>1. \A s \in SUBSET S : IsFiniteSet(s) /\ Cardinality(s) \in Nat
  BY FS_Subset, FS_CardinalityType
<1>2. ASSUME NEW n \in T PROVE \E m \in T : m < n
  <2>1. PICK s \in SUBSET S : Cardinality(s) = n /\ SumSet(s) \notin Int
    OBVIOUS
  <2> DEFINE t == s \ {Pick(s)}
  <2>2. SumSet(s) = IF s = {} THEN 0 ELSE Pick(s) + SumSet(t)
    BY <1>1, SumStep
  <2>3. s # {}
    BY <2>1, <2>2
  <2>4. Pick(s) \in Int
    BY <2>3, PickIn
  <2>5. t \in SUBSET S /\ SumSet(t) \notin Int
    <3>1. t \in SUBSET S
      OBVIOUS
    <3>2. SumSet(s) = Pick(s) + SumSet(t)
      BY <2>2, <2>3
    <3> HIDE DEF t
    <3>3. SumSet(t) \in Int => SumSet(s) \in Int
      BY <2>4, <3>2
    <3> QED
      BY <2>1, <3>1, <3>3
  <2>6. Cardinality(t) = n - 1 /\ Cardinality(t) \in Nat
    BY <1>1, <2>1, <2>3, PickIn, Fewer
  <2>7. n - 1 \in T
    BY <2>5, <2>6
  <2> QED
    BY <2>7
<1>3. T = {}
  <2> HIDE DEF T
  <2>1. T \in SUBSET Nat
    BY DEF T
  <2> QED
    BY <1>2, <2>1, Descent
<1> QED
  BY <1>1, <1>3

\* The order does not matter: any element may be taken first.
LEMMA SumRemove ==
  ASSUME NEW S \in SUBSET Int, IsFiniteSet(S), NEW z \in S
  PROVE  SumSet(S) = z + SumSet(S \ {z})
<1> DEFINE Good(s, y) == SumSet(s) = y + SumSet(s \ {y})
           Bad(n) == \E s \in SUBSET S : Cardinality(s) = n /\ \E y \in s : ~Good(s, y)
           T == {n \in Nat : Bad(n)}
<1>1. \A s \in SUBSET S : IsFiniteSet(s) /\ Cardinality(s) \in Nat
  BY FS_Subset, FS_CardinalityType
<1>2. ASSUME NEW n \in T PROVE \E m \in T : m < n
  <2>1. PICK s \in SUBSET S : Cardinality(s) = n /\ \E y \in s : ~Good(s, y)
    OBVIOUS
  <2>2. PICK y \in s : ~Good(s, y)
    BY <2>1
  <2> DEFINE x == Pick(s)
             u == (s \ {x}) \ {y}
  <2>3. x \in s
    BY PickIn
  <2>4. Good(s, x)
    BY <1>1, SumStep
  <2>5. x # y
    BY <2>2, <2>4
  <2>6. n - 1 \in Nat /\ Cardinality(s \ {x}) = n - 1 /\ Cardinality(s \ {y}) = n - 1
    BY <1>1, <2>1, <2>3, Fewer
  <2>7. SUFFICES ASSUME n - 1 \notin T PROVE FALSE
    BY <2>6
  <2> HIDE DEF x
  <2>8. ~Bad(n - 1)
    BY <2>6, <2>7
  <2>9. Good(s \ {x}, y) /\ Good(s \ {y}, x)
    <3>1. s \ {x} \in SUBSET S /\ s \ {y} \in SUBSET S /\ y \in s \ {x} /\ x \in s \ {y}
      BY <2>3, <2>5
    <3> HIDE DEF Good
    <3> QED
      BY <2>6, <2>8, <3>1
  <2>10. (s \ {y}) \ {x} = u
    OBVIOUS
  <2>11. /\ SumSet(s) = x + SumSet(s \ {x})
         /\ SumSet(s \ {x}) = y + SumSet(u)
         /\ SumSet(s \ {y}) = x + SumSet(u)
         /\ ~(SumSet(s) = y + SumSet(s \ {y}))
    BY <2>2, <2>4, <2>9, <2>10
  <2>12. x \in Int /\ y \in Int /\ SumSet(u) \in Int
    BY <1>1, <2>3, SumInt
  <2> QED
    BY <2>11, <2>12
<1>3. T = {}
  <2> HIDE DEF T
  <2>1. T \in SUBSET Nat
    BY DEF T
  <2> QED
    BY <1>2, <2>1, Descent
<1>4. Cardinality(S) \in Nat /\ Cardinality(S) \notin T
  BY <1>1, <1>3
<1>5. ~Bad(Cardinality(S))
  BY <1>4
<1> QED
  BY <1>5

\* Of all sets of n numbers from b on, the first n have the least sum, and they
\* alone have it.
Least(b, A) ==
  LET I == b .. b + Cardinality(A) - 1
  IN  SumSet(A) >= SumSet(I) /\ (SumSet(A) = SumSet(I) => A = I)

LEMMA SumLeast ==
  ASSUME NEW b \in Nat, NEW S \in SUBSET Nat, IsFiniteSet(S), \A k \in S : k >= b
  PROVE  Least(b, S)
<1> DEFINE Bad(n) == \E A \in SUBSET S : Cardinality(A) = n /\ ~Least(b, A)
           T == {n \in Nat : Bad(n)}
<1>1. \A A \in SUBSET S : IsFiniteSet(A) /\ Cardinality(A) \in Nat
  BY FS_Subset, FS_CardinalityType
<1>i. ASSUME NEW n \in Nat
      PROVE  /\ IsFiniteSet(b .. b + n - 1) /\ b .. b + n - 1 \in SUBSET Int
             /\ Cardinality(b .. b + n - 1) = n /\ SumSet(b .. b + n - 1) \in Int
  <2>1. b + n - 1 \in Int /\ (b > b + n - 1 <=> n = 0) /\ b + n - 1 - b + 1 = n
    OBVIOUS
  <2>2. IsFiniteSet(b .. b + n - 1) /\ Cardinality(b .. b + n - 1) = n
    BY <2>1, FS_Interval
  <2>3. b .. b + n - 1 \in SUBSET Int
    OBVIOUS
  <2> QED
    BY <2>2, <2>3, SumInt
<1>2. ASSUME NEW n \in T PROVE \E m \in T : m < n
  <2>1. PICK A \in SUBSET S : Cardinality(A) = n /\ ~Least(b, A)
    OBVIOUS
  <2> DEFINE top == b + n - 1
             I == b .. top
  <2>2. ~(A \subseteq I)
    <3>1. SUFFICES ASSUME A \subseteq I PROVE FALSE
      OBVIOUS
    <3>2. A = I
      BY <1>i, <2>1, <3>1, FS_Subset
    <3>3. Least(b, A)
      BY <1>i, <2>1, <3>2 DEF Least
    <3> QED
      BY <2>1, <3>3
  <2>3. PICK y \in A : y \notin I
    BY <2>2
  <2>4. y \in Nat /\ y > top /\ top \in Int
    BY <2>3
  <2> DEFINE A1 == A \ {y}
             I1 == b .. b + (n - 1) - 1
  <2>5. IsFiniteSet(A1) /\ Cardinality(A1) = n - 1 /\ n - 1 \in Nat
    BY <1>1, <2>1, Fewer
  <2>6. SUFFICES ASSUME n - 1 \notin T PROVE FALSE
    BY <2>5
  <2>7. Least(b, A1)
    BY <2>5, <2>6
  <2>8. SumSet(A1) >= SumSet(I1)
    BY <2>5, <2>7 DEF Least
  <2>9. SumSet(A) = y + SumSet(A1) /\ SumSet(A1) \in Int
    BY <1>1, <2>5, SumRemove, SumInt
  <2>10. SumSet(I) = top + SumSet(I1)
    <3>1. I \ {top} = I1 /\ top \in I
      BY <2>5
    <3> QED
      BY <1>i, <3>1, SumRemove
  <2>11. SumSet(I1) \in Int
    BY <1>i, <2>5
  <2>12. SumSet(A) > SumSet(I) /\ SumSet(A) \in Int /\ SumSet(I) \in Int
    <3> HIDE DEF A1, I1, I, top
    <3> QED
      BY <2>4, <2>8, <2>9, <2>10, <2>11
  <2>13. Least(b, A)
    <3>1. I = b .. b + Cardinality(A) - 1
      BY <2>1
    <3> HIDE DEF I
    <3> QED
      BY <2>12, <3>1 DEF Least
  <2> QED
    BY <2>1, <2>13
<1>3. T = {}
  <2> HIDE DEF T
  <2>1. T \in SUBSET Nat
    BY DEF T
  <2> QED
    BY <1>2, <2>1, Descent
<1> QED
  BY <1>1, <1>3

----------------------------------------------------------------------------
(* A capture during which other codes may be shown.                        *)

\* The number of a format's first part.
FirstKey(fmt) == IF fmt = "bbqr" THEN 0 ELSE 1

\* The parser holds finitely many parts, whose numbers are not below the first
\* one of its format, and the loop ends only by is_complete.
Numbered ==
  /\ IsFiniteSet(DOMAIN parts)
  /\ \A k \in DOMAIN parts : k \in Nat /\ k >= FirstKey(format)
  /\ format = None => DOMAIN parts = {}
  /\ loop = "done" => IsComplete(parts, total, format)

LEMMA InitNumbered == Init => Numbered
<1> SUFFICES ASSUME Init PROVE Numbered
  OBVIOUS
<1>1. DOMAIN parts = {} /\ loop # "done"
  BY DEF Init
<1>2. IsFiniteSet({})
  BY FS_EmptySet
<1> QED
  BY <1>1, <1>2 DEF Numbered

LEMMA SeeNumbered ==
  ASSUME Showing, Numbered, See
  PROVE  Numbered'
<1> DEFINE f == Frame(shown, cursor)
           fmt == IF format = None THEN f.format ELSE format
           index == IF fmt = "none" THEN 1 ELSE f.index
<1>1. /\ loop = "runs" /\ format' = fmt
      /\ IF fmt = "none" \/ f.format = fmt
         THEN /\ parts' = Put(index, f.part)
              /\ loop' = IF IsComplete(parts', total', fmt) THEN "done" ELSE "runs"
         ELSE loop' = "raised" /\ UNCHANGED <<parts, total>>
  BY DEF See
<1>2. f.format = shown.format /\ f.index = KeyOf(shown, cursor) /\ shown.format # None
  BY FrameParts, QRAssumption DEF Showing
<1>3. cursor \in Nat
  BY EveryCodeCutWell DEF Showing, CutWell
<1>4. /\ IsFiniteSet(DOMAIN parts) /\ (format = None => DOMAIN parts = {})
      /\ \A k \in DOMAIN parts : k \in Nat /\ k >= FirstKey(format)
  BY DEF Numbered
<1>5. fmt # None
  BY <1>2
<1>6. CASE fmt = "none" \/ f.format = fmt
  <2>1. index \in Nat /\ index >= FirstKey(fmt)
    BY <1>2, <1>3, <1>6 DEF KeyOf, FirstKey
  <2>2. DOMAIN parts' = DOMAIN parts \cup {index}
    BY <1>1, <1>6 DEF Put
  <2>3. IsFiniteSet(DOMAIN parts')
    <3> HIDE DEF index
    <3>1. IsFiniteSet(DOMAIN parts \cup {index})
      BY <1>4, FS_AddElement
    <3> QED
      BY <2>2, <3>1
  <2>4. \A k \in DOMAIN parts' : k \in Nat /\ k >= FirstKey(fmt)
    BY <1>4, <2>1, <2>2
  <2>5. loop' = "done" => IsComplete(parts', total', format')
    BY <1>1, <1>6
  <2> HIDE DEF fmt, index, f
  <2> QED
    BY <1>1, <1>5, <2>3, <2>4, <2>5 DEF Numbered
<1>7. CASE ~(fmt = "none" \/ f.format = fmt)
  <2>1. format' = format /\ parts' = parts /\ loop' = "raised"
    BY <1>1, <1>7
  <2> QED
    BY <1>4, <2>1 DEF Numbered
<1> QED
  BY <1>6, <1>7

LEMMA NextNumbered == Showing /\ Numbered /\ [Next]_vars => Numbered'
<1> SUFFICES ASSUME Showing, Numbered, [Next]_vars PROVE Numbered'
  OBVIOUS
<1>1. CASE See
  BY <1>1, SeeNumbered
<1>2. CASE ~See
  <2>1. UNCHANGED parser /\ (loop' = loop \/ loop' = "left")
    BY <1>2 DEF Next, ShowNext, ShowOther, Leave, vars
  <2> QED
    BY <2>1 DEF Numbered, parser
<1> QED
  BY <1>1, <1>2

\* A capture that ends holds every part, whatever codes were shown during it:
\* the count and the sum that is_complete compares leave no other numbers.
THEOREM CompleteHasAllHolds == Spec => []CompleteHasAll
<1>1. Numbered => CompleteHasAll
  <2> SUFFICES ASSUME Numbered, loop = "done"
               PROVE  DOMAIN parts = IF format = "bbqr" THEN 0 .. total - 1 ELSE 1..total
    BY DEF CompleteHasAll
  <2> DEFINE b == FirstKey(format)
             K == DOMAIN parts
  <2>1. /\ Cardinality(K) = total
        /\ SumSet(K) = SumSet(IF format = "bbqr" THEN 0 .. total - 1 ELSE 1..total)
    BY DEF Numbered, IsComplete
  <2>2. IsFiniteSet(K) /\ K \in SUBSET Nat /\ \A k \in K : k >= b
    BY DEF Numbered
  <2>3. b \in Nat /\ total \in Nat
    BY <2>1, <2>2, FS_CardinalityType DEF FirstKey
  <2>4. b .. b + total - 1 = IF format = "bbqr" THEN 0 .. total - 1 ELSE 1..total
    <3>1. 0 + total - 1 = total - 1 /\ 1 + total - 1 = total
      BY <2>3
    <3> QED
      BY <3>1 DEF FirstKey
  <2>5. Least(b, K)
    BY <2>2, <2>3, SumLeast
  <2> QED
    BY <2>1, <2>4, <2>5 DEF Least
<1> QED
  BY <1>1, InitShowing, NextShowing, InitNumbered, NextNumbered, PTL DEF Spec
=============================================================================
