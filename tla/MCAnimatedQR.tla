---------------------------- MODULE MCAnimatedQR ----------------------------
EXTENDS AnimatedQR

\* One, three and four parts of each format; two codes with the same number of
\* parts.
MCCodes ==
  {[format |-> "none", len |-> 5, cap |-> 32]}
  \cup [format : {"pmofn"}, len : {20, 77, 78, 79}, cap : {32}]
  \cup [format : {"bbqr"}, len : {38, 39, 96, 97}, cap : {47}]

\* Every length up to fifteen or so parts, for capacities of small screens.
MCOthers ==
  [format : {"pmofn"}, len : 1..400, cap : {32, 53}]
  \cup [format : {"bbqr"}, len : 1..400, cap : {25, 47, 48}]
=============================================================================
