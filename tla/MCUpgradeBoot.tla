---------------------------- MODULE MCUpgradeBoot ---------------------------
(***************************************************************************)
(* Sectors with no entry, an entry for each slot in either order, inactive *)
(* ones, entries out of range or too large, and the default address;       *)
(* flashes in which each application is good, bad, of another size than    *)
(* its entry says, or absent.  Chunks of four bytes, a header of one and a *)
(* hash of two: files that end in the first, second and third chunk, with  *)
(* the hash whole or cut by a chunk's end, one of them too small for       *)
(* Kboot.                                                                  *)
(***************************************************************************)
EXTENDS UpgradeBoot

Entry(active, a, n, sized, check) ==
  [active |-> active, addr |-> a, size |-> n, sized |-> sized, check |-> check]
Blk(n, sha, crc) == [key |-> n # 0, size |-> n, sha |-> sha, crc |-> crc]

MCAddresses == {"slot1", "slot2", "default", "out"}
Slot1 == Entry(TRUE, "slot1", 2, FALSE, "sha")
Slot2 == Entry(TRUE, "slot2", 3, TRUE, "sha")
Spare == Entry(FALSE, "slot2", 2, FALSE, "crc")
MCSectors ==
  {<<None>>, <<Slot1>>, <<Slot2, Slot1>>, <<Spare, Slot1>>,
   <<Entry(TRUE, "out", 2, TRUE, "none"), Slot2>>,
   <<Entry(TRUE, "slot1", 10, FALSE, "none"), Spare>>,
   <<Entry(TRUE, "default", 2, FALSE, "sha"), Slot1>>}
MCFlashes ==
  {[slot1 |-> a, slot2 |-> b, default |-> d, out |-> Blk(0, FALSE, FALSE)] :
     a \in {Blk(2, TRUE, TRUE), Blk(2, FALSE, FALSE)},
     b \in {Blk(3, TRUE, TRUE), Blk(2, TRUE, TRUE), Blk(0, FALSE, FALSE)},
     d \in {Blk(2, TRUE, TRUE), Blk(0, FALSE, FALSE)}}
=============================================================================
