----------------------------- MODULE BootChoice -----------------------------
(***************************************************************************)
(* What Kboot promises: the first good active application of the main      *)
(* sector, or of the backup one when the main one has none, or the default *)
(* application when neither has; nothing that fails its checks.  With the  *)
(* console, any good application of that sector, or the default one.       *)
(***************************************************************************)
EXTENDS Integers, Sequences

CONSTANTS MinSize, MaxSize, Default, OutOfRange, None
VARIABLES main, backup, apps, quiet, outcome

Good(e) ==
  /\ e # None
  /\ e.addr # OutOfRange /\ e.size \in MinSize..MaxSize
  /\ apps[e.addr].key
  /\ e.sized => e.size = apps[e.addr].size
  /\ e.check = "sha" => apps[e.addr].sha
  /\ e.check = "crc" => apps[e.addr].crc

GoodOnes(s) == {i \in 1..Len(s) : Good(s[i])}
ActiveOnes(s) == {i \in GoodOnes(s) : s[i].active}

First(s, is) == s[CHOOSE i \in is : \A j \in is : i <= j].addr

\* The default application stands or falls with its own hash.
OrDefault(a) ==
  IF a # Default THEN a
  ELSE IF apps[Default].size \in MinSize..MaxSize /\ apps[Default].sha
       THEN Default ELSE "halt"

Automatic ==
  IF ActiveOnes(main) # {} THEN First(main, ActiveOnes(main))
  ELSE IF ActiveOnes(backup) # {} THEN First(backup, ActiveOnes(backup))
  ELSE Default

\* With the boot pin low inactive applications are checked too.
Interactive ==
  LET s == IF GoodOnes(main) # {} THEN main ELSE backup
  IN  {Default} \cup {s[i].addr : i \in GoodOnes(s)}

\* An upgrade may come first.
Init == outcome \in {"off", None}

PowerOn == outcome = "off" /\ outcome' = None /\ UNCHANGED quiet

Boot ==
  /\ outcome = None
  /\ \E a \in {Automatic} \cup (IF quiet THEN {} ELSE Interactive) :
       outcome' = OrDefault(a)
  /\ UNCHANGED <<main, backup, apps, quiet>>

Spec == Init /\ [][PowerOn \/ Boot]_<<main, backup, apps, quiet, outcome>>
=============================================================================
