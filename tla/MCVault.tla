------------------------------ MODULE MCVault ------------------------------
(* The vault on small instances: two passphrases, two texts, ids up to 2 or *)
(* 3.  Passphrases and texts are interchangeable.                           *)
EXTENDS Vault, TLC

Symmetric == Permutations(Passphrases) \cup Permutations(Texts)
=============================================================================
