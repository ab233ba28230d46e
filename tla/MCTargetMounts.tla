--------------------------- MODULE MCTargetMounts ---------------------------
(* Model constants for TargetMounts.                                       *)
EXTENDS TargetMounts

OneDisk == {"sda"}
TwoDisks == {"sda", "sdb"}
=============================================================================
