-------------------------- MODULE MCStreamBilling --------------------------
(* Small instances of StreamBilling for TLC.                               *)
EXTENDS StreamBilling, TLC

Symmetry == Permutations(Workers)
=============================================================================
