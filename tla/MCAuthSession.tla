---------------------------- MODULE MCAuthSession ----------------------------
(* Small instances of AuthSession for TLC.                                 *)
EXTENDS AuthSession, TLC

Symmetry == Permutations(Tabs) \cup Permutations(Sids)
=============================================================================
