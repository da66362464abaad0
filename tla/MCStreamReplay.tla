--------------------------- MODULE MCStreamReplay ---------------------------
(* Small instances of StreamReplay for TLC.                                *)
EXTENDS StreamReplay, TLC
=============================================================================
