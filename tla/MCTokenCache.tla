---------------------------- MODULE MCTokenCache ----------------------------
(* Small instances of TokenCache for TLC.                                  *)
EXTENDS TokenCache, TLC

\* Redis loses the generation, or a mutation is rolled back.
MCFaultSets ==
    {{"crash", "uncertain", "flush", "evict", "invalidate"},
     {"crash", "uncertain", "fail", "invalidate"}}

\* Both.
MCLostRollback == {{"fail", "flush"}}
=============================================================================
