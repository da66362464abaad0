------------------------- MODULE TokenCache_proofs -------------------------
(***************************************************************************)
(* Proofs about TokenCache, for any number of mutations, lookups and       *)
(* faults: the inductive invariant, and that a lookup behind the cache is  *)
(* one of TokenRegister.                                                   *)
(***************************************************************************)
EXTENDS TokenCache, TLAPS

\* No behaviour both loses the generation and rolls a mutation back.
Survives == \A F \in FaultSets : Survivable(F)

Inv == TypeOK /\ CacheInv

\* The parts of the invariant that are not about lookups.
KeptInv ==
    /\ HashIsCurrent /\ Parity /\ MutationFenced /\ RollbackSafe
    /\ \A w \in Writers : WriterFinalises(w)

USE ActorsAssumption, BoundsAssumption
    DEF redis, wvars, locals, rvars, fvars, dbvars, Absent, Deleted, NoHash

-----------------------------------------------------------------------------
(* Facts about parity, types and steps that change little.                 *)

LEMMA OddFacts ==
    /\ ~Odd(0)
    /\ \A n \in Int : /\ Odd(n) <=> ~Odd(n + 1)
                      /\ Odd(n) <=> ~Odd(n - 1)
                      /\ Odd(n) <=> Odd(n + 2)
    /\ \A m, n \in Int : ~Odd(m) /\ ~Odd(n) /\ m <= n + 1 => m <= n
BY DEF Odd

LEMMA DoneTypes ==
    ASSUME WriterTypes, NEW w \in Writers, Done(w)
    PROVE  WriterTypes'
BY DEF WriterTypes, Done

LEMMA EndsTypes ==
    ASSUME ReaderTypes, NEW r \in Readers, Ends(r), got' \in [Readers -> Nat \cup {Deleted}]
    PROVE  ReaderTypes'
<1>1. rpc' \in [Readers -> {"idle", "before", "hash", "after", "load", "db", "finish",
                            "lock", "recover", "refinish", "restore", "init"}]
    BY DEF ReaderTypes, Ends, Goto
<1>2. rgen' \in [Readers -> Nat] /\ tries' \in [Readers -> 1..MaxTries]
    BY DEF ReaderTypes, Ends
<1>3. copy' \in [Readers -> [gen : Nat \cup {Absent}, ver : Nat \cup {Deleted}]]
    BY DEF ReaderTypes, Ends
<1>4. seen' \in [Readers -> SUBSET (Nat \cup {Deleted})]
    BY DEF ReaderTypes, Ends
<1> QED
    BY <1>1, <1>2, <1>3, <1>4 DEF ReaderTypes

LEMMA FailsTypes ==
    ASSUME ReaderTypes, NEW r \in Readers, Fails(r)
    PROVE  ReaderTypes'
BY EndsTypes DEF Fails, ReaderTypes

LEMMA ReturnsTypes ==
    ASSUME ReaderTypes, NEW r \in Readers, NEW v \in Nat \cup {Deleted}, Returns(r, v)
    PROVE  ReaderTypes'
<1>1. got' \in [Readers -> Nat \cup {Deleted}]
    BY DEF Returns, ReaderTypes
<1> QED
    BY <1>1, EndsTypes DEF Returns

LEMMA ContinuesTypes ==
    ASSUME ReaderTypes, NEW r \in Readers,
           NEW l \in {"before", "hash", "after", "load", "db", "finish",
                      "lock", "recover", "refinish", "restore", "init"},
           Continues(r, l), rgen' \in [Readers -> Nat],
           copy' \in [Readers -> [gen : Nat \cup {Absent}, ver : Nat \cup {Deleted}]],
           tries' \in [Readers -> 1..MaxTries]
    PROVE  ReaderTypes'
BY DEF ReaderTypes, Continues, Goto

LEMMA AgainTypes ==
    ASSUME ReaderTypes, NEW r \in Readers, NEW l \in {"load", "recover"}, Again(r, l)
    PROVE  ReaderTypes'
<1>1. CASE tries[r] > 1
    <2>1. tries' \in [Readers -> 1..MaxTries]
        BY <1>1 DEF Again, ReaderTypes
    <2> QED
        BY <1>1, <2>1, ContinuesTypes DEF Again, ReaderTypes
<1>2. CASE ~(tries[r] > 1)
    BY <1>2, FailsTypes DEF Again
<1> QED
    BY <1>1, <1>2

LEMMA MissesTypes ==
    ASSUME ReaderTypes, NEW r \in Readers, Misses(r)
    PROVE  ReaderTypes'
<1>1. CASE rowLock = r
    BY <1>1, FailsTypes DEF Misses
<1>2. CASE rowLock # r
    BY <1>2, ContinuesTypes DEF Misses, ReaderTypes
<1> QED
    BY <1>1, <1>2

LEMMA HoldingTypes ==
    ASSUME ReaderTypes, StoreTypes, NEW r \in Readers,
           NEW l \in {"finish", "refinish", "restore", "init"},
           Holding(r, l), rgen' \in [Readers -> Nat]
    PROVE  ReaderTypes'
<1>1. copy' \in [Readers -> [gen : Nat \cup {Absent}, ver : Nat \cup {Deleted}]]
    BY DEF Holding, ReaderTypes, StoreTypes
<1> QED
    BY <1>1, ContinuesTypes DEF Holding, ReaderTypes

LEMMA StoreKept ==
    ASSUME CacheInv, UNCHANGED <<dbvars, redis, wvars, fvars>>
    PROVE  KeptInv'
BY DEF KeptInv, CacheInv, HashIsCurrent, Parity, MutationFenced, RollbackSafe, Trustable,
    Lossless, InFlight, Generation, WriterFinalises, Finaliser, Committed

LEMMA ReaderKept ==
    ASSUME CacheInv, UNCHANGED <<dbvars, redis>>, NEW q \in Readers,
           UNCHANGED <<rpc[q], rgen[q], copy[q], seen[q]>>, rowLock = q => rowLock' = q
    PROVE  ReaderInv(q)'
BY DEF CacheInv, ReaderInv, ReaderLocks, ReaderFinalises, Observes, Finaliser

-----------------------------------------------------------------------------
(* mutateTokenMetadata.                                                    *)

LEMMA LockRowStep ==
    ASSUME Survives, Inv, NEW w \in Writers, LockRow(w)
    PROVE  Inv'
<1> USE DEF Inv, TypeOK, CacheInv, ReaderInv, LockRow, Done, Unlocked
<1>1. StoreTypes'
    BY DEF StoreTypes
<1>2. WriterTypes'
    BY DEF WriterTypes
<1>3. ReaderTypes'
    BY DEF ReaderTypes
<1>4. FaultTypes'
    BY DEF FaultTypes
<1>5. HashIsCurrent'
    BY DEF HashIsCurrent, Trustable
<1>6. Parity'
    <2>1. CASE row = Deleted
        BY <2>1 DEF Parity, WriterTypes
    <2>2. CASE row # Deleted
        BY <2>2 DEF Parity, WriterTypes
    <2> QED
        BY <2>1, <2>2
<1>7. Locking'
    <2>1. CASE row = Deleted
        BY <2>1 DEF Locking, StoreTypes, WriterTypes
    <2>2. CASE row # Deleted
        BY <2>2 DEF Locking, StoreTypes, WriterTypes
    <2> QED
        BY <2>1, <2>2
<1>8. MutationFenced'
    BY DEF MutationFenced, WriterTypes, Trustable
<1>9. RollbackSafe'
    <2>1. CASE row = Deleted
        BY <2>1 DEF RollbackSafe, WriterTypes, Lossless, InFlight, Generation
    <2>2. CASE row # Deleted
        BY <2>2 DEF RollbackSafe, WriterTypes, Lossless, InFlight, Generation
    <2> QED
        BY <2>1, <2>2
<1>10. ASSUME NEW v \in Writers PROVE WriterFinalises(v)'
    BY DEF WriterFinalises, WriterTypes, Finaliser, Committed
<1>11. ASSUME NEW q \in Readers PROVE ReaderInv(q)'
    <2>1. ReaderLocks(q)'
        BY DEF ReaderLocks
    <2>2. ReaderFinalises(q)'
        BY DEF ReaderFinalises, Finaliser
    <2>3. Observes(q)'
        BY DEF Observes
    <2> QED
        BY <2>1, <2>2, <2>3
<1> QED
    BY <1>1, <1>2, <1>3, <1>4, <1>5, <1>6, <1>7, <1>8, <1>9, <1>10, <1>11

LEMMA BeginMutationStep ==
    ASSUME Survives, Inv, NEW w \in Writers, BeginMutation(w)
    PROVE  Inv'
<1> USE DEF Inv, TypeOK, CacheInv, ReaderInv, BeginMutation, Generation, Pending,
    Done, Fence, NextGeneration, Unlocked, Larger
<1>1. StoreTypes'
    BY DEF StoreTypes
<1>2. WriterTypes'
    BY DEF WriterTypes, StoreTypes
<1>3. ReaderTypes'
    BY DEF ReaderTypes
<1>4. FaultTypes'
    BY DEF FaultTypes
<1>5. HashIsCurrent'
    BY OddFacts DEF HashIsCurrent, StoreTypes, Parity, Trustable
<1>6. Parity'
    <2>1. CASE Odd(Generation) \/ Pending
        BY <2>1 DEF Parity, WriterTypes
    <2>2. CASE ~(Odd(Generation) \/ Pending)
        BY <2>2, OddFacts DEF Parity, StoreTypes, WriterTypes, Locking
    <2> QED
        BY <2>1, <2>2
<1>7. Locking'
    BY DEF Locking, WriterTypes
<1>8. MutationFenced'
    <2>1. CASE Odd(Generation) \/ Pending
        BY <2>1 DEF MutationFenced, WriterTypes, Trustable
    <2>2. CASE ~(Odd(Generation) \/ Pending)
        BY <2>2, OddFacts DEF MutationFenced, StoreTypes, WriterTypes, Trustable,
            Parity, Locking
    <2> QED
        BY <2>1, <2>2
<1>9. RollbackSafe'
    <2>1. CASE Odd(Generation) \/ Pending
        BY <2>1 DEF RollbackSafe, WriterTypes, Lossless, InFlight
    <2>2. CASE ~(Odd(Generation) \/ Pending)
        <3>1. \A v \in Writers : wpc'[v] = "rollback" => Lossless /\ row < wgen'[v] /\ row # Deleted
            BY <2>2 DEF RollbackSafe, WriterTypes
        <3>2. row # Deleted /\ ~Odd(row) /\ row \in Nat /\ Generation \in Nat
            BY DEF Locking, Parity, StoreTypes
        <3> SUFFICES ASSUME Lossless
                     PROVE  /\ row <= NextGeneration + 1
                            /\ \A v \in Writers : InFlight(v)' => v = w
                            /\ hash.gen = NextGeneration - 1 => hash = NoHash \/ hash.ver = row
            BY <2>2, <3>1, <3>2 DEF RollbackSafe, Lossless, InFlight, WriterTypes
        <3>3. NextGeneration = Generation + 1
            BY <2>2, <3>2, OddFacts DEF RollbackSafe
        <3>4. \A v \in Writers : ~InFlight(v)
            BY <2>2, OddFacts DEF RollbackSafe, InFlight, Parity, WriterTypes
        <3>5. hash.gen = Generation => hash = NoHash \/ hash.ver = row
            BY <2>2 DEF RollbackSafe, HashIsCurrent, Trustable, StoreTypes
        <3> QED
            BY <2>2, <3>2, <3>3, <3>4, <3>5 DEF RollbackSafe, InFlight, WriterTypes
    <2> QED
        BY <2>1, <2>2
<1>10. ASSUME NEW v \in Writers PROVE WriterFinalises(v)'
    BY DEF WriterFinalises, StoreTypes, WriterTypes, Locking, Finaliser, Committed
<1>11. ASSUME NEW q \in Readers PROVE ReaderInv(q)'
    <2>1. ReaderLocks(q)'
        BY DEF ReaderLocks
    <2>2. ReaderFinalises(q)'
        BY DEF ReaderFinalises, StoreTypes, Locking, Finaliser
    <2>3. Observes(q)'
        BY DEF Observes
    <2> QED
        BY <2>1, <2>2, <2>3
<1> QED
    BY <1>1, <1>2, <1>3, <1>4, <1>5, <1>6, <1>7, <1>8, <1>9, <1>10, <1>11

LEMMA BeginUncertainStep ==
    ASSUME Survives, Inv, NEW w \in Writers, BeginUncertain(w)
    PROVE  Inv'
<1> USE DEF Inv, TypeOK, CacheInv, ReaderInv, BeginUncertain, Generation, Pending,
    Fault, Fence, Done, NextGeneration, Unlocked, Larger
<1>1. StoreTypes'
    BY DEF StoreTypes
<1>2. WriterTypes'
    BY DEF WriterTypes
<1>3. ReaderTypes'
    BY DEF ReaderTypes
<1>4. FaultTypes'
    BY DEF FaultTypes
<1>5. HashIsCurrent'
    BY OddFacts DEF HashIsCurrent, StoreTypes, Parity, Trustable
<1>6. Parity'
    BY OddFacts DEF Parity, StoreTypes
<1>7. Locking'
    BY DEF Locking, WriterTypes
<1>8. MutationFenced'
    BY DEF MutationFenced, Locking, Trustable
<1>9. RollbackSafe'
    BY DEF RollbackSafe, StoreTypes, WriterTypes, Parity, Lossless, InFlight,
        Survives, Survivable
<1>10. ASSUME NEW v \in Writers PROVE WriterFinalises(v)'
    BY DEF WriterFinalises, StoreTypes, Locking, Finaliser, Committed
<1>11. ASSUME NEW q \in Readers PROVE ReaderInv(q)'
    <2>1. ReaderLocks(q)'
        BY DEF ReaderLocks
    <2>2. ReaderFinalises(q)'
        BY DEF ReaderFinalises, StoreTypes, Locking, Finaliser
    <2>3. Observes(q)'
        BY DEF Observes
    <2> QED
        BY <2>1, <2>2, <2>3
<1> QED
    BY <1>1, <1>2, <1>3, <1>4, <1>5, <1>6, <1>7, <1>8, <1>9, <1>10, <1>11

LEMMA CommitRowStep ==
    ASSUME Survives, Inv, NEW w \in Writers, CommitRow(w)
    PROVE  Inv'
<1> USE DEF Inv, TypeOK, CacheInv, ReaderInv, CommitRow, Commits, Unlocked,
    RowBecomes, Committed
<1>1. StoreTypes'
    BY DEF StoreTypes, WriterTypes
<1>2. WriterTypes'
    BY DEF WriterTypes
<1>3. ReaderTypes'
    <2>1. seen' \in [Readers -> SUBSET (Nat \cup {Deleted})]
        BY DEF WriterTypes, ReaderTypes
    <2> QED
        BY <2>1 DEF ReaderTypes
<1>4. FaultTypes'
    BY DEF FaultTypes
<1>5. HashIsCurrent'
    BY DEF HashIsCurrent, MutationFenced, Trustable
<1>6. Parity'
    BY OddFacts DEF Parity, WriterTypes
<1>7. Locking'
    BY DEF Locking, WriterTypes
<1>8. MutationFenced'
    BY DEF MutationFenced, WriterTypes, Locking, Trustable
<1>9. RollbackSafe'
    BY DEF RollbackSafe, WriterTypes, Lossless, Generation, InFlight, Survives,
        Survivable
<1>10. ASSUME NEW v \in Writers PROVE WriterFinalises(v)'
    BY OddFacts DEF WriterFinalises, StoreTypes, WriterTypes, Parity, Locking,
        MutationFenced, Finaliser, Trustable
<1>11. ASSUME NEW q \in Readers PROVE ReaderInv(q)'
    <2>1. ReaderLocks(q)'
        BY DEF ReaderLocks, Locking
    <2>2. ReaderFinalises(q)'
        BY OddFacts DEF ReaderFinalises, StoreTypes, WriterTypes, ReaderTypes,
            Locking, MutationFenced, Finaliser, Trustable
    <2>3. Observes(q)'
        BY DEF Observes
    <2> QED
        BY <2>1, <2>2, <2>3
<1> QED
    BY <1>1, <1>2, <1>3, <1>4, <1>5, <1>6, <1>7, <1>8, <1>9, <1>10, <1>11

LEMMA CommitUncertainStep ==
    ASSUME Survives, Inv, NEW w \in Writers, CommitUncertain(w)
    PROVE  Inv'
<1> USE DEF Inv, TypeOK, CacheInv, ReaderInv, CommitUncertain, Fault, Commits,
    Unlocked, RowBecomes, Committed
<1>1. StoreTypes'
    BY DEF StoreTypes, WriterTypes
<1>2. WriterTypes'
    BY DEF WriterTypes
<1>3. ReaderTypes'
    <2>1. CASE Commits(w)
        <3>1. seen' \in [Readers -> SUBSET (Nat \cup {Deleted})]
            BY <2>1 DEF StoreTypes, WriterTypes, ReaderTypes
        <3> QED
            BY <3>1 DEF ReaderTypes
    <2>2. CASE UNCHANGED <<dbvars, seen>>
        BY <2>2 DEF ReaderTypes
    <2> QED
        BY <2>1, <2>2
<1>4. FaultTypes'
    BY DEF FaultTypes
<1>5. HashIsCurrent'
    BY DEF HashIsCurrent, MutationFenced, Trustable
<1>6. Parity'
    BY OddFacts DEF Parity, WriterTypes
<1>7. Locking'
    BY DEF Locking, WriterTypes
<1>8. MutationFenced'
    BY DEF MutationFenced, WriterTypes, Locking, Trustable
<1>9. RollbackSafe'
    BY DEF RollbackSafe, WriterTypes, Lossless, Generation, InFlight, Survives,
        Survivable
<1>10. ASSUME NEW v \in Writers PROVE WriterFinalises(v)'
    BY OddFacts DEF WriterFinalises, StoreTypes, WriterTypes, Parity, Locking,
        MutationFenced, Finaliser, Trustable
<1>11. ASSUME NEW q \in Readers PROVE ReaderInv(q)'
    <2>1. ReaderLocks(q)'
        BY DEF ReaderLocks, Locking
    <2>2. ReaderFinalises(q)'
        BY OddFacts DEF ReaderFinalises, StoreTypes, WriterTypes, ReaderTypes,
            Locking, MutationFenced, Finaliser, Trustable
    <2>3. Observes(q)'
        <3>1. CASE Commits(w)
            BY <3>1 DEF Observes, ReaderTypes
        <3>2. CASE UNCHANGED <<dbvars, seen>>
            BY <3>2 DEF Observes
        <3> QED
            BY <3>1, <3>2
    <2> QED
        BY <2>1, <2>2, <2>3
<1> QED
    BY <1>1, <1>2, <1>3, <1>4, <1>5, <1>6, <1>7, <1>8, <1>9, <1>10, <1>11

LEMMA MutationFailsStep ==
    ASSUME Survives, Inv, NEW w \in Writers, MutationFails(w)
    PROVE  Inv'
<1> USE DEF Inv, TypeOK, CacheInv, ReaderInv, MutationFails, Fault, Unlocked
<1>1. StoreTypes'
    BY DEF StoreTypes
<1>2. WriterTypes'
    BY DEF WriterTypes
<1>3. ReaderTypes'
    BY DEF ReaderTypes
<1>4. FaultTypes'
    BY DEF FaultTypes
<1>5. HashIsCurrent'
    BY DEF HashIsCurrent, Trustable
<1>6. Parity'
    BY DEF Parity
<1>7. Locking'
    BY DEF Locking, WriterTypes
<1>8. MutationFenced'
    BY DEF MutationFenced, Trustable
<1>9. RollbackSafe'
    BY DEF RollbackSafe, FaultTypes, Locking, MutationFenced, Lossless, Generation,
        InFlight, Trustable, Survives, Survivable
<1>10. ASSUME NEW v \in Writers PROVE WriterFinalises(v)'
    BY DEF WriterFinalises, Finaliser, Committed
<1>11. ASSUME NEW q \in Readers PROVE ReaderInv(q)'
    <2>1. ReaderLocks(q)'
        BY DEF ReaderLocks
    <2>2. ReaderFinalises(q)'
        BY DEF ReaderFinalises, Finaliser
    <2>3. Observes(q)'
        BY DEF Observes
    <2> QED
        BY <2>1, <2>2, <2>3
<1> QED
    BY <1>1, <1>2, <1>3, <1>4, <1>5, <1>6, <1>7, <1>8, <1>9, <1>10, <1>11

LEMMA ReloadRowStep ==
    ASSUME Survives, Inv, NEW w \in Writers, ReloadRow(w)
    PROVE  Inv'
<1> USE DEF Inv, TypeOK, CacheInv, ReaderInv, ReloadRow, Rereads, Committed, Done,
    Unlocked
<1>1. StoreTypes'
    BY DEF StoreTypes
<1>2. WriterTypes'
    <2>1. CASE row = Committed(w)
        BY <2>1 DEF WriterTypes
    <2>2. CASE ~(row = Committed(w))
        BY <2>2, DoneTypes
    <2> QED
        BY <2>1, <2>2
<1>3. ReaderTypes'
    BY DEF ReaderTypes
<1>4. FaultTypes'
    BY DEF FaultTypes
<1>5. HashIsCurrent'
    BY DEF HashIsCurrent, Trustable
<1>6. Parity'
    BY DEF Parity, WriterTypes
<1>7. Locking'
    BY DEF Locking, WriterTypes
<1>8. MutationFenced'
    BY DEF MutationFenced, WriterTypes, Trustable
<1>9. RollbackSafe'
    BY DEF RollbackSafe, WriterTypes, Lossless, InFlight, Generation
<1>10. ASSUME NEW v \in Writers PROVE WriterFinalises(v)'
    BY DEF WriterFinalises, WriterTypes, Finaliser
<1>11. ASSUME NEW q \in Readers PROVE ReaderInv(q)'
    <2>1. ReaderLocks(q)'
        BY DEF ReaderLocks
    <2>2. ReaderFinalises(q)'
        BY DEF ReaderFinalises, Finaliser
    <2>3. Observes(q)'
        BY DEF Observes
    <2> QED
        BY <2>1, <2>2, <2>3
<1> QED
    BY <1>1, <1>2, <1>3, <1>4, <1>5, <1>6, <1>7, <1>8, <1>9, <1>10, <1>11

LEMMA ReconcileRowStep ==
    ASSUME Survives, Inv, NEW w \in Writers, ReconcileRow(w)
    PROVE  Inv'
<1> USE DEF Inv, TypeOK, CacheInv, ReaderInv, ReconcileRow, Rereads, Committed,
    Done, Unlocked
<1>1. StoreTypes'
    BY DEF StoreTypes
<1>2. WriterTypes'
    <2>1. CASE row = Committed(w) /\ (op[w] = "delete" \/ author = w)
        BY <2>1 DEF WriterTypes
    <2>2. CASE ~(row = Committed(w) /\ (op[w] = "delete" \/ author = w))
        BY <2>2, DoneTypes
    <2> QED
        BY <2>1, <2>2
<1>3. ReaderTypes'
    BY DEF ReaderTypes
<1>4. FaultTypes'
    BY DEF FaultTypes
<1>5. HashIsCurrent'
    BY DEF HashIsCurrent, Trustable
<1>6. Parity'
    BY DEF Parity, WriterTypes
<1>7. Locking'
    BY DEF Locking, WriterTypes
<1>8. MutationFenced'
    BY DEF MutationFenced, WriterTypes, Trustable
<1>9. RollbackSafe'
    BY DEF RollbackSafe, WriterTypes, Lossless, InFlight, Generation
<1>10. ASSUME NEW v \in Writers PROVE WriterFinalises(v)'
    BY DEF WriterFinalises, WriterTypes, Finaliser
<1>11. ASSUME NEW q \in Readers PROVE ReaderInv(q)'
    <2>1. ReaderLocks(q)'
        BY DEF ReaderLocks
    <2>2. ReaderFinalises(q)'
        BY DEF ReaderFinalises, Finaliser
    <2>3. Observes(q)'
        BY DEF Observes
    <2> QED
        BY <2>1, <2>2, <2>3
<1> QED
    BY <1>1, <1>2, <1>3, <1>4, <1>5, <1>6, <1>7, <1>8, <1>9, <1>10, <1>11

LEMMA PublishStep ==
    ASSUME Survives, Inv, NEW w \in Writers, Publish(w)
    PROVE  Inv'
<1> USE DEF Inv, TypeOK, CacheInv, ReaderInv, Publish, Finalise, Committed, Done,
    CommitDeleteMutation, CommitMutation, Unlocked, Finishes, ClearPending
<1>1. StoreTypes'
    BY DEF StoreTypes
<1>2. WriterTypes'
    BY DEF WriterTypes
<1>3. ReaderTypes'
    BY DEF ReaderTypes
<1>4. FaultTypes'
    BY DEF FaultTypes
<1>5. HashIsCurrent'
    BY DEF HashIsCurrent, WriterFinalises, Trustable, Finaliser
<1>6. Parity'
    BY DEF Parity, WriterTypes, WriterFinalises, Finaliser
<1>7. Locking'
    BY DEF Locking
<1>8. MutationFenced'
    BY OddFacts DEF MutationFenced, WriterTypes, Parity, WriterFinalises, Trustable,
        Finaliser
<1>9. RollbackSafe'
    BY DEF RollbackSafe, StoreTypes, Locking, MutationFenced, WriterFinalises,
        Lossless, Generation, InFlight, Trustable, Finaliser, Survives, Survivable
<1>10. ASSUME NEW v \in Writers PROVE WriterFinalises(v)'
    BY OddFacts DEF WriterFinalises, WriterTypes, Parity, Finaliser
<1>11. ASSUME NEW q \in Readers PROVE ReaderInv(q)'
    <2>1. ReaderLocks(q)'
        BY DEF ReaderLocks
    <2>2. ReaderFinalises(q)'
        BY OddFacts DEF ReaderFinalises, StoreTypes, Parity, Finaliser
    <2>3. Observes(q)'
        BY DEF Observes, WriterFinalises, Finaliser
    <2> QED
        BY <2>1, <2>2, <2>3
<1> QED
    BY <1>1, <1>2, <1>3, <1>4, <1>5, <1>6, <1>7, <1>8, <1>9, <1>10, <1>11

LEMMA RollbackStep ==
    ASSUME Survives, Inv, NEW w \in Writers, Rollback(w)
    PROVE  Inv'
<1> USE DEF Inv, TypeOK, CacheInv, ReaderInv, Rollback, RollbackMutation, Done,
    Finishes, ClearPending, Unlocked
<1>1. StoreTypes'
    BY DEF StoreTypes, WriterTypes
<1>2. WriterTypes'
    BY DEF WriterTypes
<1>3. ReaderTypes'
    BY DEF ReaderTypes
<1>4. FaultTypes'
    BY DEF FaultTypes
<1>5. HashIsCurrent'
    BY DEF HashIsCurrent, RollbackSafe, Trustable, Lossless, Generation, InFlight
<1>6. Parity'
    BY DEF Parity, WriterTypes
<1>7. Locking'
    BY DEF Locking
<1>8. MutationFenced'
    BY DEF MutationFenced, RollbackSafe, Trustable, Lossless, Generation, InFlight
<1>9. RollbackSafe'
    BY DEF RollbackSafe, StoreTypes, WriterTypes, Lossless, Generation, InFlight,
        Survives, Survivable
<1>10. ASSUME NEW v \in Writers PROVE WriterFinalises(v)'
    BY OddFacts DEF WriterFinalises, StoreTypes, Parity, Finaliser, Committed
<1>11. ASSUME NEW q \in Readers PROVE ReaderInv(q)'
    <2>1. ReaderLocks(q)'
        BY DEF ReaderLocks
    <2>2. ReaderFinalises(q)'
        BY OddFacts DEF ReaderFinalises, StoreTypes, Parity, Finaliser
    <2>3. Observes(q)'
        BY DEF Observes
    <2> QED
        BY <2>1, <2>2, <2>3
<1> QED
    BY <1>1, <1>2, <1>3, <1>4, <1>5, <1>6, <1>7, <1>8, <1>9, <1>10, <1>11

LEMMA CrashStep ==
    ASSUME Survives, Inv, NEW w \in Writers, Crash(w)
    PROVE  Inv'
<1> USE DEF Inv, TypeOK, CacheInv, ReaderInv, Crash, Fault, Done, Unlocked
<1>1. StoreTypes'
    BY DEF StoreTypes
<1>2. WriterTypes'
    BY DEF WriterTypes
<1>3. ReaderTypes'
    BY DEF ReaderTypes
<1>4. FaultTypes'
    BY DEF FaultTypes
<1>5. HashIsCurrent'
    BY DEF HashIsCurrent, Trustable
<1>6. Parity'
    BY DEF Parity, WriterTypes
<1>7. Locking'
    BY DEF Locking, WriterTypes
<1>8. MutationFenced'
    BY DEF MutationFenced, WriterTypes, Trustable
<1>9. RollbackSafe'
    BY DEF RollbackSafe, WriterTypes, Lossless, Generation, InFlight, Survives,
        Survivable
<1>10. ASSUME NEW v \in Writers PROVE WriterFinalises(v)'
    BY DEF WriterFinalises, WriterTypes, Finaliser, Committed
<1>11. ASSUME NEW q \in Readers PROVE ReaderInv(q)'
    <2>1. ReaderLocks(q)'
        BY DEF ReaderLocks
    <2>2. ReaderFinalises(q)'
        BY DEF ReaderFinalises, Finaliser
    <2>3. Observes(q)'
        BY DEF Observes
    <2> QED
        BY <2>1, <2>2, <2>3
<1> QED
    BY <1>1, <1>2, <1>3, <1>4, <1>5, <1>6, <1>7, <1>8, <1>9, <1>10, <1>11

-----------------------------------------------------------------------------
(* Steps of a lookup that leave the row and the cache alone.               *)

LEMMA GetTokenByKeyStep ==
    ASSUME Survives, Inv, NEW r \in Readers, GetTokenByKey(r)
    PROVE  Inv'
<1> USE DEF Inv, TypeOK, CacheInv, ReaderInv, GetTokenByKey, Goto
<1>1. StoreTypes' /\ WriterTypes' /\ FaultTypes'
    BY DEF StoreTypes, WriterTypes, ReaderTypes, FaultTypes
<1>2. ReaderTypes'
    BY DEF ReaderTypes, StoreTypes
<1>3. Locking'
    BY DEF Locking
<1>4. KeptInv'
    BY StoreKept
<1>5. ASSUME NEW q \in Readers, q # r PROVE ReaderInv(q)'
    BY <1>5, ReaderKept DEF ReaderTypes, StoreTypes
<1>6. ReaderLocks(r)'
    BY DEF ReaderLocks, ReaderTypes
<1>7. ReaderFinalises(r)'
    BY DEF ReaderFinalises, ReaderTypes, Finaliser
<1>8. Observes(r)'
    BY DEF Observes, ReaderTypes
<1> QED
    BY <1>1, <1>2, <1>3, <1>4, <1>5, <1>6, <1>7, <1>8 DEF KeptInv

LEMMA CacheBeforeStep ==
    ASSUME Survives, Inv, NEW r \in Readers, CacheBefore(r)
    PROVE  Inv'
<1> USE DEF Inv, TypeOK, CacheInv, ReaderInv, CacheBefore, Pending, Continues,
    Misses, Goto, Fails, Ends, Unlocked
<1>1. StoreTypes' /\ WriterTypes' /\ FaultTypes'
    BY DEF StoreTypes, WriterTypes, ReaderTypes, FaultTypes
<1>2. ReaderTypes'
    <2>1. CASE gen # Absent /\ ~Pending /\ ~Odd(gen)
        <3>1. rgen' \in [Readers -> Nat]
            BY <2>1 DEF StoreTypes, ReaderTypes
        <3> QED
            BY <2>1, <3>1, ContinuesTypes DEF ReaderTypes
    <2>2. CASE ~(gen # Absent /\ ~Pending /\ ~Odd(gen))
        BY <2>2, MissesTypes
    <2> QED
        BY <2>1, <2>2
<1>3. Locking'
    BY DEF Locking
<1>4. KeptInv'
    BY StoreKept
<1>5. ASSUME NEW q \in Readers, q # r PROVE ReaderInv(q)'
    BY <1>5, ReaderKept DEF ReaderTypes, StoreTypes
<1>6. ReaderLocks(r)'
    BY DEF ReaderLocks, ReaderTypes
<1>7. ReaderFinalises(r)'
    BY DEF ReaderFinalises, ReaderTypes, Finaliser
<1>8. Observes(r)'
    BY DEF Observes, ReaderTypes, HashIsCurrent, Trustable
<1> QED
    BY <1>1, <1>2, <1>3, <1>4, <1>5, <1>6, <1>7, <1>8 DEF KeptInv

LEMMA CacheHashStep ==
    ASSUME Survives, Inv, NEW r \in Readers, CacheHash(r)
    PROVE  Inv'
<1> USE DEF Inv, TypeOK, CacheInv, ReaderInv, CacheHash, Continues, Misses, Goto,
    Fails, Ends, Unlocked
<1>1. StoreTypes' /\ WriterTypes' /\ FaultTypes'
    BY DEF StoreTypes, WriterTypes, ReaderTypes, FaultTypes
<1>2. ReaderTypes'
    <2>1. CASE hash # NoHash
        <3>1. copy' \in [Readers -> [gen : Nat \cup {Absent}, ver : Nat \cup {Deleted}]]
            BY <2>1 DEF StoreTypes, ReaderTypes
        <3> QED
            BY <2>1, <3>1, ContinuesTypes DEF ReaderTypes
    <2>2. CASE ~(hash # NoHash)
        BY <2>2, MissesTypes
    <2> QED
        BY <2>1, <2>2
<1>3. Locking'
    BY DEF Locking
<1>4. KeptInv'
    BY StoreKept
<1>5. ASSUME NEW q \in Readers, q # r PROVE ReaderInv(q)'
    BY <1>5, ReaderKept DEF ReaderTypes, StoreTypes
<1>6. ReaderLocks(r)'
    BY DEF ReaderLocks, ReaderTypes
<1>7. ReaderFinalises(r)'
    BY DEF ReaderFinalises, ReaderTypes, Finaliser
<1>8. Observes(r)'
    BY DEF Observes, ReaderTypes
<1> QED
    BY <1>1, <1>2, <1>3, <1>4, <1>5, <1>6, <1>7, <1>8 DEF KeptInv

LEMMA CacheAfterStep ==
    ASSUME Survives, Inv, NEW r \in Readers, CacheAfter(r)
    PROVE  Inv'
<1> USE DEF Inv, TypeOK, CacheInv, ReaderInv, CacheAfter, Trusted, Returns, Misses,
    Pending, Ends, Fails, Continues, Goto, Unlocked
<1>1. StoreTypes' /\ WriterTypes' /\ FaultTypes'
    BY DEF StoreTypes, WriterTypes, ReaderTypes, FaultTypes
<1>2. ReaderTypes'
    <2>1. CASE Trusted(r)
        <3>1. copy[r].ver \in Nat \cup {Deleted}
            BY DEF ReaderTypes
        <3> QED
            BY <2>1, <3>1, ReturnsTypes
    <2>2. CASE ~(Trusted(r))
        BY <2>2, MissesTypes
    <2> QED
        BY <2>1, <2>2
<1>3. Locking'
    BY DEF Locking
<1>4. KeptInv'
    BY StoreKept
<1>5. ASSUME NEW q \in Readers, q # r PROVE ReaderInv(q)'
    BY <1>5, ReaderKept DEF ReaderTypes, StoreTypes
<1>6. ReaderLocks(r)'
    BY DEF ReaderLocks, ReaderTypes
<1>7. ReaderFinalises(r)'
    BY DEF ReaderFinalises, ReaderTypes, Finaliser
<1>8. Observes(r)'
    BY DEF Observes, ReaderTypes
<1> QED
    BY <1>1, <1>2, <1>3, <1>4, <1>5, <1>6, <1>7, <1>8 DEF KeptInv

LEMMA LoadGenerationStep ==
    ASSUME Survives, Inv, NEW r \in Readers, LoadGeneration(r)
    PROVE  Inv'
<1> USE DEF Inv, TypeOK, CacheInv, ReaderInv, LoadGeneration, Pending, Fails,
    Continues, Generation, Ends, Goto, Unlocked
<1>1. StoreTypes' /\ WriterTypes' /\ FaultTypes'
    BY DEF StoreTypes, WriterTypes, ReaderTypes, FaultTypes
<1>2. ReaderTypes'
    <2>1. CASE Pending
        BY <2>1, FailsTypes
    <2>2. CASE ~(Pending)
        <3>1. rgen' \in [Readers -> Nat]
            BY <2>2 DEF StoreTypes, ReaderTypes
        <3> QED
            BY <2>2, <3>1, ContinuesTypes DEF ReaderTypes
    <2> QED
        BY <2>1, <2>2
<1>3. Locking'
    BY DEF Locking
<1>4. KeptInv'
    BY StoreKept
<1>5. ASSUME NEW q \in Readers, q # r PROVE ReaderInv(q)'
    BY <1>5, ReaderKept DEF ReaderTypes, StoreTypes
<1>6. ReaderLocks(r)'
    BY DEF ReaderLocks, ReaderTypes
<1>7. ReaderFinalises(r)'
    BY DEF ReaderFinalises, ReaderTypes, Finaliser
<1>8. Observes(r)'
    BY DEF Observes, ReaderTypes
<1> QED
    BY <1>1, <1>2, <1>3, <1>4, <1>5, <1>6, <1>7, <1>8 DEF KeptInv

LEMMA ReadRowStep ==
    ASSUME Survives, Inv, NEW r \in Readers, ReadRow(r)
    PROVE  Inv'
<1> USE DEF Inv, TypeOK, CacheInv, ReaderInv, ReadRow, Resolved, Holding, Fails,
    Returns, Continues, Ends, Goto, Unlocked
<1>1. StoreTypes' /\ WriterTypes' /\ FaultTypes'
    BY DEF StoreTypes, WriterTypes, ReaderTypes, FaultTypes
<1>2. ReaderTypes'
    <2>1. CASE Odd(rgen[r]) /\ Resolved(rgen[r])
        BY <2>1, HoldingTypes DEF ReaderTypes
    <2>2. CASE Odd(rgen[r]) /\ ~Resolved(rgen[r])
        BY <2>2, FailsTypes
    <2>3. CASE ~Odd(rgen[r]) /\ row = Deleted
        BY <2>3, ReturnsTypes
    <2>4. CASE ~Odd(rgen[r]) /\ row # Deleted
        BY <2>4, ContinuesTypes DEF ReaderTypes
    <2> QED
        BY <2>1, <2>2, <2>3, <2>4
<1>3. Locking'
    BY DEF Locking
<1>4. KeptInv'
    BY StoreKept
<1>5. ASSUME NEW q \in Readers, q # r PROVE ReaderInv(q)'
    BY <1>5, ReaderKept DEF ReaderTypes, StoreTypes
<1>6. ReaderLocks(r)'
    BY DEF ReaderLocks, ReaderTypes
<1>7. ReaderFinalises(r)'
    BY DEF ReaderFinalises, ReaderTypes, Finaliser
<1>8. Observes(r)'
    BY DEF Observes, ReaderTypes
<1> QED
    BY <1>1, <1>2, <1>3, <1>4, <1>5, <1>6, <1>7, <1>8 DEF KeptInv

LEMMA LockForRecoveryStep ==
    ASSUME Survives, Inv, NEW r \in Readers, LockForRecovery(r)
    PROVE  Inv'
<1> USE DEF Inv, TypeOK, CacheInv, ReaderInv, LockForRecovery, Goto
<1>1. StoreTypes' /\ WriterTypes' /\ FaultTypes'
    BY DEF StoreTypes, WriterTypes, ReaderTypes, FaultTypes
<1>2. ReaderTypes'
    BY DEF ReaderTypes
<1>3. Locking'
    BY DEF Locking
<1>4. KeptInv'
    BY StoreKept
<1>5. ASSUME NEW q \in Readers, q # r PROVE ReaderInv(q)'
    BY <1>5, ReaderKept DEF ReaderTypes, StoreTypes
<1>6. ReaderLocks(r)'
    BY DEF ReaderLocks
<1>7. ReaderFinalises(r)'
    BY DEF ReaderFinalises, Finaliser
<1>8. Observes(r)'
    BY DEF Observes
<1> QED
    BY <1>1, <1>2, <1>3, <1>4, <1>5, <1>6, <1>7, <1>8 DEF KeptInv

LEMMA RecoverStep ==
    ASSUME Survives, Inv, NEW r \in Readers, Recover(r)
    PROVE  Inv'
<1> USE DEF Inv, TypeOK, CacheInv, ReaderInv, Recover, Pending, Fails, Generation,
    Resolved, Holding, Returns, Ends, Continues, Goto, Unlocked
<1>1. StoreTypes' /\ WriterTypes' /\ FaultTypes'
    BY DEF StoreTypes, WriterTypes, ReaderTypes, FaultTypes
<1>2. ReaderTypes'
    <2>1. CASE Fails(r)
        BY <2>1, FailsTypes
    <2>2. CASE Returns(r, Deleted)
        BY <2>2, ReturnsTypes
    <2>3. ASSUME NEW l \in {"refinish", "restore", "init"}, Holding(r, l),
                 rgen' = [rgen EXCEPT ![r] = Generation]
          PROVE  ReaderTypes'
        <3>1. rgen' \in [Readers -> Nat]
            BY <2>3 DEF StoreTypes, ReaderTypes
        <3> QED
            BY <2>3, <3>1, HoldingTypes
    <2> QED
        BY <2>1, <2>2, <2>3
<1>3. Locking'
    BY DEF Locking
<1>4. KeptInv'
    BY StoreKept
<1>5. ASSUME NEW q \in Readers, q # r PROVE ReaderInv(q)'
    BY <1>5, ReaderKept DEF ReaderTypes, StoreTypes
<1>6. ReaderLocks(r)'
    BY DEF ReaderLocks, ReaderTypes
<1>7. ReaderFinalises(r)'
    BY OddFacts DEF ReaderFinalises, ReaderTypes, StoreTypes, Finaliser
<1>8. Observes(r)'
    BY DEF Observes, ReaderTypes
<1> QED
    BY <1>1, <1>2, <1>3, <1>4, <1>5, <1>6, <1>7, <1>8 DEF KeptInv

-----------------------------------------------------------------------------
(* Steps of a lookup that change the cache.                                *)

LEMMA FinishMutationStep ==
    ASSUME Survives, Inv, NEW r \in Readers, FinishMutation(r)
    PROVE  Inv'
<1> USE DEF Inv, TypeOK, CacheInv, ReaderInv, FinishMutation, Finalise, FinishedBy,
    Again, Fails, CommitDeleteMutation, CommitMutation, Finishes, Continues, Ends,
    ClearPending, Goto, Unlocked
<1>1. StoreTypes'
    BY DEF StoreTypes, ReaderTypes
<1>2. WriterTypes'
    BY DEF WriterTypes
<1>3. ReaderTypes'
    <2>1. CASE FinishedBy(rgen[r])
        BY <2>1, AgainTypes
    <2>2. CASE ~(FinishedBy(rgen[r]))
        BY <2>2, FailsTypes
    <2> QED
        BY <2>1, <2>2
<1>4. FaultTypes'
    BY DEF FaultTypes
<1>5. HashIsCurrent'
    BY DEF HashIsCurrent, ReaderFinalises, Trustable, Finaliser
<1>6. Parity'
    BY DEF Parity, ReaderFinalises, Finaliser
<1>7. Locking'
    BY DEF Locking
<1>8. MutationFenced'
    BY OddFacts DEF MutationFenced, ReaderTypes, ReaderFinalises, Trustable,
        Finaliser
<1>9. RollbackSafe'
    BY DEF RollbackSafe, StoreTypes, Locking, MutationFenced, ReaderFinalises,
        Lossless, Generation, InFlight, Trustable, Finaliser, Survives, Survivable
<1>10. ASSUME NEW v \in Writers PROVE WriterFinalises(v)'
    BY OddFacts DEF WriterFinalises, StoreTypes, Parity, ReaderFinalises, Finaliser,
        Committed
<1>11. ASSUME NEW q \in Readers, q # r PROVE ReaderInv(q)'
    <2>1. ReaderLocks(q)'
        BY <1>11 DEF ReaderLocks, ReaderTypes
    <2>2. ReaderFinalises(q)'
        BY <1>11, OddFacts DEF ReaderFinalises, ReaderTypes, MutationFenced,
            Finaliser, Trustable
    <2>3. Observes(q)'
        BY <1>11 DEF Observes, ReaderTypes, ReaderFinalises, Finaliser
    <2> QED
        BY <2>1, <2>2, <2>3
<1>12. ReaderLocks(r)'
    BY DEF ReaderLocks, ReaderTypes
<1>13. ReaderFinalises(r)'
    BY OddFacts DEF ReaderFinalises, ReaderTypes, MutationFenced, Finaliser,
        Trustable
<1>14. Observes(r)'
    BY DEF Observes, ReaderTypes, ReaderFinalises, Finaliser
<1> QED
    BY <1>1, <1>2, <1>3, <1>4, <1>5, <1>6, <1>7, <1>8, <1>9, <1>10, <1>11, <1>12,
        <1>13, <1>14

LEMMA RecoverFinishStep ==
    ASSUME Survives, Inv, NEW r \in Readers, RecoverFinish(r)
    PROVE  Inv'
<1> USE DEF Inv, TypeOK, CacheInv, ReaderInv, RecoverFinish, Finalise, FinishedBy,
    Again, Fails, CommitDeleteMutation, CommitMutation, Finishes, Continues, Ends,
    ClearPending, Goto, Unlocked
<1>1. StoreTypes'
    BY DEF StoreTypes, ReaderTypes
<1>2. WriterTypes'
    BY DEF WriterTypes
<1>3. ReaderTypes'
    <2>1. CASE FinishedBy(rgen[r])
        BY <2>1, AgainTypes
    <2>2. CASE ~(FinishedBy(rgen[r]))
        BY <2>2, FailsTypes
    <2> QED
        BY <2>1, <2>2
<1>4. FaultTypes'
    BY DEF FaultTypes
<1>5. HashIsCurrent'
    BY DEF HashIsCurrent, ReaderFinalises, Trustable, Finaliser
<1>6. Parity'
    BY DEF Parity, ReaderFinalises, Finaliser
<1>7. Locking'
    BY DEF Locking
<1>8. MutationFenced'
    BY DEF MutationFenced, Locking, ReaderLocks, Trustable
<1>9. RollbackSafe'
    BY DEF RollbackSafe, StoreTypes, Locking, ReaderFinalises, ReaderLocks,
        Lossless, Generation, InFlight, Finaliser, Survives, Survivable
<1>10. ASSUME NEW v \in Writers PROVE WriterFinalises(v)'
    BY OddFacts DEF WriterFinalises, StoreTypes, Parity, ReaderFinalises, Finaliser,
        Committed
<1>11. ASSUME NEW q \in Readers, q # r PROVE ReaderInv(q)'
    <2>1. ReaderLocks(q)'
        BY <1>11 DEF ReaderLocks, ReaderTypes
    <2>2. ReaderFinalises(q)'
        BY <1>11, OddFacts DEF ReaderFinalises, ReaderTypes, Finaliser
    <2>3. Observes(q)'
        BY <1>11 DEF Observes, ReaderTypes, ReaderFinalises, Finaliser
    <2> QED
        BY <2>1, <2>2, <2>3
<1>12. ReaderLocks(r)'
    BY DEF ReaderLocks, ReaderTypes
<1>13. ReaderFinalises(r)'
    BY OddFacts DEF ReaderFinalises, ReaderTypes, Finaliser
<1>14. Observes(r)'
    BY DEF Observes, ReaderTypes, ReaderFinalises, Finaliser
<1> QED
    BY <1>1, <1>2, <1>3, <1>4, <1>5, <1>6, <1>7, <1>8, <1>9, <1>10, <1>11, <1>12,
        <1>13, <1>14

LEMMA RestoreGenerationStep ==
    ASSUME Survives, Inv, NEW r \in Readers, RestoreGeneration(r)
    PROVE  Inv'
<1> USE DEF Inv, TypeOK, CacheInv, ReaderInv, RestoreGeneration, Restorable, Again,
    Fails, Pending, Generation, Continues, Ends, Goto, Unlocked
<1>1. StoreTypes'
    BY DEF StoreTypes, ReaderTypes
<1>2. WriterTypes'
    BY DEF WriterTypes
<1>3. ReaderTypes'
    <2>1. CASE Restorable(copy[r].ver)
        BY <2>1, AgainTypes
    <2>2. CASE ~(Restorable(copy[r].ver))
        BY <2>2, FailsTypes
    <2> QED
        BY <2>1, <2>2
<1>4. FaultTypes'
    BY DEF FaultTypes
<1>5. HashIsCurrent'
    BY DEF HashIsCurrent, Trustable
<1>6. Parity'
    BY DEF Parity
<1>7. Locking'
    BY DEF Locking
<1>8. MutationFenced'
    BY DEF MutationFenced, Parity, ReaderLocks, Trustable
<1>9. RollbackSafe'
    BY DEF RollbackSafe, StoreTypes, WriterTypes, ReaderTypes, Parity, Lossless,
        InFlight, Survives, Survivable
<1>10. ASSUME NEW v \in Writers PROVE WriterFinalises(v)'
    BY DEF WriterFinalises, StoreTypes, ReaderLocks, Finaliser, Committed
<1>11. ASSUME NEW q \in Readers, q # r PROVE ReaderInv(q)'
    <2>1. ReaderLocks(q)'
        BY <1>11 DEF ReaderLocks, ReaderTypes
    <2>2. ReaderFinalises(q)'
        BY <1>11 DEF ReaderFinalises, ReaderTypes, ReaderLocks, Finaliser
    <2>3. Observes(q)'
        BY <1>11 DEF Observes, ReaderTypes
    <2> QED
        BY <2>1, <2>2, <2>3
<1>12. ReaderLocks(r)'
    BY DEF ReaderLocks, ReaderTypes
<1>13. ReaderFinalises(r)'
    BY DEF ReaderFinalises, ReaderTypes, ReaderLocks, Finaliser
<1>14. Observes(r)'
    BY DEF Observes, ReaderTypes
<1> QED
    BY <1>1, <1>2, <1>3, <1>4, <1>5, <1>6, <1>7, <1>8, <1>9, <1>10, <1>11, <1>12,
        <1>13, <1>14

LEMMA InitTokenStep ==
    ASSUME Survives, Inv, NEW r \in Readers, InitToken(r)
    PROVE  Inv'
<1> USE DEF Inv, TypeOK, CacheInv, ReaderInv, InitToken, Initialises, Again,
    Continues, Returns, Generation, Pending, Fails, Goto, Ends, Unlocked
<1>1. StoreTypes'
    <2>1. gen' \in Nat \cup {Absent} /\ rowLock' \in Writers \cup Readers \cup {"none"}
        BY DEF StoreTypes, ReaderTypes
    <2>2. hash' \in [gen : Nat, ver : Nat] \cup {NoHash}
        BY DEF StoreTypes, ReaderTypes, Locking, ReaderLocks
    <2> QED
        BY <2>1, <2>2 DEF StoreTypes
<1>2. WriterTypes'
    BY DEF WriterTypes
<1>3. ReaderTypes'
    <2>1. CASE Again(r, "recover")
        BY <2>1, AgainTypes
    <2>2. CASE Continues(r, "before") /\ UNCHANGED locals
        BY <2>2, ContinuesTypes DEF ReaderTypes
    <2>3. CASE Returns(r, copy[r].ver)
        <3>1. copy[r].ver \in Nat \cup {Deleted}
            BY DEF ReaderTypes
        <3> QED
            BY <2>3, <3>1, ReturnsTypes
    <2> QED
        BY <2>1, <2>2, <2>3
<1>4. FaultTypes'
    BY DEF FaultTypes
<1>5. HashIsCurrent'
    BY DEF HashIsCurrent, StoreTypes, Parity, Locking, ReaderLocks, Trustable
<1>6. Parity'
    BY DEF Parity
<1>7. Locking'
    BY DEF Locking
<1>8. MutationFenced'
    BY DEF MutationFenced, Locking, ReaderLocks, Trustable
<1>9. RollbackSafe'
    BY DEF RollbackSafe, WriterTypes, Lossless, InFlight, Survives, Survivable
<1>10. ASSUME NEW v \in Writers PROVE WriterFinalises(v)'
    BY DEF WriterFinalises, Finaliser, Committed
<1>11. ASSUME NEW q \in Readers, q # r PROVE ReaderInv(q)'
    <2>1. ReaderLocks(q)'
        BY <1>11 DEF ReaderLocks, ReaderTypes
    <2>2. ReaderFinalises(q)'
        BY <1>11 DEF ReaderFinalises, ReaderTypes, Finaliser
    <2>3. Observes(q)'
        BY <1>11 DEF Observes, ReaderTypes, ReaderLocks
    <2> QED
        BY <2>1, <2>2, <2>3
<1>12. ReaderLocks(r)'
    BY DEF ReaderLocks, ReaderTypes
<1>13. ReaderFinalises(r)'
    BY DEF ReaderFinalises, ReaderTypes, Finaliser
<1>14. Observes(r)'
    BY DEF Observes, ReaderTypes, ReaderLocks
<1> QED
    BY <1>1, <1>2, <1>3, <1>4, <1>5, <1>6, <1>7, <1>8, <1>9, <1>10, <1>11, <1>12,
        <1>13, <1>14

-----------------------------------------------------------------------------
(* Time and faults.                                                        *)

LEMMA ExpirePendingStep ==
    ASSUME Survives, Inv, ExpirePending
    PROVE  Inv'
<1> USE DEF Inv, TypeOK, CacheInv, ReaderInv, ExpirePending, Pending
<1>1. StoreTypes'
    BY DEF StoreTypes
<1>2. WriterTypes'
    BY DEF WriterTypes
<1>3. ReaderTypes'
    BY DEF ReaderTypes
<1>4. FaultTypes'
    BY DEF FaultTypes
<1>5. HashIsCurrent'
    BY DEF HashIsCurrent, Trustable
<1>6. Parity'
    BY DEF Parity
<1>7. Locking'
    BY DEF Locking
<1>8. MutationFenced'
    BY DEF MutationFenced, Trustable
<1>9. RollbackSafe'
    BY DEF RollbackSafe, Lossless, Generation, InFlight, Survives, Survivable
<1>10. ASSUME NEW v \in Writers PROVE WriterFinalises(v)'
    BY OddFacts DEF WriterFinalises, Parity, Finaliser, Committed
<1>11. ASSUME NEW q \in Readers PROVE ReaderInv(q)'
    <2>1. ReaderLocks(q)'
        BY DEF ReaderLocks
    <2>2. ReaderFinalises(q)'
        BY OddFacts DEF ReaderFinalises, Finaliser
    <2>3. Observes(q)'
        BY DEF Observes
    <2> QED
        BY <2>1, <2>2, <2>3
<1> QED
    BY <1>1, <1>2, <1>3, <1>4, <1>5, <1>6, <1>7, <1>8, <1>9, <1>10, <1>11

LEMMA ExpireHashStep ==
    ASSUME Survives, Inv, ExpireHash
    PROVE  Inv'
<1> USE DEF Inv, TypeOK, CacheInv, ReaderInv, ExpireHash
<1>1. StoreTypes'
    BY DEF StoreTypes
<1>2. WriterTypes'
    BY DEF WriterTypes
<1>3. ReaderTypes'
    BY DEF ReaderTypes
<1>4. FaultTypes'
    BY DEF FaultTypes
<1>5. HashIsCurrent'
    BY DEF HashIsCurrent, Trustable
<1>6. Parity'
    BY DEF Parity
<1>7. Locking'
    BY DEF Locking
<1>8. MutationFenced'
    BY DEF MutationFenced, Trustable
<1>9. RollbackSafe'
    BY DEF RollbackSafe, Lossless, Generation, InFlight, Survives, Survivable
<1>10. ASSUME NEW v \in Writers PROVE WriterFinalises(v)'
    BY DEF WriterFinalises, Finaliser, Committed
<1>11. ASSUME NEW q \in Readers PROVE ReaderInv(q)'
    <2>1. ReaderLocks(q)'
        BY DEF ReaderLocks
    <2>2. ReaderFinalises(q)'
        BY DEF ReaderFinalises, Finaliser
    <2>3. Observes(q)'
        BY DEF Observes
    <2> QED
        BY <2>1, <2>2, <2>3
<1> QED
    BY <1>1, <1>2, <1>3, <1>4, <1>5, <1>6, <1>7, <1>8, <1>9, <1>10, <1>11

LEMMA InvalidateTokenCacheStep ==
    ASSUME Survives, Inv, InvalidateTokenCache
    PROVE  Inv'
<1> USE DEF Inv, TypeOK, CacheInv, ReaderInv, InvalidateTokenCache, Fault,
    Generation
<1>1. StoreTypes'
    BY DEF StoreTypes
<1>2. WriterTypes'
    BY DEF WriterTypes
<1>3. ReaderTypes'
    BY DEF ReaderTypes
<1>4. FaultTypes'
    BY DEF FaultTypes
<1>5. HashIsCurrent'
    BY DEF HashIsCurrent, Trustable
<1>6. Parity'
    BY DEF Parity
<1>7. Locking'
    BY DEF Locking
<1>8. MutationFenced'
    BY OddFacts DEF MutationFenced, StoreTypes, Trustable
<1>9. RollbackSafe'
    BY DEF RollbackSafe, StoreTypes, WriterTypes, Parity, Lossless, InFlight,
        Survives, Survivable
<1>10. ASSUME NEW v \in Writers PROVE WriterFinalises(v)'
    BY OddFacts DEF WriterFinalises, StoreTypes, Parity, Finaliser, Committed
<1>11. ASSUME NEW q \in Readers PROVE ReaderInv(q)'
    <2>1. ReaderLocks(q)'
        BY DEF ReaderLocks
    <2>2. ReaderFinalises(q)'
        BY OddFacts DEF ReaderFinalises, StoreTypes, Finaliser
    <2>3. Observes(q)'
        BY DEF Observes
    <2> QED
        BY <2>1, <2>2, <2>3
<1> QED
    BY <1>1, <1>2, <1>3, <1>4, <1>5, <1>6, <1>7, <1>8, <1>9, <1>10, <1>11

LEMMA FlushStep ==
    ASSUME Survives, Inv, Flush
    PROVE  Inv'
<1> USE DEF Inv, TypeOK, CacheInv, ReaderInv, Flush, Fault
<1>1. StoreTypes'
    BY DEF StoreTypes
<1>2. WriterTypes'
    BY DEF WriterTypes
<1>3. ReaderTypes'
    BY DEF ReaderTypes
<1>4. FaultTypes'
    BY DEF FaultTypes
<1>5. HashIsCurrent'
    BY DEF HashIsCurrent, Trustable
<1>6. Parity'
    BY DEF Parity
<1>7. Locking'
    BY DEF Locking
<1>8. MutationFenced'
    BY DEF MutationFenced, Trustable
<1>9. RollbackSafe'
    BY DEF RollbackSafe, Lossless, Generation, InFlight, Survives, Survivable
<1>10. ASSUME NEW v \in Writers PROVE WriterFinalises(v)'
    BY OddFacts DEF WriterFinalises, WriterTypes, Parity, Finaliser, Committed
<1>11. ASSUME NEW q \in Readers PROVE ReaderInv(q)'
    <2>1. ReaderLocks(q)'
        BY DEF ReaderLocks
    <2>2. ReaderFinalises(q)'
        BY OddFacts DEF ReaderFinalises, ReaderTypes, Finaliser
    <2>3. Observes(q)'
        BY DEF Observes
    <2> QED
        BY <2>1, <2>2, <2>3
<1> QED
    BY <1>1, <1>2, <1>3, <1>4, <1>5, <1>6, <1>7, <1>8, <1>9, <1>10, <1>11

LEMMA EvictStep ==
    ASSUME Survives, Inv, Evict
    PROVE  Inv'
<1> USE DEF Inv, TypeOK, CacheInv, ReaderInv, Evict, Fault
<1>1. StoreTypes'
    BY DEF StoreTypes
<1>2. WriterTypes'
    BY DEF WriterTypes
<1>3. ReaderTypes'
    BY DEF ReaderTypes
<1>4. FaultTypes'
    BY DEF FaultTypes
<1>5. HashIsCurrent'
    BY DEF HashIsCurrent, Trustable
<1>6. Parity'
    BY DEF Parity
<1>7. Locking'
    BY DEF Locking
<1>8. MutationFenced'
    BY DEF MutationFenced, Trustable
<1>9. RollbackSafe'
    BY DEF RollbackSafe, Lossless, Generation, InFlight, Survives, Survivable
<1>10. ASSUME NEW v \in Writers PROVE WriterFinalises(v)'
    BY DEF WriterFinalises, WriterTypes, Finaliser, Committed
<1>11. ASSUME NEW q \in Readers PROVE ReaderInv(q)'
    <2>1. ReaderLocks(q)'
        BY DEF ReaderLocks
    <2>2. ReaderFinalises(q)'
        BY DEF ReaderFinalises, ReaderTypes, Finaliser
    <2>3. Observes(q)'
        BY DEF Observes
    <2> QED
        BY <2>1, <2>2, <2>3
<1> QED
    BY <1>1, <1>2, <1>3, <1>4, <1>5, <1>6, <1>7, <1>8, <1>9, <1>10, <1>11
-----------------------------------------------------------------------------
(* The invariant holds.                                                    *)

LEMMA InitInv == Survives /\ Init => Inv
<1> SUFFICES ASSUME Init PROVE Inv
    OBVIOUS
<1>1. TypeOK
    BY DEF Init, TypeOK, StoreTypes, WriterTypes, ReaderTypes, FaultTypes
<1>2. HashIsCurrent /\ Parity /\ Locking /\ MutationFenced /\ RollbackSafe
    BY OddFacts DEF Init, HashIsCurrent, Trustable, Parity, Locking, MutationFenced,
        RollbackSafe, InFlight, Generation
<1>3. (\A w \in Writers : WriterFinalises(w)) /\ (\A r \in Readers : ReaderInv(r))
    BY DEF Init, WriterFinalises, ReaderInv, ReaderLocks, ReaderFinalises, Observes
<1> QED
    BY <1>1, <1>2, <1>3 DEF Inv, CacheInv

LEMMA StutterInv == ASSUME Inv, UNCHANGED vars PROVE Inv'
<1>1. TypeOK'
    BY DEF Inv, vars, TypeOK, StoreTypes, WriterTypes, ReaderTypes, FaultTypes
<1>2. Locking' /\ KeptInv'
    BY StoreKept DEF Inv, CacheInv, vars, Locking
<1>3. ASSUME NEW q \in Readers PROVE ReaderInv(q)'
    BY ReaderKept DEF Inv, vars
<1> QED
    BY <1>1, <1>2, <1>3 DEF Inv, CacheInv, KeptInv

LEMMA NextInv == ASSUME Survives, Inv, [Next]_vars PROVE Inv'
<1>1. ASSUME NEW w \in Writers, Writer(w) PROVE Inv'
    BY <1>1, LockRowStep, BeginMutationStep, BeginUncertainStep, CommitRowStep,
        CommitUncertainStep, MutationFailsStep, ReloadRowStep, ReconcileRowStep,
        PublishStep, RollbackStep, CrashStep
        DEF Writer
<1>2. ASSUME NEW r \in Readers, Reader(r) PROVE Inv'
    BY <1>2, GetTokenByKeyStep, CacheBeforeStep, CacheHashStep, CacheAfterStep,
        LoadGenerationStep, ReadRowStep, FinishMutationStep, LockForRecoveryStep,
        RecoverStep, RecoverFinishStep, RestoreGenerationStep, InitTokenStep
        DEF Reader
<1>3. ASSUME Environment PROVE Inv'
    BY <1>3, ExpirePendingStep, ExpireHashStep, InvalidateTokenCacheStep, FlushStep,
        EvictStep
        DEF Environment
<1> QED
    BY <1>1, <1>2, <1>3, StutterInv DEF Next

\* Where Redis does not lose the generation and a mutation is not rolled back in
\* the same behaviour, the invariant that relates the row, the generation, the
\* hash and every process of model/token_cache.go always holds.
THEOREM CacheInvariant ==
    ASSUME Survives
    PROVE  Spec => [](TypeOK /\ CacheInv)
<1>1. Init => Inv
    BY InitInv
<1>2. Inv /\ [Next]_vars => Inv'
    BY NextInv
<1> QED
    BY <1>1, <1>2, PTL DEF Spec, Inv

\* The rows, Redis keys, mutations and lookups of model/token_cache.go always
\* have their types.
THEOREM TypeCorrect ==
    ASSUME Survives
    PROVE  Spec => []TypeOK
<1>1. Spec => [](TypeOK /\ CacheInv)
    BY CacheInvariant
<1> QED
    BY <1>1, PTL

-----------------------------------------------------------------------------
(* A lookup behind the cache is a lookup of the register.                  *)

\* What a step is to the caller.
Mapped == Register!RegisterNext \/ UNCHANGED <<row, seen, got>>

LEMMA FailsMaps ==
    ASSUME NEW r \in Readers, Fails(r), row' = row
    PROVE  Mapped
BY DEF Fails, Ends, Mapped, Register!RegisterNext, Register!Fail

LEMMA ReturnsMaps ==
    ASSUME NEW r \in Readers, NEW v \in seen[r], Returns(r, v), row' = row
    PROVE  Mapped
<1>1. Register!Return(r)
    BY DEF Returns, Ends, Register!Return
<1> QED
    BY <1>1 DEF Mapped, Register!RegisterNext

LEMMA CommitsMaps ==
    ASSUME Inv, NEW w \in Writers, wpc[w] = "mutate", Commits(w), got' = got
    PROVE  Mapped
<1>1. row # Deleted /\ wgen[w] \in Nat /\ wgen[w] > row /\ row \in Nat
    BY DEF Inv, TypeOK, StoreTypes, WriterTypes, CacheInv, Locking, MutationFenced
<1>2. seen' = Register!Seeing(row')
    BY DEF Commits, RowBecomes, Register!Seeing
<1>3. CASE op[w] = "delete"
    BY <1>1, <1>2, <1>3 DEF Commits, RowBecomes, Committed, Mapped, Register!RegisterNext,
        Register!Delete, Register!Deleted
<1>4. CASE op[w] # "delete"
    BY <1>1, <1>2, <1>4 DEF Commits, RowBecomes, Committed, Mapped, Register!RegisterNext,
        Register!Update, Register!Deleted
<1> QED
    BY <1>3, <1>4

LEMMA WriterMaps == ASSUME Inv, NEW w \in Writers, Writer(w) PROVE Mapped
<1>1. CASE CommitRow(w)
    BY <1>1, CommitsMaps DEF CommitRow
<1>2. CASE CommitUncertain(w)
    BY <1>2, CommitsMaps DEF CommitUncertain, Mapped
<1>3. CASE LockRow(w) \/ BeginMutation(w) \/ BeginUncertain(w) \/ MutationFails(w)
    BY <1>3 DEF LockRow, BeginMutation, BeginUncertain, MutationFails, Mapped
<1>4. CASE ReloadRow(w) \/ ReconcileRow(w)
    BY <1>4 DEF ReloadRow, ReconcileRow, Rereads, Mapped
<1>5. CASE Publish(w) \/ Rollback(w) \/ Crash(w)
    BY <1>5 DEF Publish, Rollback, Crash, Mapped
<1> QED
    BY <1>1, <1>2, <1>3, <1>4, <1>5 DEF Writer

LEMMA ReaderMaps == ASSUME Inv, NEW r \in Readers, Reader(r) PROVE Mapped
<1> USE DEF Inv, TypeOK, CacheInv, ReaderInv
<1>1. ASSUME NEW l, Continues(r, l), row' = row PROVE Mapped
    BY <1>1 DEF Continues, Mapped
<1>2. ASSUME NEW l, Again(r, l), row' = row PROVE Mapped
    BY <1>1, <1>2, FailsMaps DEF Again
<1>3. ASSUME Misses(r), row' = row PROVE Mapped
    BY <1>1, <1>3, FailsMaps DEF Misses
<1>4. CASE GetTokenByKey(r)
    BY <1>4 DEF GetTokenByKey, Observes, Mapped, Register!RegisterNext, Register!Call
<1>5. CASE CacheBefore(r) \/ CacheHash(r)
    BY <1>1, <1>3, <1>5 DEF CacheBefore, CacheHash
<1>6. CASE CacheAfter(r)
    <2>1. CASE Trusted(r)
        <3>1. copy[r].ver \in seen[r]
            BY <1>6, <2>1 DEF CacheAfter, Trusted, Observes
        <3> QED
            BY <1>6, <2>1, <3>1, ReturnsMaps DEF CacheAfter
    <2>2. CASE ~Trusted(r)
        BY <1>3, <1>6, <2>2 DEF CacheAfter
    <2> QED
        BY <2>1, <2>2
<1>7. CASE LoadGeneration(r)
    BY <1>1, <1>7, FailsMaps DEF LoadGeneration
<1>8. CASE ReadRow(r)
    <2>1. rpc[r] # "idle" /\ row \in seen[r] /\ row' = row
        BY <1>8 DEF ReadRow, Observes
    <2>2. Continues(r, "finish") \/ Continues(r, "lock") \/ Fails(r) \/ Returns(r, row)
        BY <1>8 DEF ReadRow, Holding
    <2> QED
        BY <1>1, <2>1, <2>2, FailsMaps, ReturnsMaps
<1>9. CASE FinishMutation(r) \/ RecoverFinish(r)
    BY <1>2, <1>9, FailsMaps DEF FinishMutation, RecoverFinish
<1>10. CASE LockForRecovery(r)
    BY <1>10 DEF LockForRecovery, Mapped
<1>11. CASE Recover(r)
    <2>1. row \in seen[r] /\ row' = row
        BY <1>11 DEF Recover, Observes
    <2>2. Fails(r) \/ Returns(r, row) \/ \E l : Continues(r, l)
        BY <1>11 DEF Recover, Holding
    <2> QED
        BY <1>1, <2>1, <2>2, FailsMaps, ReturnsMaps
<1>12. CASE RestoreGeneration(r)
    BY <1>2, <1>12, FailsMaps DEF RestoreGeneration
<1>13. CASE InitToken(r)
    <2>1. row \in seen[r] /\ copy[r].ver = row /\ row' = row
        BY <1>13 DEF InitToken, Observes, ReaderLocks
    <2> QED
        BY <1>1, <1>2, <1>13, <2>1, ReturnsMaps DEF InitToken
<1> QED
    BY <1>4, <1>5, <1>6, <1>7, <1>8, <1>9, <1>10, <1>11, <1>12, <1>13 DEF Reader

LEMMA EnvironmentMaps == ASSUME Environment PROVE Mapped
BY DEF Environment, ExpirePending, ExpireHash, InvalidateTokenCache, Flush, Evict, Mapped

\* GetTokenByKey returns the token as it was in the database at some moment of
\* the call, whatever mutations, lookups on other nodes, expiries, crashes and
\* losses of Redis keys come in between: TokenCache implements TokenRegister.
THEOREM LookupsLinearizable ==
    ASSUME Survives
    PROVE  Spec => Linearizable
<1>1. Init => Register!RegisterInit
    BY DEF Init, Register!RegisterInit
<1>2. Inv /\ [Next]_vars => [Register!RegisterNext]_(Register!vars)
    <2> SUFFICES ASSUME Inv, [Next]_vars PROVE Mapped
        BY DEF Mapped, Register!vars
    <2>1. CASE UNCHANGED vars
        BY <2>1 DEF vars, Mapped
    <2> QED
        BY <2>1, WriterMaps, ReaderMaps, EnvironmentMaps DEF Next
<1>3. Spec => []Inv
    BY CacheInvariant DEF Inv
<1> QED
    BY <1>1, <1>2, <1>3, PTL DEF Spec, Linearizable, Register!RegisterSpec
=============================================================================
