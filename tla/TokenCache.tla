----------------------------- MODULE TokenCache -----------------------------
(***************************************************************************)
(* The Redis cache of one API token: model/token_cache.go, and the lookups *)
(* and mutations of model/token.go that use it.  A mutation makes the      *)
(* generation odd before it changes the row and even again afterwards; a   *)
(* lookup trusts the cached hash only under an even generation that is the *)
(* hash's own and did not change while it read.                            *)
(*                                                                         *)
(* cache_generation of the row grows with every committed update, so it is *)
(* also the row's version here.  Each Redis script or command and each     *)
(* database statement is one step.  Processes are on different nodes: the  *)
(* mutexes of one node are left out, the row lock is not.  The quota       *)
(* counters of the hash are left out.                                      *)
(***************************************************************************)
EXTENDS Integers, FiniteSets

CONSTANTS
    Writers,      \* calls of mutateTokenMetadata
    Readers,      \* clients that look the token up, again and again
    MaxTries,     \* rounds of a lookup's loops
    FaultSets,    \* the kinds of faults a behaviour may have together
    MaxFaults     \* how many of them

FaultKinds == {"crash", "fail", "uncertain", "flush", "evict", "invalidate"}

ASSUME ActorsAssumption ==
    Writers \cap Readers = {} /\ "none" \notin Writers \cup Readers
ASSUME BoundsAssumption == MaxTries \in Nat \ {0} /\ MaxFaults \in Nat
\* A lost generation and a mutation that is rolled back are not survived
\* together, see TokenCacheRollback.cfg.
Survivable(F) == "fail" \notin F \/ {"flush", "evict"} \cap F = {}
ASSUME FaultsAssumption == FaultSets \subseteq SUBSET FaultKinds

VARIABLES
    row,               \* cache_generation of the row; Deleted when it is gone
    author,            \* metadata_mutation_id of the row: its last update
    rowLock,           \* transaction that holds the row's lock
    gen, pend, hash,   \* Redis: generation, pending marker, the token's hash
    wpc, op, wgen,     \* a mutation: its next step, its kind, its generation
    rpc, rgen, copy, tries,   \* a lookup: next step, expected generation, what it read
    seen, got,         \* history: the row's versions during a lookup, its result
    kinds, faults      \* faults that may happen, and how many did

redis == <<gen, pend, hash>>
wvars == <<wpc, op, wgen>>
locals == <<rgen, copy, tries>>
rvars == <<rpc, locals, got>>
fvars == <<kinds, faults>>
dbvars == <<row, author>>
vars == <<dbvars, rowLock, redis, wvars, rvars, seen, fvars>>

Absent == -1
Deleted == -1
NoHash == [gen |-> Absent, ver |-> Absent]

Odd(n) == n % 2 = 1
Larger(m, n) == IF m > n THEN m ELSE n

\* GET of the generation, or '0'.
Generation == IF gen = Absent THEN 0 ELSE gen
Pending == pend # 0

Fault(kind) == kind \in kinds /\ faults < MaxFaults /\ faults' = faults + 1 /\ UNCHANGED kinds

Unlocked(p) == rowLock' = IF rowLock = p THEN "none" ELSE rowLock

\* The row changes while lookups are under way.
RowBecomes(v) ==
    /\ row' = v
    /\ seen' = [r \in Readers |-> IF seen[r] = {} THEN {} ELSE seen[r] \cup {v}]

-----------------------------------------------------------------------------
(* The scripts of token_cache.go.                                          *)

\* A finalisation finds generation g, or restores it from the pending marker.
Finishes(g) == gen = g \/ (gen = Absent /\ pend = g)

\* It reports success also when the generation is past g.
FinishedBy(g) == Finishes(g) \/ gen > g

ClearPending(g) == pend' = IF pend = g THEN 0 ELSE pend

\* commitTokenCacheMutation of version v.
CommitMutation(g, v) ==
    IF Finishes(g)
    THEN /\ gen' = g + 1
         /\ hash' = IF hash = NoHash THEN NoHash ELSE [gen |-> g + 1, ver |-> v]
         /\ ClearPending(g)
    ELSE UNCHANGED redis

CommitDeleteMutation(g) ==
    IF Finishes(g)
    THEN gen' = g + 1 /\ hash' = NoHash /\ ClearPending(g)
    ELSE UNCHANGED redis

\* Either of them, for a row of version v.
Finalise(g, v) == IF v = Deleted THEN CommitDeleteMutation(g) ELSE CommitMutation(g, v)

RollbackMutation(g) ==
    IF Finishes(g)
    THEN gen' = g - 1 /\ ClearPending(g) /\ UNCHANGED hash
    ELSE UNCHANGED redis

\* restoreTokenCacheGenerationForColdCache.
Restorable(v) == ~Pending /\ hash = NoHash /\ ~Odd(Generation) /\ Generation <= v

\* cacheInitToken: may it publish, or keep, a hash of generation g, when the row
\* was read with version v?
Initialises(g, v) == Generation >= v /\ Generation = g /\ ~Odd(g) /\ ~Pending

-----------------------------------------------------------------------------
(* mutateTokenMetadata.                                                    *)

\* The call returns, and forgets its locals.
Done(w) ==
    /\ wpc' = [wpc EXCEPT ![w] = "done"]
    /\ op' = [op EXCEPT ![w] = "update"] /\ wgen' = [wgen EXCEPT ![w] = 0]
    /\ Unlocked(w)

LockRow(w) ==
    /\ wpc[w] = "start" /\ rowLock = "none"
    /\ IF row = Deleted
       THEN Done(w)
       ELSE /\ wpc' = [wpc EXCEPT ![w] = "fence"]
            /\ rowLock' = w
            /\ \E o \in {"update", "delete"} : op' = [op EXCEPT ![w] = o]
            /\ UNCHANGED wgen
    /\ UNCHANGED <<dbvars, redis, rvars, seen, fvars>>

NextGeneration == Larger(Generation, row) + 1

\* Mutant: only the marker, which expires.
FenceMarkerOnly == pend' = NextGeneration /\ UNCHANGED gen

Fence == gen' = NextGeneration /\ pend' = NextGeneration

\* beginTokenCacheMutation: refused while another mutation is unresolved.
BeginMutation(w) ==
    /\ wpc[w] = "fence"
    /\ IF Odd(Generation) \/ Pending
       THEN Done(w) /\ UNCHANGED <<gen, pend>>
       ELSE /\ Fence
            /\ wpc' = [wpc EXCEPT ![w] = "mutate"]
            /\ wgen' = [wgen EXCEPT ![w] = NextGeneration]
            /\ UNCHANGED <<rowLock, op>>
    /\ UNCHANGED <<dbvars, hash, rvars, seen, fvars>>

\* The script ran and its answer was lost.
BeginUncertain(w) ==
    /\ wpc[w] = "fence" /\ ~Odd(Generation) /\ ~Pending
    /\ Fault("uncertain")
    /\ Fence /\ Done(w)
    /\ UNCHANGED <<dbvars, hash, rvars, seen>>

Committed(w) == IF op[w] = "delete" THEN Deleted ELSE wgen[w] + 1

Commits(w) ==
    /\ RowBecomes(Committed(w))
    /\ author' = IF op[w] = "delete" THEN author ELSE w

CommitRow(w) ==
    /\ wpc[w] = "mutate"
    /\ Commits(w)
    /\ wpc' = [wpc EXCEPT ![w] = IF op[w] = "delete" THEN "publish" ELSE "reload"]
    /\ Unlocked(w)
    /\ UNCHANGED <<redis, op, wgen, rvars, fvars>>

\* The commit reports an error: it took effect or it did not.
CommitUncertain(w) ==
    /\ wpc[w] = "mutate"
    /\ Fault("uncertain")
    /\ Commits(w) \/ UNCHANGED <<dbvars, seen>>
    /\ wpc' = [wpc EXCEPT ![w] = "reconcile"]
    /\ Unlocked(w)
    /\ UNCHANGED <<redis, op, wgen, rvars>>

\* The row is read again before it is published.
Rereads(w, verified) ==
    /\ IF verified
       THEN wpc' = [wpc EXCEPT ![w] = "publish"] /\ UNCHANGED <<rowLock, op, wgen>>
       ELSE Done(w)
    /\ UNCHANGED <<dbvars, redis, rvars, seen, fvars>>

ReloadRow(w) == wpc[w] = "reload" /\ Rereads(w, row = Committed(w))

\* reconcileTokenMutationCommitError: was it this update?  Any deletion will do.
ReconcileRow(w) ==
    /\ wpc[w] = "reconcile"
    /\ Rereads(w, row = Committed(w) /\ (op[w] = "delete" \/ author = w))

Publish(w) ==
    /\ wpc[w] = "publish"
    /\ Finalise(wgen[w], Committed(w))
    /\ Done(w)
    /\ UNCHANGED <<dbvars, rvars, seen, fvars>>

\* A statement of the mutation fails and the transaction is rolled back.
MutationFails(w) ==
    /\ wpc[w] = "mutate"
    /\ Fault("fail")
    /\ wpc' = [wpc EXCEPT ![w] = "rollback"]
    /\ Unlocked(w)
    /\ UNCHANGED <<dbvars, redis, op, wgen, rvars, seen>>

Rollback(w) ==
    /\ wpc[w] = "rollback"
    /\ RollbackMutation(wgen[w])
    /\ Done(w)
    /\ UNCHANGED <<dbvars, rvars, seen, fvars>>

-----------------------------------------------------------------------------
(* GetTokenByKey.                                                          *)

Goto(r, label) == rpc' = [rpc EXCEPT ![r] = label]
Continues(r, label) == Goto(r, label) /\ UNCHANGED <<got, seen, rowLock>>

\* The call returns and forgets its locals.
Ends(r) ==
    /\ Goto(r, "idle")
    /\ rgen' = [rgen EXCEPT ![r] = 0]
    /\ copy' = [copy EXCEPT ![r] = NoHash]
    /\ tries' = [tries EXCEPT ![r] = MaxTries]
    /\ seen' = [seen EXCEPT ![r] = {}]
    /\ Unlocked(r)

Returns(r, v) == Ends(r) /\ got' = [got EXCEPT ![r] = v]

\* errTokenCacheMutationPending, or another error.
Fails(r) == Ends(r) /\ UNCHANGED got

\* The next round of a loop, unless it was the last.
Again(r, label) ==
    IF tries[r] > 1
    THEN /\ Continues(r, label)
         /\ tries' = [tries EXCEPT ![r] = @ - 1]
         /\ UNCHANGED <<rgen, copy>>
    ELSE Fails(r)

\* The cache has no answer: go on to the database, or give up when it was
\* recoverTokenCacheFromDatabase that asked.
Misses(r) ==
    IF rowLock = r THEN Fails(r) ELSE Continues(r, "load") /\ UNCHANGED locals

\* The call, with or without fromDB.
GetTokenByKey(r) ==
    /\ rpc[r] = "idle"
    /\ Goto(r, "before") \/ Goto(r, "load")
    /\ seen' = [seen EXCEPT ![r] = {row}]
    /\ UNCHANGED <<dbvars, rowLock, redis, wvars, locals, got, fvars>>

\* cacheGetTokenByKey: the generation, the hash, the generation again.
CacheBefore(r) ==
    /\ rpc[r] = "before"
    /\ IF gen # Absent /\ ~Pending /\ ~Odd(gen)
       THEN /\ Continues(r, "hash")
            /\ rgen' = [rgen EXCEPT ![r] = gen]
            /\ UNCHANGED <<copy, tries>>
       ELSE Misses(r)
    /\ UNCHANGED <<dbvars, redis, wvars, fvars>>

CacheHash(r) ==
    /\ rpc[r] = "hash"
    /\ IF hash # NoHash
       THEN /\ Continues(r, "after")
            /\ copy' = [copy EXCEPT ![r] = hash]
            /\ UNCHANGED <<rgen, tries>>
       ELSE Misses(r)
    /\ UNCHANGED <<dbvars, redis, wvars, fvars>>

Trusted(r) == ~Pending /\ gen = rgen[r] /\ copy[r].gen = rgen[r]

CacheAfter(r) ==
    /\ rpc[r] = "after"
    /\ IF Trusted(r) THEN Returns(r, copy[r].ver) ELSE Misses(r)
    /\ UNCHANGED <<dbvars, redis, wvars, fvars>>

\* getTokenByKeyAcrossGeneration: the generation, then the row.
LoadGeneration(r) ==
    /\ rpc[r] = "load"
    /\ IF Pending
       THEN Fails(r)
       ELSE /\ Continues(r, "db")
            /\ rgen' = [rgen EXCEPT ![r] = Generation]
            /\ UNCHANGED <<copy, tries>>
    /\ UNCHANGED <<dbvars, redis, wvars, fvars>>

\* Mutant: a row that is gone resolves nothing.
ResolvedUpdate(g) == row = g + 1

\* The row shows that the mutation of generation g is committed.
Resolved(g) == row \in {Deleted, g + 1}

\* The row was read: go on with it.
Holding(r, label) ==
    /\ Continues(r, label)
    /\ copy' = [copy EXCEPT ![r] = [gen |-> Absent, ver |-> row]]
    /\ UNCHANGED tries

ReadRow(r) ==
    /\ rpc[r] = "db"
    /\ IF Odd(rgen[r])
       THEN IF Resolved(rgen[r])
            THEN Holding(r, "finish") /\ UNCHANGED rgen ELSE Fails(r)
       ELSE IF row = Deleted
            THEN Returns(r, Deleted) ELSE Continues(r, "lock") /\ UNCHANGED locals
    /\ UNCHANGED <<dbvars, redis, wvars, fvars>>

\* A lookup finalises a mutation that is committed and unfinished.
FinishMutation(r) ==
    /\ rpc[r] = "finish"
    /\ Finalise(rgen[r], copy[r].ver)
    /\ IF FinishedBy(rgen[r]) THEN Again(r, "load") ELSE Fails(r)
    /\ UNCHANGED <<dbvars, wvars, fvars>>

\* recoverTokenCacheFromDatabase, which holds the row's lock to its end.
LockForRecovery(r) ==
    /\ rpc[r] = "lock" /\ rowLock = "none"
    /\ rowLock' = IF row = Deleted THEN "none" ELSE r
    /\ Goto(r, "recover") /\ tries' = [tries EXCEPT ![r] = MaxTries]
    /\ UNCHANGED <<dbvars, redis, wvars, rgen, copy, got, seen, fvars>>

Recover(r) ==
    /\ rpc[r] = "recover"
    /\ \/ Pending /\ Fails(r)
       \/ /\ ~Pending /\ Odd(Generation)
          /\ IF Resolved(Generation)
             THEN Holding(r, "refinish") /\ rgen' = [rgen EXCEPT ![r] = Generation]
             ELSE Fails(r)
       \/ /\ ~Pending /\ ~Odd(Generation)
          /\ IF row = Deleted
             THEN Returns(r, Deleted)
             ELSE /\ Holding(r, IF row > Generation THEN "restore" ELSE "init")
                  /\ rgen' = [rgen EXCEPT ![r] = Generation]
    /\ UNCHANGED <<dbvars, redis, wvars, fvars>>

RecoverFinish(r) ==
    /\ rpc[r] = "refinish"
    /\ Finalise(rgen[r], copy[r].ver)
    /\ IF FinishedBy(rgen[r]) THEN Again(r, "recover") ELSE Fails(r)
    /\ UNCHANGED <<dbvars, wvars, fvars>>

RestoreGeneration(r) ==
    /\ rpc[r] = "restore"
    /\ IF Restorable(copy[r].ver)
       THEN gen' = copy[r].ver /\ Again(r, "recover")
       ELSE UNCHANGED gen /\ Fails(r)
    /\ UNCHANGED <<dbvars, pend, hash, wvars, fvars>>

\* cacheInitToken: 0, 2 or 1.
InitToken(r) ==
    /\ rpc[r] = "init"
    /\ \/ /\ ~Initialises(rgen[r], copy[r].ver) \/ hash.gen \notin {Absent, rgen[r]}
          /\ Again(r, "recover")
          /\ UNCHANGED <<gen, hash>>
       \/ /\ Initialises(rgen[r], copy[r].ver) /\ hash # NoHash /\ hash.gen = rgen[r]
          /\ gen' = rgen[r] /\ Continues(r, "before")
          /\ UNCHANGED <<hash, locals>>
       \/ /\ Initialises(rgen[r], copy[r].ver) /\ hash = NoHash
          /\ gen' = rgen[r] /\ hash' = [gen |-> rgen[r], ver |-> copy[r].ver]
          /\ Returns(r, copy[r].ver)
    /\ UNCHANGED <<dbvars, pend, wvars, fvars>>

-----------------------------------------------------------------------------
(* Time and faults.                                                        *)

\* Ten seconds have passed.
ExpirePending ==
    /\ Pending
    /\ pend' = 0
    /\ UNCHANGED <<dbvars, rowLock, gen, hash, wvars, rvars, seen, fvars>>

ExpireHash ==
    /\ hash # NoHash
    /\ hash' = NoHash
    /\ UNCHANGED <<dbvars, rowLock, gen, pend, wvars, rvars, seen, fvars>>

\* The user is disabled or changed, and with it his tokens' caches.
InvalidateTokenCache ==
    /\ Fault("invalidate")
    /\ gen' = IF Odd(Generation) THEN gen ELSE Generation + 2
    /\ hash' = NoHash
    /\ UNCHANGED <<dbvars, rowLock, pend, wvars, rvars, seen>>

\* Redis loses everything.
Flush ==
    /\ Fault("flush")
    /\ gen' = Absent /\ pend' = 0 /\ hash' = NoHash
    /\ UNCHANGED <<dbvars, rowLock, wvars, rvars, seen>>

\* Redis evicts the generation, which has no expiry, and keeps the rest.
Evict ==
    /\ gen # Absent
    /\ Fault("evict")
    /\ gen' = Absent
    /\ UNCHANGED <<dbvars, rowLock, pend, hash, wvars, rvars, seen>>

\* The node of a mutation dies; the database releases its lock.
Crash(w) ==
    /\ wpc[w] \notin {"start", "done"}
    /\ Fault("crash")
    /\ Done(w)
    /\ UNCHANGED <<dbvars, redis, rvars, seen>>

-----------------------------------------------------------------------------
Init ==
    /\ row = 0 /\ author = "none" /\ rowLock = "none"
    /\ gen = Absent /\ pend = 0 /\ hash = NoHash
    /\ wpc = [w \in Writers |-> "start"]
    /\ op = [w \in Writers |-> "update"] /\ wgen = [w \in Writers |-> 0]
    /\ rpc = [r \in Readers |-> "idle"] /\ rgen = [r \in Readers |-> 0]
    /\ copy = [r \in Readers |-> NoHash] /\ tries = [r \in Readers |-> MaxTries]
    /\ seen = [r \in Readers |-> {}] /\ got = [r \in Readers |-> 0]
    /\ kinds \in FaultSets /\ faults = 0

Writer(w) ==
    \/ LockRow(w) \/ BeginMutation(w) \/ BeginUncertain(w)
    \/ CommitRow(w) \/ CommitUncertain(w) \/ MutationFails(w)
    \/ ReloadRow(w) \/ ReconcileRow(w) \/ Publish(w) \/ Rollback(w) \/ Crash(w)

Reader(r) ==
    \/ GetTokenByKey(r) \/ CacheBefore(r) \/ CacheHash(r) \/ CacheAfter(r)
    \/ LoadGeneration(r) \/ ReadRow(r) \/ FinishMutation(r)
    \/ LockForRecovery(r) \/ Recover(r) \/ RecoverFinish(r)
    \/ RestoreGeneration(r) \/ InitToken(r)

Environment ==
    ExpirePending \/ ExpireHash \/ InvalidateTokenCache \/ Flush \/ Evict

Next ==
    \/ \E w \in Writers : Writer(w)
    \/ \E r \in Readers : Reader(r)
    \/ Environment

Spec == Init /\ [][Next]_vars

\* A mutation that goes on.
Proceed(w) ==
    \/ BeginMutation(w) \/ CommitRow(w) \/ ReloadRow(w) \/ ReconcileRow(w)
    \/ Publish(w) \/ Rollback(w)

\* Requests keep coming, requests and mutations run to their end, and the
\* marker expires.
FairSpec ==
    /\ Spec
    /\ \A w \in Writers : WF_vars(Proceed(w))
    /\ \A r \in Readers : WF_vars(Reader(r))
    /\ WF_vars(ExpirePending)

-----------------------------------------------------------------------------
(* Correctness.                                                            *)

\* A lookup returns the token as it was at some moment of the lookup: the cache
\* never serves metadata that an update or a deletion replaced before.
Register == INSTANCE TokenRegister WITH value <- row, open <- seen, answer <- got
Linearizable == Register!RegisterSpec

\* A mutation whose row is committed is published to the cache even if its
\* node died in between: lookups finalise it.
Unpublished == gen > 0 /\ Odd(gen) /\ row \in {Deleted, gen + 1}
CommittedIsPublished == Unpublished ~> ~Unpublished

\* No mutation leaves its fence behind, with which lookups and mutations fail
\* until Redis forgets the token.
FenceIsLifted == (gen > 0 /\ Odd(gen)) ~> ~(gen > 0 /\ Odd(gen))

\* The row, the Redis keys, mutations, lookups and faults have their types.
StoreTypes ==
    /\ row \in Nat \cup {Deleted} /\ author \in Writers \cup {"none"}
    /\ gen \in Nat \cup {Absent} /\ pend \in Nat
    /\ hash \in [gen : Nat, ver : Nat] \cup {NoHash}
    /\ rowLock \in Writers \cup Readers \cup {"none"}

WriterTypes ==
    /\ wpc \in [Writers -> {"start", "fence", "mutate", "reload", "reconcile",
                            "publish", "rollback", "done"}]
    /\ op \in [Writers -> {"update", "delete"}] /\ wgen \in [Writers -> Nat]

ReaderTypes ==
    /\ rpc \in [Readers -> {"idle", "before", "hash", "after", "load", "db", "finish",
                            "lock", "recover", "refinish", "restore", "init"}]
    /\ rgen \in [Readers -> Nat]
    /\ copy \in [Readers -> [gen : Nat \cup {Absent}, ver : Nat \cup {Deleted}]]
    /\ tries \in [Readers -> 1..MaxTries]
    /\ seen \in [Readers -> SUBSET (Nat \cup {Deleted})]
    /\ got \in [Readers -> Nat \cup {Deleted}]

FaultTypes == kinds \in FaultSets /\ faults \in 0..MaxFaults

TypeOK == StoreTypes /\ WriterTypes /\ ReaderTypes /\ FaultTypes

-----------------------------------------------------------------------------
(* Why a lookup is linearizable.                                           *)

\* A lookup that finds this trusts the hash.
Trustable == gen # Absent /\ ~Odd(gen) /\ hash # NoHash /\ hash.gen = gen

\* A hash that can be trusted is the row's.
HashIsCurrent == Trustable => hash.ver = row

\* Generations of rows and hashes are even, those of fences odd.
Parity ==
    /\ row = Deleted \/ ~Odd(row)
    /\ pend = 0 \/ Odd(pend)
    /\ hash = NoHash \/ (~Odd(hash.gen) /\ hash.ver <= hash.gen)
    /\ \A w \in Writers : wpc[w] \in {"mutate", "reload", "reconcile", "publish", "rollback"}
                            => Odd(wgen[w])

\* A row that is locked exists, and a mutation holds the lock until it commits.
Locking ==
    /\ rowLock # "none" => row # Deleted
    /\ \A w \in Writers : (wpc[w] \in {"fence", "mutate"}) <=> (rowLock = w)

\* A mutation under way is ahead of the row and of every other fence, and the
\* cache cannot be trusted.
MutationFenced ==
    \A w \in Writers : wpc[w] = "mutate" =>
        /\ wgen[w] > row
        /\ gen = Absent \/ ~Odd(gen) \/ gen = wgen[w]
        /\ pend \in {0, wgen[w]}
        /\ ~Trustable

\* Where mutations are rolled back, Redis loses nothing: the one under way owns
\* the generation and left the hash as it was.
Lossless == {"flush", "evict"} \cap kinds = {}
InFlight(w) == wpc[w] \in {"mutate", "rollback"}
RollbackSafe ==
    /\ \A w \in Writers : wpc[w] = "rollback" => Lossless /\ row < wgen[w] /\ row # Deleted
    /\ Lossless =>
         /\ gen = Absent => hash = NoHash
         /\ row <= Generation + 1
         /\ \A w \in Writers : InFlight(w) =>
              /\ gen = wgen[w]
              /\ hash.gen = wgen[w] - 1 => hash = NoHash \/ hash.ver = row
         /\ \A v, w \in Writers : InFlight(v) /\ InFlight(w) => v = w

\* Whoever may still finalise generation g has version v of the row, or the row
\* and the fences are past it.
Finaliser(g, v) ==
    /\ v = Deleted => row = Deleted
    /\ v # Deleted => v = g + 1 /\ (row = Deleted \/ row >= v)
    /\ gen = g \/ pend = g => row = v

WriterFinalises(w) ==
    wpc[w] \in {"reload", "publish"} => Finaliser(wgen[w], Committed(w))
ReaderFinalises(r) ==
    rpc[r] \in {"finish", "refinish"} => Odd(rgen[r]) /\ Finaliser(rgen[r], copy[r].ver)

\* A lookup in recovery holds the lock of a row that exists.
ReaderLocks(r) ==
    /\ rpc[r] \in {"recover", "refinish"} => rowLock = r \/ row = Deleted
    /\ rpc[r] \in {"restore", "init"} => rowLock = r /\ copy[r].ver = row

\* What a lookup may return was the row's version during the lookup.
Observes(r) ==
    /\ (seen[r] = {}) <=> (rpc[r] = "idle")
    /\ rpc[r] # "idle" => row \in seen[r]
    /\ rpc[r] = "hash" /\ hash # NoHash /\ hash.gen = rgen[r] => hash.ver \in seen[r]
    /\ rpc[r] = "after" /\ copy[r].gen = rgen[r] => copy[r].ver \in seen[r]

\* The inductive invariant.
ReaderInv(r) == ReaderLocks(r) /\ ReaderFinalises(r) /\ Observes(r)
CacheInv ==
    /\ HashIsCurrent /\ Parity /\ Locking /\ MutationFenced /\ RollbackSafe
    /\ \A w \in Writers : WriterFinalises(w)
    /\ \A r \in Readers : ReaderInv(r)
=============================================================================
