--------------------------- MODULE StreamExecution ---------------------------
(***************************************************************************)
(* Encrypted stream recovery: one stream_executions row, its frames in     *)
(* Redis, the workers that write them and the reconcilers that finalise    *)
(* the execution when a worker's lease has expired                         *)
(* (model/stream_execution.go, controller/stream_recovery.go,              *)
(* service/stream_recovery_store.go, service/stream_recovery_writer.go).   *)
(*                                                                         *)
(* A frame is appended to Redis first and committed in the row afterwards, *)
(* so a crash, an expired lease or a failed statement can fall in between. *)
(* Every SQL statement and every Lua script is one step.  Billing of the   *)
(* stream is modelled in StreamBilling, replay to clients in StreamReplay. *)
(***************************************************************************)
EXTENDS Integers, FiniteSets

CONSTANTS
    Handlers,     \* requests carrying the same recovery identity
    Reconcilers,  \* reconcile jobs (system task) on the nodes
    Upstream,     \* frames an upstream may send
    MaxAttempts,  \* StreamRecoverySetting.MaxAttempts
    AttemptBound, \* bound: attempts of the execution
    MaxFrames,    \* bound: frames of one attempt
    MaxFaults     \* bound: failed statements, crashes and lost contexts

ASSUME BoundsAssumption ==
    /\ MaxAttempts \in Nat \ {0} /\ AttemptBound \in Nat /\ MaxAttempts <= AttemptBound
    /\ MaxFrames \in Nat \ {0} /\ MaxFaults \in Nat

ASSUME UpstreamAssumption == Upstream \subseteq {"comment", "data", "done", "error"}
ASSUME ActorsAssumption == Handlers \cap Reconcilers = {}

Actors == Handlers \cup Reconcilers
None == "none"
ASSUME NoneAssumption == None \notin Actors

Attempts == 1..AttemptBound
Seqs == 1..MaxFrames
Slots == Attempts \X Seqs

Active == {"pending", "running", "recovering"}
\* "unsafe" is failed with a STATEFUL_REPLAY_UNSAFE error.
Final == {"completed", "failed", "unsafe", "cancelled"}
Statuses == Active \cup Final \cup {"absent", "deleted"}

Terminal == {"done", "error", "unsafe"}
FrameKinds == {"comment", "data"} \cup Terminal

PCs == {"start", "ensure", "claim", "save", "begin", "publish", "relay", "commit", "rollback",
        "restart", "republish", "done", "crashed",
        "idle", "r_claim", "r_tail", "r_scan", "r_check", "r_rollback", "r_append",
        "r_own", "r_seal", "r_finish"}

VARIABLES
    \* the row; public_attempt always equals attempt_count, locked_until is
    \* only compared with the clock
    status, attempt, committed, lockedBy, lease,
    \* Redis: the frames of an attempt, who appended each, which are sealed
    frame, owner, sealed, published,
    \* one runner per actor: program point, attempt and sequence it works on,
    \* the frame or status in hand, its terminal state and its write error
    pc, att, seq, hand, term, werr,
    business,   \* writers that have produced business output
    leaving,    \* workers whose relay loop is over
    ctxDone,    \* workers whose context the heartbeat cancelled
    tries,      \* frame reads of the running reconciliation
    stale,      \* actors whose clock reading is later than locked_until
    \* auxiliary
    outputs,    \* attempts whose business output was committed
    faults

row == <<status, attempt, committed, lockedBy, lease>>
redis == <<frame, owner, sealed, published>>
runner == <<pc, att, seq, hand, term, werr, business, leaving, ctxDone, tries, stale>>
writer == <<att, seq, hand, term, werr, business, leaving, ctxDone, tries, stale>>
aux == <<outputs, faults>>
vars == <<row, redis, runner, aux>>

Goto(a, label) == pc' = [pc EXCEPT ![a] = label]

\* A finished handler stays finished; the next reconcile job is a new one.
End(a) == IF a \in Handlers THEN "done" ELSE "idle"

\* A statement, a Redis call or a process fails.
Fault == faults < MaxFaults /\ faults' = faults + 1

-----------------------------------------------------------------------------
(* The row: compare-and-set statements of model/stream_execution.go.       *)

\* WHERE locked_by = me AND locked_until >= now AND status IN active.
HoldsLease(a) == lockedBy = a /\ lease /\ status \in Active

\* FinishStreamExecution.
FinishRow(a, n, final) ==
    IF HoldsLease(a) /\ attempt = n
    THEN status' = final /\ lockedBy' = None /\ lease' = FALSE
         /\ UNCHANGED <<attempt, committed>>
    ELSE UNCHANGED row

\* OwnsStreamExecutionReconciliationLease.
OwnsReconciliation(a) ==
    /\ status = "recovering" /\ lockedBy = a /\ lease
    /\ attempt = att[a] /\ committed = seq[a]

-----------------------------------------------------------------------------
(* The store: Lua scripts of service/stream_recovery_store.go.             *)

\* Mutant: a sequence that already has an owner is overwritten.
AppendFrameUnchecked(a, slot, k) ==
    /\ frame' = [frame EXCEPT ![slot] = k]
    /\ owner' = [owner EXCEPT ![slot] = a]
    /\ UNCHANGED <<sealed, published>>

\* appendStreamRecoveryFrameScript: a sequence has one owner.
AppendFrame(a, slot, k) ==
    /\ frame[slot] = None
    /\ frame' = [frame EXCEPT ![slot] = k]
    /\ owner' = [owner EXCEPT ![slot] = a]
    /\ UNCHANGED <<sealed, published>>

\* rollbackStreamRecoveryFrameScript: only the very frame of who, unsealed.
MayRollback(slot, who) ==
    frame[slot] # None /\ owner[slot] = who /\ slot \notin sealed

RollbackFrame(slot) ==
    /\ frame' = [frame EXCEPT ![slot] = None]
    /\ owner' = [owner EXCEPT ![slot] = None]
    /\ UNCHANGED <<sealed, published>>

-----------------------------------------------------------------------------
(* handleStreamRecoveryRelay and ensureStreamRecoveryWorker.               *)

\* CreateOrGetStreamExecution creates the row or returns the existing one.
Lookup(h) ==
    /\ pc[h] = "start"
    /\ status' = IF status = "absent" THEN "pending" ELSE status
    /\ hand' = [hand EXCEPT ![h] = status']
    /\ att' = [att EXCEPT ![h] = attempt]
    /\ Goto(h, IF status' \in Active THEN "ensure" ELSE "done")
    /\ UNCHANGED <<attempt, committed, lockedBy, lease, redis, seq, term, werr, business,
                   leaving, ctxDone, tries, stale, aux>>

\* now := GetTimestamp().  An actor is stale while locked_until < now holds
\* for its own now: the lease had expired then and nobody has taken it since.
ReadClock(a) == stale' = IF lease THEN stale ELSE stale \cup {a}

\* The handler decides on the row it has read before.
Ensure(h) ==
    /\ pc[h] = "ensure"
    /\ \/ lease /\ hand[h] # "pending" /\ Goto(h, "done") /\ UNCHANGED stale
       \/ /\ ~lease \/ hand[h] = "pending"
          /\ Goto(h, IF att[h] > 0 THEN "r_claim" ELSE "claim")
          /\ ReadClock(h)
    /\ UNCHANGED <<row, redis, att, seq, hand, term, werr, business, leaving, ctxDone, tries, aux>>

\* ClaimStreamExecution looks at the lease, not at the attempts.
Claim(h) ==
    /\ pc[h] = "claim"
    /\ IF status \in Active /\ (lockedBy = None \/ h \in stale)
       THEN /\ status' = "running" /\ lockedBy' = h /\ lease' = TRUE /\ stale' = {}
            /\ Goto(h, "save")
            /\ UNCHANGED <<attempt, committed>>
       ELSE Goto(h, "done") /\ UNCHANGED <<row, stale>>
    /\ UNCHANGED <<redis, att, seq, hand, term, werr, business, leaving, ctxDone, tries, aux>>

\* The claimed row is read and the encrypted request saved; when saving
\* fails the execution is failed.
SaveRequest(h) ==
    /\ pc[h] = "save"
    /\ \/ /\ attempt < AttemptBound
          /\ att' = [att EXCEPT ![h] = attempt + 1]
          /\ Goto(h, "begin")
          /\ UNCHANGED <<row, faults>>
       \/ Fault /\ FinishRow(h, attempt, "failed") /\ Goto(h, "done") /\ UNCHANGED att
    /\ UNCHANGED <<redis, seq, hand, term, werr, business, leaving, ctxDone, tries, stale, outputs>>

MayStartAttempt(a) == HoldsLease(a) /\ attempt \in {att[a] - 1, att[a]}

\* StartStreamExecutionAttempt, of the first attempt and of a retry.
StartAttempt(h) ==
    /\ \/ pc[h] \in {"begin", "restart"} /\ MayStartAttempt(h)
          /\ status' = "running" /\ attempt' = att[h] /\ committed' = 0
          /\ Goto(h, IF pc[h] = "begin" THEN "publish" ELSE "republish")
          /\ UNCHANGED <<lockedBy, lease, leaving, faults>>
       \/ /\ \/ ~MayStartAttempt(h) /\ UNCHANGED faults
             \/ Fault
          /\ \/ pc[h] = "begin" /\ Goto(h, "done") /\ UNCHANGED leaving
             \/ pc[h] = "restart" /\ Goto(h, "relay") /\ leaving' = leaving \cup {h}
          /\ UNCHANGED row
    /\ UNCHANGED <<redis, att, seq, hand, term, werr, business, ctxDone, tries, stale, outputs>>

\* SetPublicAttempt; the worker runs when the first attempt is published.
PublishAttempt(h) ==
    /\ \/ /\ pc[h] \in {"publish", "republish"} /\ h \notin ctxDone
          /\ published' = att[h]
          /\ Goto(h, "relay")
          /\ UNCHANGED <<row, leaving, faults>>
       \/ /\ pc[h] = "publish" /\ Fault
          /\ FinishRow(h, att[h], "failed")
          /\ Goto(h, "done")
          /\ UNCHANGED <<published, leaving>>
       \/ /\ pc[h] = "republish" /\ (Fault \/ (h \in ctxDone /\ UNCHANGED faults))
          /\ Goto(h, "relay") /\ leaving' = leaving \cup {h}
          /\ UNCHANGED <<row, published>>
    /\ UNCHANGED <<frame, owner, sealed, att, seq, hand, term, werr, business, ctxDone, tries, stale,
                   outputs>>

-----------------------------------------------------------------------------
(* The relay of one attempt and StreamRecoveryWriter.flushLocked.          *)

Slot(a) == <<att[a], seq[a] + 1>>

\* flushLocked appends the frame; without the row's commit it is not public.
\* A failed append leaves the data in the buffer.
Append(h, k) ==
    \/ /\ h \notin ctxDone
       /\ AppendFrame(h, Slot(h), k)
       /\ hand' = [hand EXCEPT ![h] = k]
       /\ Goto(h, "commit")
       /\ UNCHANGED <<werr, business, faults>>
    \/ /\ \/ h \in ctxDone /\ UNCHANGED faults
          \/ frame[Slot(h)] # None /\ UNCHANGED faults
          \/ Fault
       /\ werr' = [werr EXCEPT ![h] = "write"]
       /\ business' = IF k \in {"data", "done"} THEN business \cup {h} ELSE business
       /\ UNCHANGED <<redis, hand, pc>>

\* The upstream sends a frame: a comment, output, or its terminal event.
WriteFrame(h, k) ==
    /\ pc[h] = "relay" /\ h \notin leaving
    /\ term[h] = None /\ werr[h] = None
    /\ k \in Terminal \/ seq[h] + 1 < MaxFrames
    /\ Append(h, k)
    /\ UNCHANGED <<row, att, seq, term, leaving, ctxDone, tries, stale, outputs>>

\* The loop ends with an error: relayDirect writes a protocol error event,
\* unless the stream is terminal or the writer is broken.
WriteError(h) ==
    /\ pc[h] = "relay"
    /\ term[h] = None /\ werr[h] = None
    /\ Append(h, "error")
    /\ leaving' = leaving \cup {h}
    /\ UNCHANGED <<row, att, seq, term, ctxDone, tries, stale, outputs>>

\* What flushLocked records of a committed frame.
Accepted(h) ==
    /\ seq' = [seq EXCEPT ![h] = @ + 1]
    /\ term' = IF hand[h] \in Terminal THEN [term EXCEPT ![h] = hand[h]] ELSE term
    /\ business' = IF hand[h] \in {"data", "done"} THEN business \cup {h} ELSE business
    /\ Goto(h, "relay")
    /\ UNCHANGED werr

\* UpdateStreamExecutionSequence.
CommitSequence(h) ==
    /\ committed' = seq[h] + 1
    /\ outputs' = IF hand[h] \in {"data", "done"} THEN outputs \cup {att[h]} ELSE outputs
    /\ UNCHANGED <<status, attempt, lockedBy, lease>>

\* Mutant: the sequence is committed without its compare-and-set.
MayCommitUnfenced(h) == status \in Active /\ attempt = att[h]

MayCommit(h) == HoldsLease(h) /\ attempt = att[h] /\ committed = seq[h]

\* commitStreamRecoveryFrame: when the update does not apply, the row tells
\* whether a reconciler has committed the frame in the worker's place.
CommitFrame(h) ==
    /\ pc[h] = "commit"
    /\ \/ MayCommit(h) /\ CommitSequence(h) /\ Accepted(h) /\ UNCHANGED faults
       \/ /\ ~MayCommit(h) /\ status # "deleted"
          /\ IF attempt = att[h] /\ committed > seq[h]
             THEN Accepted(h)
             ELSE Goto(h, "rollback") /\ UNCHANGED <<seq, term, business, werr>>
          /\ UNCHANGED <<row, outputs, faults>>
       \* the statement's or the verification's answer is lost
       \/ /\ \/ status = "deleted" /\ UNCHANGED <<row, outputs, faults>>
             \/ Fault /\ UNCHANGED <<row, outputs>>
             \/ Fault /\ MayCommit(h) /\ CommitSequence(h)
          /\ werr' = [werr EXCEPT ![h] = "uncertain"]
          /\ business' = business \cup {h}
          /\ Goto(h, "relay")
          /\ UNCHANGED <<seq, term>>
    /\ UNCHANGED <<redis, att, hand, leaving, ctxDone, tries, stale>>

\* A rejected frame is withdrawn; the attempt is over for this writer.
RollbackRejected(h) ==
    /\ pc[h] = "rollback"
    /\ \/ /\ h \notin ctxDone /\ MayRollback(Slot(h), h)
          /\ RollbackFrame(Slot(h))
          /\ werr' = [werr EXCEPT ![h] = "attempt"]
          /\ UNCHANGED faults
       \/ /\ \/ (h \in ctxDone \/ ~MayRollback(Slot(h), h)) /\ UNCHANGED faults
             \/ Fault
          /\ werr' = [werr EXCEPT ![h] = "write"]
          /\ UNCHANGED redis
    /\ Goto(h, "relay")
    /\ UNCHANGED <<row, att, seq, hand, term, business, leaving, ctxDone, tries, stale, outputs>>

\* Mutant: business output does not stop a retry.
MayRetryAfterOutput(h) == term[h] = None /\ att[h] < MaxAttempts

\* retryDecision and RotateAttempt: only before any business output, and
\* within the budget that capStreamRecoveryRetries leaves.
MayRetry(h) == h \notin business /\ term[h] = None /\ att[h] < MaxAttempts

Retry(h) ==
    /\ pc[h] = "relay" /\ h \notin leaving
    /\ MayRetry(h)
    /\ werr[h] \in {None, "attempt"}
    /\ att' = [att EXCEPT ![h] = @ + 1]
    /\ seq' = [seq EXCEPT ![h] = 0]
    /\ werr' = [werr EXCEPT ![h] = None]
    /\ Goto(h, "restart")
    /\ UNCHANGED <<row, redis, hand, term, business, leaving, ctxDone, tries, stale, aux>>

\* Mutant: an uncertain commit is reported as a failure.
FinishWorkerHasty(h) ==
    /\ pc[h] = "relay"
    /\ term[h] # None \/ werr[h] # None
    /\ FinishRow(h, att[h], IF term[h] = "done" /\ werr[h] = None THEN "completed" ELSE "failed")
    /\ Goto(h, "done")
    /\ UNCHANGED <<redis, writer, outputs, faults>>

\* The tail of runStreamRecoveryWorker: an uncertain commit leaves the row to
\* the reconciler, unless it is that of the final error event.
FinishWorker(h) ==
    /\ pc[h] = "relay"
    /\ term[h] # None \/ werr[h] # None
    /\ \/ werr[h] = "uncertain" /\ UNCHANGED <<row, faults>>
       \/ /\ werr[h] = "uncertain" => h \in leaving
          /\ FinishRow(h, att[h], IF term[h] = "done" /\ werr[h] = None
                                  THEN "completed" ELSE "failed")
          /\ UNCHANGED faults
       \/ Fault /\ UNCHANGED row
    /\ Goto(h, "done")
    /\ UNCHANGED <<redis, writer, outputs>>

Working == {"relay", "commit", "rollback", "restart", "republish"}

\* renewStreamRecoveryLease: renewing a lease that is held changes nothing
\* here; a lost lease or an error cancels the worker's context.
Heartbeat(h) ==
    /\ pc[h] \in Working /\ h \notin ctxDone
    /\ (~HoldsLease(h) /\ UNCHANGED faults) \/ Fault
    /\ ctxDone' = ctxDone \cup {h}
    /\ UNCHANGED <<row, redis, pc, att, seq, hand, term, werr, business, leaving, tries, stale, outputs>>

-----------------------------------------------------------------------------
(* reconcileExpiredStreamExecution, run by a system task for every expired *)
(* execution or by a handler for its own.                                  *)

\* Mutant: an execution under reconciliation is not looked for again.
RecoverableRunning == status = "running" /\ attempt > 0 /\ ~lease

Recoverable == status \in Active /\ attempt > 0 /\ ~lease

\* FindRecoverableStreamExecutions.
FindRecoverable(r) ==
    /\ pc[r] = "idle"
    /\ Recoverable
    /\ att' = [att EXCEPT ![r] = attempt]
    /\ ReadClock(r)
    /\ Goto(r, "r_claim")
    /\ UNCHANGED <<row, redis, seq, hand, term, werr, business, leaving, ctxDone, tries, aux>>

MayReconcile(a) == status \in Active /\ attempt = att[a] /\ a \in stale

\* ClaimExpiredStreamExecutionForReconciliation.
ClaimExpired(a) ==
    /\ pc[a] = "r_claim"
    /\ IF MayReconcile(a)
       THEN /\ status' = "recovering" /\ lockedBy' = a /\ lease' = TRUE /\ stale' = {}
            /\ seq' = [seq EXCEPT ![a] = committed]
            /\ tries' = [tries EXCEPT ![a] = 0]
            /\ Goto(a, "r_tail")
            /\ UNCHANGED <<attempt, committed>>
       ELSE Goto(a, End(a)) /\ UNCHANGED <<row, seq, tries, stale>>
    /\ UNCHANGED <<redis, att, hand, term, werr, business, leaving, ctxDone, aux>>

CommittedTail(a) == IF seq[a] = 0 THEN None ELSE frame[<<att[a], seq[a]>>]

\* The status a terminal frame stands for.
FinalOf(k) ==
    IF k = "done" THEN "completed" ELSE IF k = "unsafe" THEN "unsafe" ELSE "failed"

\* The reconciler gives up: an error is returned, the lease runs out.
GiveUp(a) == Goto(a, End(a)) /\ UNCHANGED <<hand, term>>

\* The committed tail is already terminal, or the frame after it decides.
ReadTail(a) ==
    /\ pc[a] = "r_tail"
    /\ \/ /\ seq[a] = 0 \/ CommittedTail(a) \in FrameKinds \ Terminal
          /\ Goto(a, "r_scan")
          /\ UNCHANGED <<hand, term, faults>>
       \/ /\ CommittedTail(a) \in Terminal
          /\ seq[a] < MaxFrames => frame[Slot(a)] = None
          /\ hand' = [hand EXCEPT ![a] = FinalOf(CommittedTail(a))]
          /\ term' = [term EXCEPT ![a] = "tail"]
          /\ Goto(a, "r_own")
          /\ UNCHANGED faults
       \* the tail is missing, or frames follow a committed terminal
       \/ /\ seq[a] > 0
          /\ \/ CommittedTail(a) = None
             \/ CommittedTail(a) \in Terminal /\ seq[a] < MaxFrames /\ frame[Slot(a)] # None
          /\ GiveUp(a) /\ UNCHANGED faults
       \/ Fault /\ GiveUp(a)
    /\ UNCHANGED <<row, redis, att, seq, werr, business, leaving, ctxDone, tries, stale, outputs>>

\* At most three looks at the frame after the committed tail.
MaxTries == 3

\* Two frames are read: more than one after the tail is a conflict.
Conflict(a) == seq[a] + 2 <= MaxFrames /\ frame[<<att[a], seq[a] + 2>>] # None

ScanFrame(a) ==
    LET k == frame[Slot(a)]
        Resolve(final, where, label) ==
            /\ hand' = [hand EXCEPT ![a] = final]
            /\ term' = [term EXCEPT ![a] = where]
            /\ Goto(a, label)
    IN  /\ pc[a] = "r_scan"
        /\ \/ /\ tries[a] < MaxTries /\ ~Conflict(a)
              /\ \/ k = None /\ seq[a] = 0 /\ Resolve("unsafe", "tail", "r_own")
                 \/ k = None /\ seq[a] > 0 /\ Resolve("unsafe", "next", "r_append")
                 \/ k \in Terminal /\ Resolve(FinalOf(k), "next", "r_own")
                 \* the frame is remembered by its owner
                 \/ k \in FrameKinds \ Terminal /\ Resolve(owner[Slot(a)], "next", "r_check")
              /\ tries' = [tries EXCEPT ![a] = @ + 1]
              /\ UNCHANGED faults
           \/ /\ \/ (tries[a] = MaxTries \/ Conflict(a)) /\ UNCHANGED faults
                 \/ Fault
              /\ GiveUp(a) /\ UNCHANGED tries
        /\ UNCHANGED <<row, redis, att, seq, werr, business, leaving, ctxDone, stale, outputs>>

\* rollbackUncommittedStreamRecoveryFrame: the lease first, then the frame.
CheckRollback(a) ==
    /\ pc[a] = "r_check"
    /\ \/ OwnsReconciliation(a) /\ Goto(a, "r_rollback") /\ UNCHANGED faults
       \/ ~OwnsReconciliation(a) /\ Goto(a, End(a)) /\ UNCHANGED faults
       \/ Fault /\ Goto(a, End(a))
    /\ UNCHANGED <<row, redis, writer, outputs>>

RollbackUncommitted(a) ==
    /\ pc[a] = "r_rollback"
    /\ \/ /\ IF MayRollback(Slot(a), hand[a]) THEN RollbackFrame(Slot(a))
             ELSE UNCHANGED redis
          /\ Goto(a, "r_scan") /\ UNCHANGED faults
       \/ Fault /\ Goto(a, End(a)) /\ UNCHANGED redis
    /\ UNCHANGED <<row, writer, outputs>>

\* AppendFrameForRollback of the STATEFUL_REPLAY_UNSAFE terminal.
AppendUnsafe(a) ==
    /\ pc[a] = "r_append"
    /\ \/ AppendFrame(a, Slot(a), "unsafe") /\ Goto(a, "r_own") /\ UNCHANGED faults
       \/ frame[Slot(a)] # None /\ Goto(a, End(a)) /\ UNCHANGED <<redis, faults>>
       \/ Fault /\ Goto(a, End(a)) /\ UNCHANGED redis
    /\ UNCHANGED <<row, writer, outputs>>

\* terminal_sequence of the reconciliation.
TerminalSeq(a) == IF term[a] = "next" THEN seq[a] + 1 ELSE seq[a]

\* finishReconciledStreamExecution: lease, seal, row.
CheckFinish(a) ==
    /\ pc[a] = "r_own"
    /\ \/ /\ OwnsReconciliation(a)
          /\ Goto(a, IF TerminalSeq(a) > 0 THEN "r_seal" ELSE "r_finish")
          /\ UNCHANGED faults
       \/ ~OwnsReconciliation(a) /\ Goto(a, End(a)) /\ UNCHANGED faults
       \/ Fault /\ Goto(a, End(a))
    /\ UNCHANGED <<row, redis, writer, outputs>>

\* Mutant: the terminal frame is not read again before it is adopted.
SealFrameUnchecked(a) ==
    /\ pc[a] = "r_seal"
    /\ Goto(a, "r_finish")
    /\ UNCHANGED <<row, redis, writer, outputs, faults>>

\* The terminal frame is read again and sealed, so nobody withdraws it.
SealFrame(a) ==
    LET slot == <<att[a], TerminalSeq(a)>>
    IN  /\ pc[a] = "r_seal"
        /\ \/ /\ frame[slot] \in Terminal
              /\ sealed' = sealed \cup {slot}
              /\ Goto(a, "r_finish") /\ UNCHANGED faults
           \/ frame[slot] \notin Terminal /\ Goto(a, End(a)) /\ UNCHANGED <<sealed, faults>>
           \/ Fault /\ Goto(a, End(a)) /\ UNCHANGED sealed
        /\ UNCHANGED <<row, frame, owner, published, writer, outputs>>

\* FinishStreamExecutionReconciliation.
FinishReconciliation(a) ==
    /\ pc[a] = "r_finish"
    /\ \/ /\ IF OwnsReconciliation(a)
             THEN /\ status' = hand[a] /\ committed' = TerminalSeq(a)
                  /\ lockedBy' = None /\ lease' = FALSE
                  /\ outputs' = IF hand[a] = "completed" THEN outputs \cup {att[a]} ELSE outputs
                  /\ UNCHANGED attempt
             ELSE UNCHANGED <<row, outputs>>
          /\ UNCHANGED faults
       \/ Fault /\ UNCHANGED <<row, outputs>>
    /\ Goto(a, End(a))
    /\ UNCHANGED <<redis, writer>>

-----------------------------------------------------------------------------
(* The owner, the clock and crashes.                                       *)

\* CancelOwnedStreamExecution.
Cancel ==
    /\ status \in Active
    /\ status' = "cancelled" /\ lockedBy' = None /\ lease' = FALSE
    /\ UNCHANGED <<attempt, committed, redis, runner, aux>>

\* locked_until passes.
ExpireLease ==
    /\ lease
    /\ lease' = FALSE
    /\ UNCHANGED <<status, attempt, committed, lockedBy, redis, runner, aux>>

\* DeleteExpiredStreamExecutions, after expires_at: an active execution
\* fails, a final one is deleted (STATEFUL_REPLAY_UNSAFE is kept).
DeleteExpired ==
    /\ \/ status \in Active /\ status' = "unsafe"
       \/ status \in Final \ {"unsafe"} /\ status' = "deleted"
    /\ lockedBy' = None /\ lease' = FALSE
    /\ UNCHANGED <<attempt, committed, redis, runner, aux>>

\* A node dies with its worker or reconciler.
Crash(a) ==
    /\ pc[a] \notin {"start", "done", "idle", "crashed"}
    /\ Fault
    /\ Goto(a, IF a \in Handlers THEN "crashed" ELSE "idle")
    /\ UNCHANGED <<row, redis, writer, outputs>>

-----------------------------------------------------------------------------
Init ==
    /\ status = "absent" /\ attempt = 0 /\ committed = 0 /\ lockedBy = None /\ lease = FALSE
    /\ frame = [s \in Slots |-> None] /\ owner = [s \in Slots |-> None]
    /\ sealed = {} /\ published = 0
    /\ pc = [a \in Actors |-> IF a \in Handlers THEN "start" ELSE "idle"]
    /\ att = [a \in Actors |-> 0] /\ seq = [a \in Actors |-> 0]
    /\ hand = [a \in Actors |-> None] /\ term = [a \in Actors |-> None]
    /\ werr = [a \in Actors |-> None]
    /\ business = {} /\ leaving = {} /\ ctxDone = {}
    /\ tries = [a \in Actors |-> 0] /\ stale = {}
    /\ outputs = {} /\ faults = 0

\* Steps of a handler and its worker.
Worker(h) ==
    \/ Ensure(h) \/ Claim(h) \/ SaveRequest(h) \/ StartAttempt(h) \/ PublishAttempt(h)
    \/ \E k \in Upstream : WriteFrame(h, k)
    \/ WriteError(h) \/ CommitFrame(h) \/ RollbackRejected(h)
    \/ Retry(h) \/ FinishWorker(h)

\* Steps of a reconciliation.
Reconcile(a) ==
    \/ ClaimExpired(a) \/ ReadTail(a) \/ ScanFrame(a) \/ CheckRollback(a)
    \/ RollbackUncommitted(a) \/ AppendUnsafe(a) \/ CheckFinish(a) \/ SealFrame(a)
    \/ FinishReconciliation(a)

Next ==
    \/ \E h \in Handlers : Lookup(h) \/ Worker(h) \/ Heartbeat(h)
    \/ \E r \in Reconcilers : FindRecoverable(r)
    \/ \E a \in Actors : Reconcile(a) \/ Crash(a)
    \/ Cancel \/ ExpireLease \/ DeleteExpired

Spec == Init /\ [][Next]_vars

\* The worker of a lease has returned or died, or the lease has no worker.
Abandoned == lockedBy = None \/ pc[lockedBy] \in {"done", "crashed", "idle"}

\* Nodes schedule their goroutines, upstream streams end (every relay has a
\* timeout), the system task polls, an unrenewed lease passes its time, and
\* from some time on no running holder is slower than its lease.
FairSpec ==
    /\ Spec
    /\ \A h \in Handlers : WF_vars(Worker(h))
    /\ \A a \in Actors : WF_vars(Reconcile(a))
    /\ \A r \in Reconcilers : WF_vars(FindRecoverable(r))
    /\ WF_vars(ExpireLease /\ Abandoned)
    /\ <>[][~(ExpireLease /\ ~Abandoned)]_vars

-----------------------------------------------------------------------------
(* Correctness.                                                            *)

RowType ==
    /\ status \in Statuses /\ attempt \in 0..AttemptBound /\ committed \in 0..MaxFrames
    /\ lockedBy \in Actors \cup {None} /\ lease \in BOOLEAN

StoreType ==
    /\ frame \in [Slots -> FrameKinds \cup {None}]
    /\ owner \in [Slots -> Actors \cup {None}]
    /\ sealed \subseteq Slots /\ published \in 0..AttemptBound

RunnerType ==
    /\ pc \in [Actors -> PCs]
    /\ att \in [Actors -> 0..AttemptBound] /\ seq \in [Actors -> 0..MaxFrames]
    /\ hand \in [Actors -> FrameKinds \cup Statuses \cup Actors \cup {None}]
    /\ term \in [Actors -> Terminal \cup {None, "tail", "next"}]
    /\ werr \in [Actors -> {None, "attempt", "write", "uncertain"}]
    /\ tries \in [Actors -> 0..MaxTries]

SetsType ==
    /\ business \subseteq Handlers /\ leaving \subseteq Handlers /\ ctxDone \subseteq Handlers
    /\ stale \subseteq Actors /\ outputs \subseteq Attempts /\ faults \in 0..MaxFaults

\* Types of the row, the Redis frames and every actor; in particular attempts
\* and sequences stay within their bounds.
TypeOK == RowType /\ StoreType /\ RunnerType /\ SetsType

\* Every committed sequence of the public attempt has its frame in Redis,
\* and only the last one may be terminal: no worker or reconciler commits
\* past a protocol end (an existing terminal is never duplicated).  At most
\* one frame lies beyond the committed sequence, so a reconciler never meets
\* the conflict it would give up on for ever.
CommittedPrefix ==
    /\ \A s \in 1..committed :
         /\ frame[<<attempt, s>>] # None
         /\ s < committed => frame[<<attempt, s>>] \notin Terminal
    /\ attempt > 0 => \A s \in Seqs : s > committed + 1 => frame[<<attempt, s>>] = None

\* A completed execution has committed a terminal event, whoever finalised it.
CompletedIsTerminated ==
    status = "completed" => committed > 0 /\ frame[<<attempt, committed>>] \in Terminal

\* A committed success event is never reported as a failure: true of a single
\* request, see StreamFailedSuccess.cfg for two.
SuccessIsKept ==
    status = "failed" /\ committed > 0 => frame[<<attempt, committed>>] # "done"

\* What docs/plugin-api/study-extensions.md says: an expired execution is
\* finalised from an already persisted terminal or marked failed.
CompletedByItsTerminal ==
    status = "completed" => committed > 0 /\ frame[<<attempt, committed>>] = "done"

\* A frame once committed keeps its place: no rollback, by its writer or by
\* a reconciler, withdraws or replaces it.  A final status is never left
\* except by deletion.
CommittedIsForever ==
    [][/\ \A s \in 1..committed :
            attempt' = attempt => /\ committed' >= s
                                  /\ frame'[<<attempt, s>>] = frame[<<attempt, s>>]
       /\ status \in Final => status' \in {status, "deleted"}]_vars

\* What docs/plugin-api/study-extensions.md says: once business output
\* exists, reconnecting never starts a new generation.
NoGenerationAfterOutput == \A a \in outputs : attempt = a

\* Every started execution is finalised, by its worker or a reconciler.
StartedIsFinalised == (status \in Active /\ attempt > 0) ~> status \notin Active

-----------------------------------------------------------------------------
(* Why committed frames are a permanent prefix.                            *)

\* A worker that has started its attempt, or failed to; a reconciler that has
\* claimed the execution.
Started == {"publish", "republish", "relay", "commit", "rollback"}
Reconciling == {"r_tail", "r_scan", "r_check", "r_rollback", "r_append", "r_own",
                "r_seal", "r_finish"}
Engaged == Started \cup Reconciling \cup {"begin", "restart"}

\* A terminal frame is sealed, the last slot takes no other, and of attempts to
\* come at most the first slot is taken, by a worker that could not start them.
StoreInv ==
    /\ \A slot \in sealed : frame[slot] \in Terminal
    /\ \A n \in Attempts : frame[<<n, MaxFrames>>] \in Terminal \cup {None}
    /\ \A n \in Attempts, s \in Seqs : n > attempt /\ s > 1 => frame[<<n, s>>] = None
    /\ lease => status \in Active
    /\ status = "absent" => attempt = 0
    /\ attempt = 0 => committed = 0

\* Nobody is ahead of the row.
PositionInv(a) ==
    /\ pc[a] \in Engaged \cup {"r_claim"} => att[a] > 0
    /\ pc[a] \in Engaged =>
         /\ att[a] > attempt => seq[a] = 0
         /\ att[a] = attempt => seq[a] <= committed

\* What a handler has done so far by its program point.
ProgressInv(h) ==
    /\ pc[h] \in {"start", "ensure", "claim", "save", "begin", "publish", "restart",
                  "republish", "r_claim"}
         => seq[h] = 0 /\ term[h] = None /\ werr[h] = None /\ h \notin leaving
    /\ pc[h] \in {"commit", "rollback"} =>
         /\ term[h] = None /\ werr[h] = None /\ hand[h] \in FrameKinds
         /\ hand[h] \notin Terminal => seq[h] + 1 < MaxFrames
         /\ h \in leaving => hand[h] = "error"
    /\ pc[h] \in {"relay", "commit", "rollback"} =>
         /\ term[h] \in Terminal \cup {None}
         /\ term[h] = None => seq[h] < MaxFrames

\* The worker that holds the lease is where the row is, knows whether its stream
\* has ended, and finds its own frame when it commits.
HolderInv(h) ==
    HoldsLease(h) =>
        /\ pc[h] \in {"begin", "restart"} => attempt = att[h] - 1
        /\ pc[h] \in {"publish", "republish"} => attempt = att[h] /\ committed = 0
        /\ pc[h] \in Started /\ h \notin leaving => attempt = att[h]
        /\ pc[h] \in {"relay", "commit", "rollback"} /\ attempt = att[h] =>
             /\ pc[h] # "rollback"
             /\ werr[h] # "uncertain" => committed = seq[h]
             /\ term[h] = None /\ werr[h] # "uncertain" =>
                  \A s \in 1..committed : frame[<<attempt, s>>] \notin Terminal
             /\ term[h] # None =>
                  committed = seq[h] /\ committed > 0 /\ frame[<<attempt, committed>>] = term[h]
             /\ pc[h] = "commit" => frame[Slot(h)] = hand[h] /\ owner[Slot(h)] = h

\* A frame a worker may withdraw is not committed.
RollbackInv(h) ==
    pc[h] = "rollback" /\ att[h] = attempt /\ committed > seq[h]
        => Slot(h) \in sealed \/ owner[Slot(h)] # h

\* After a reconciler's claim no worker commits in its attempt ...
FenceInv(a, h) ==
    /\ pc[a] \in Reconciling /\ att[a] = attempt
    /\ pc[h] \in Started /\ att[h] = attempt
    => ~HoldsLease(h)

\* ... only a reconciliation does, of a sealed frame, and it is the end.
ReconcilerInv(a) ==
    pc[a] \in Reconciling =>
        /\ att[a] <= attempt
        /\ att[a] = attempt =>
             /\ \/ committed = seq[a]
                \/ /\ status \notin Active /\ committed = seq[a] + 1
                   /\ <<attempt, committed>> \in sealed
             /\ (pc[a] \in {"r_scan", "r_check", "r_rollback", "r_append"} \/ term[a] = "next")
                  /\ pc[a] # "r_tail" /\ seq[a] > 0 => frame[<<attempt, seq[a]>>] \notin Terminal
        /\ pc[a] \in {"r_scan", "r_check", "r_rollback", "r_append"} => seq[a] < MaxFrames
        /\ pc[a] \in {"r_check", "r_rollback", "r_append"} => term[a] = "next"
        /\ pc[a] = "r_append" => hand[a] = "unsafe"
        /\ pc[a] \in {"r_own", "r_seal", "r_finish"} =>
             /\ hand[a] \in Final
             /\ term[a] \in {"tail", "next"}
             /\ term[a] = "next" => seq[a] < MaxFrames
             /\ hand[a] = "completed" => TerminalSeq(a) > 0
        /\ pc[a] = "r_seal" => TerminalSeq(a) > 0
        /\ pc[a] = "r_finish" /\ TerminalSeq(a) > 0 => <<att[a], TerminalSeq(a)>> \in sealed

RunnerInv(a) ==
    /\ PositionInv(a) /\ ReconcilerInv(a)
    /\ a \in Handlers => ProgressInv(a) /\ HolderInv(a) /\ RollbackInv(a)

\* The inductive invariant.
ExecutionInv ==
    /\ CommittedPrefix /\ CompletedIsTerminated /\ StoreInv
    /\ \A a \in Actors : RunnerInv(a)
    /\ \A a \in Actors, h \in Handlers : FenceInv(a, h)

-----------------------------------------------------------------------------
(* Why a single request neither generates twice nor fails its success.     *)

\* Committed output is known to its worker, unless the execution is over; a
\* worker that starts an attempt has none.
OutputInv ==
    /\ NoGenerationAfterOutput
    /\ outputs = {} \/ business # {} \/ status \in Final \cup {"deleted"}
    /\ \A h \in Handlers :
         pc[h] \in {"start", "ensure", "claim", "save", "begin", "restart"} => h \notin business

\* The worker may still append to its attempt.
MayWrite(h) ==
    \/ pc[h] \in {"publish", "republish"}
    \/ pc[h] = "relay" /\ term[h] = None /\ werr[h] = None

\* The only worker is in step with an active row, with or without the lease.
SoloWorkerInv(h) ==
    /\ pc[h] \in {"start", "ensure", "claim", "save", "begin"} => attempt = 0
    /\ pc[h] \in {"begin", "restart"} => att[h] = attempt + 1
    /\ pc[h] \in Started =>
         att[h] = attempt \/ (att[h] = attempt + 1 /\ h \in leaving)
    /\ pc[h] = "relay" => term[h] = None \/ werr[h] = None
    /\ pc[h] \in Started /\ att[h] = attempt /\ status \in Active =>
         /\ werr[h] # "uncertain" => committed = seq[h]
         /\ term[h] = None /\ (werr[h] # "uncertain" \/ h \in leaving) /\ committed > 0
              => frame[<<attempt, committed>>] # "done"
         /\ MayWrite(h) => frame[Slot(h)] \in {None, "unsafe"}

\* Nothing is written ahead of the row but by a worker that is leaving.
SoloStoreInv ==
    leaving = {} => \A n \in Attempts, s \in Seqs : n > attempt => frame[<<n, s>>] = None

\* A reconciler that is about to report a failure has seen one, and the worker
\* can no longer turn it into a success.
SoloReconcilerInv(a) ==
    pc[a] \in {"r_own", "r_seal", "r_finish"} /\ hand[a] = "failed"
      /\ att[a] = attempt /\ status \in Active =>
        /\ TerminalSeq(a) > 0 /\ frame[<<attempt, TerminalSeq(a)>>] # "done"
        /\ term[a] = "next" =>
             \A h \in Handlers : att[h] = attempt => ~MayWrite(h)

SoloInv ==
    /\ SuccessIsKept /\ SoloStoreInv
    /\ \A h \in Handlers : SoloWorkerInv(h)
    /\ \A a \in Actors : SoloReconcilerInv(a)
=============================================================================
