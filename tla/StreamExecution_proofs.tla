----------------------- MODULE StreamExecution_proofs -----------------------
(***************************************************************************)
(* Proofs about StreamExecution: types, and the inductive invariant        *)
(* ExecutionInv, from which the permanence of committed frames follows.    *)
(*                                                                         *)
(* RunnerInv(a) speaks of one runner and of the row and the frames only,   *)
(* so a step of one runner touches the invariant of the others through     *)
(* the row and the frames.  The lemmas of the first part say how, one for  *)
(* each kind of change; the second part has one lemma per action.          *)
(***************************************************************************)
EXTENDS StreamExecution, TLAPS

\* The runner g makes no step.
Same(g) ==
    /\ pc'[g] = pc[g] /\ att'[g] = att[g] /\ seq'[g] = seq[g] /\ hand'[g] = hand[g]
    /\ term'[g] = term[g] /\ werr'[g] = werr[g] /\ (g \in leaving' <=> g \in leaving)

\* g's lease is not taken by this step, and no execution is revived.
NotClaimed(g) ==
    /\ HoldsLease(g)' => HoldsLease(g)
    /\ status \in Active \/ status' \notin Active \/ attempt = 0

-----------------------------------------------------------------------------
(* The others: runners that make no step.                                  *)

\* The row changes hands or ends; its progress and the frames stay.
LEMMA RowKept ==
    ASSUME TypeOK, NEW g \in Actors, RunnerInv(g), Same(g), NotClaimed(g),
           UNCHANGED <<attempt, committed, frame, owner, sealed>>
    PROVE  RunnerInv(g)'
<1> USE DEF RunnerInv, Same, NotClaimed, TypeOK, RowType, StoreType, RunnerType
<1>1. PositionInv(g)'
  BY DEF PositionInv
<1>2. ReconcilerInv(g)'
  BY DEF ReconcilerInv, TerminalSeq, PositionInv, Engaged, Reconciling
<1>3. ASSUME g \in Handlers PROVE ProgressInv(g)' /\ RollbackInv(g)'
  BY <1>3 DEF ProgressInv, RollbackInv, Slot
<1>4. ASSUME g \in Handlers PROVE HolderInv(g)'
  BY <1>4 DEF HolderInv, Slot
<1> QED BY <1>1, <1>2, <1>3, <1>4

\* The places of committed frames are places.
LEMMA CommittedSlots ==
    ASSUME TypeOK, StoreInv, NEW s \in 1..committed
    PROVE  attempt \in Attempts /\ s \in Seqs /\ <<attempt, s>> \in Slots
BY BoundsAssumption DEF TypeOK, RowType, StoreType, RunnerType, StoreInv, Slots, Attempts, Seqs

\* A frame is appended by another runner, in a free place.
LEMMA AppendKept ==
    ASSUME TypeOK, CommittedPrefix, StoreInv, NEW g \in Actors, RunnerInv(g), Same(g),
           NEW a \in Actors, a # g, NEW slot \in Slots, NEW k \in FrameKinds,
           AppendFrame(a, slot, k), UNCHANGED row
    PROVE  RunnerInv(g)'
<1> USE DEF RunnerInv, Same, row
<1>1. ASSUME NEW t \in Slots, frame[t] # None
      PROVE  frame'[t] = frame[t] /\ owner'[t] = owner[t]
  BY <1>1 DEF TypeOK, RowType, StoreType, RunnerType, AppendFrame
<1>2. ASSUME NEW s \in 1..committed
      PROVE  /\ <<attempt, s>> \in Slots
             /\ frame'[<<attempt, s>>] = frame[<<attempt, s>>]
             /\ owner'[<<attempt, s>>] = owner[<<attempt, s>>]
  BY <1>1, CommittedSlots DEF CommittedPrefix
<1>3. UNCHANGED sealed
  BY DEF AppendFrame
<1>4. PositionInv(g)'
  BY DEF PositionInv
<1>5. ReconcilerInv(g)'
  <2> SUFFICES ASSUME pc[g] \in Reconciling, att[g] = attempt, seq[g] > 0
               PROVE  frame'[<<attempt, seq[g]>>] = frame[<<attempt, seq[g]>>]
    BY <1>3 DEF ReconcilerInv, TerminalSeq
  <2>1. seq[g] \in 1..committed
    BY DEF PositionInv, Engaged, TypeOK, RowType, StoreType, RunnerType
  <2> QED BY <2>1, <1>2
<1>6. ASSUME g \in Handlers PROVE ProgressInv(g)'
  BY <1>6 DEF ProgressInv
<1>7. ASSUME g \in Handlers PROVE RollbackInv(g)'
  <2> SUFFICES ASSUME pc[g] = "rollback", att[g] = attempt, committed > seq[g]
               PROVE  Slot(g)' \in sealed' \/ owner'[Slot(g)'] # g
    BY DEF RollbackInv
  <2>1. seq[g] + 1 \in 1..committed
    BY <1>7 DEF TypeOK, RowType, StoreType, RunnerType
  <2> QED BY <2>1, <1>2, <1>3, <1>7 DEF RollbackInv, Slot
<1>8. ASSUME g \in Handlers PROVE HolderInv(g)'
  <2>1. HoldsLease(g)' <=> HoldsLease(g)
    BY DEF HoldsLease
  <2>2. ASSUME HoldsLease(g), pc[g] = "commit", attempt = att[g]
        PROVE  frame'[Slot(g)'] = hand'[g] /\ owner'[Slot(g)'] = g
    <3>1. frame[Slot(g)] = hand[g] /\ owner[Slot(g)] = g /\ hand[g] \in FrameKinds
      BY <2>2, <1>8 DEF HolderInv, ProgressInv
    <3>2. Slot(g) \in Slots
      BY <2>2, <1>8, BoundsAssumption
         DEF TypeOK, RowType, StoreType, RunnerType, ProgressInv, PositionInv, Engaged, Started,
         Slot, Slots, Attempts, Seqs
    <3>3. Slot(g)' = Slot(g)
      BY DEF Slot
    <3> QED BY <3>1, <3>2, <3>3, <1>1 DEF FrameKinds, Terminal, None
  <2>3. ASSUME term[g] # None, HoldsLease(g), pc[g] \in {"relay", "commit", "rollback"},
               attempt = att[g]
        PROVE  committed \in 1..committed
    BY <2>3, <1>8 DEF HolderInv, TypeOK, RowType, StoreType, RunnerType
  <2> QED BY <1>2, <1>8, <2>1, <2>2, <2>3 DEF HolderInv
<1> QED BY <1>4, <1>5, <1>6, <1>7, <1>8

\* A frame that is not committed is withdrawn.
LEMMA RollbackKept ==
    ASSUME TypeOK, CommittedPrefix, StoreInv, NEW g \in Actors, RunnerInv(g), Same(g),
           NEW n \in Attempts, NEW m \in Seqs, n # attempt \/ m > committed,
           RollbackFrame(<<n, m>>), UNCHANGED row,
           g \in Handlers /\ HoldsLease(g) /\ pc[g] = "commit" /\ attempt = att[g]
             => Slot(g) # <<n, m>>
    PROVE  RunnerInv(g)'
<1> USE DEF RunnerInv, Same, row
<1>1. ASSUME NEW t \in Slots, t # <<n, m>>
      PROVE  frame'[t] = frame[t] /\ owner'[t] = owner[t]
  BY <1>1 DEF TypeOK, RowType, StoreType, RunnerType, RollbackFrame
<1>2. ASSUME NEW s \in 1..committed
      PROVE  /\ <<attempt, s>> \in Slots
             /\ frame'[<<attempt, s>>] = frame[<<attempt, s>>]
             /\ owner'[<<attempt, s>>] = owner[<<attempt, s>>]
  <2>1. <<attempt, s>> # <<n, m>>
    BY BoundsAssumption DEF TypeOK, RowType, StoreType, RunnerType, Seqs
  <2> QED BY <2>1, <1>1, CommittedSlots
<1>3. UNCHANGED sealed
  BY DEF RollbackFrame
<1>4. PositionInv(g)'
  BY DEF PositionInv
<1>5. ReconcilerInv(g)'
  <2> SUFFICES ASSUME pc[g] \in Reconciling, att[g] = attempt, seq[g] > 0
               PROVE  frame'[<<attempt, seq[g]>>] = frame[<<attempt, seq[g]>>]
    BY <1>3 DEF ReconcilerInv, TerminalSeq
  <2>1. seq[g] \in 1..committed
    BY DEF PositionInv, Engaged, TypeOK, RowType, StoreType, RunnerType
  <2> QED BY <2>1, <1>2
<1>6. ASSUME g \in Handlers PROVE ProgressInv(g)'
  BY <1>6 DEF ProgressInv
<1>7. ASSUME g \in Handlers PROVE RollbackInv(g)'
  <2> SUFFICES ASSUME pc[g] = "rollback", att[g] = attempt, committed > seq[g]
               PROVE  Slot(g)' \in sealed' \/ owner'[Slot(g)'] # g
    BY DEF RollbackInv
  <2>1. seq[g] + 1 \in 1..committed
    BY <1>7 DEF TypeOK, RowType, StoreType, RunnerType
  <2> QED BY <2>1, <1>2, <1>3, <1>7 DEF RollbackInv, Slot
<1>8. ASSUME g \in Handlers PROVE HolderInv(g)'
  <2>1. HoldsLease(g)' <=> HoldsLease(g)
    BY DEF HoldsLease
  <2>2. ASSUME HoldsLease(g), pc[g] = "commit", attempt = att[g]
        PROVE  frame'[Slot(g)'] = hand'[g] /\ owner'[Slot(g)'] = g
    <3>1. frame[Slot(g)] = hand[g] /\ owner[Slot(g)] = g
      BY <2>2, <1>8 DEF HolderInv
    <3>2. Slot(g) \in Slots
      BY <2>2, <1>8, BoundsAssumption
         DEF TypeOK, RowType, StoreType, RunnerType, ProgressInv, PositionInv, Engaged, Started,
         Slot, Slots, Attempts, Seqs
    <3>3. Slot(g)' = Slot(g)
      BY DEF Slot
    <3> QED BY <2>2, <3>1, <3>2, <3>3, <1>1, <1>8
  <2>3. ASSUME term[g] # None, HoldsLease(g), pc[g] \in {"relay", "commit", "rollback"},
               attempt = att[g]
        PROVE  committed \in 1..committed
    BY <2>3, <1>8 DEF HolderInv, TypeOK, RowType, StoreType, RunnerType
  <2> QED BY <1>2, <1>8, <2>1, <2>2, <2>3 DEF HolderInv
<1> QED BY <1>4, <1>5, <1>6, <1>7, <1>8

\* Another worker commits its frame: it holds the lease, so g does not, and no
\* reconciler has claimed the attempt.
LEMMA CommitKept ==
    ASSUME TypeOK, NEW g \in Actors, RunnerInv(g), Same(g),
           NEW h \in Handlers, h # g, RunnerInv(h), FenceInv(g, h),
           pc[h] = "commit", MayCommit(h), CommitSequence(h), UNCHANGED redis
    PROVE  RunnerInv(g)'
<1> USE DEF RunnerInv, Same, redis, MayCommit, CommitSequence
<1>1. PositionInv(g)'
  BY DEF PositionInv, TypeOK, RowType, StoreType, RunnerType, Actors
<1>2. pc[g] \in Reconciling => att[g] # attempt
  BY DEF FenceInv, Started
<1>3. ReconcilerInv(g)'
  BY <1>2 DEF ReconcilerInv, TerminalSeq, TypeOK, RowType, StoreType, RunnerType, Actors
<1>4. ASSUME g \in Handlers PROVE ProgressInv(g)'
  BY <1>4 DEF ProgressInv
<1>5. ASSUME g \in Handlers PROVE RollbackInv(g)'
  <2>1. owner[Slot(h)] = h
    BY DEF HolderInv
  <2>2. committed' = committed + 1
    OBVIOUS
  <2> SUFFICES ASSUME pc[g] = "rollback", att[g] = attempt, committed + 1 > seq[g]
               PROVE  Slot(g) \in sealed \/ owner[Slot(g)] # g
    BY <2>2 DEF RollbackInv, Slot
  <2>3. CASE committed > seq[g]
    BY <2>3, <1>5 DEF RollbackInv
  <2>4. CASE committed = seq[g]
    BY <2>4, <2>1 DEF Slot
  <2> QED BY <2>3, <2>4 DEF TypeOK, RowType, StoreType, RunnerType
<1>6. ~HoldsLease(g)'
  BY DEF HoldsLease
<1> QED BY <1>1, <1>3, <1>4, <1>5, <1>6 DEF HolderInv

\* Another worker starts the next attempt.
LEMMA StartKept ==
    ASSUME TypeOK, NEW g \in Actors, RunnerInv(g), Same(g), ~HoldsLease(g)',
           attempt' = attempt + 1, committed' = 0, UNCHANGED redis
    PROVE  RunnerInv(g)'
<1> USE DEF RunnerInv, Same, redis
<1>1. PositionInv(g)'
  BY DEF PositionInv, TypeOK, RowType, StoreType, RunnerType
<1>2. ReconcilerInv(g)'
  BY DEF ReconcilerInv, TerminalSeq, TypeOK, RowType, StoreType, RunnerType
<1>3. ASSUME g \in Handlers PROVE ProgressInv(g)' /\ RollbackInv(g)'
  BY <1>3 DEF ProgressInv, RollbackInv, TypeOK, RowType, StoreType, RunnerType
<1> QED BY <1>1, <1>2, <1>3 DEF HolderInv

\* A frame is sealed.
LEMMA SealKept ==
    ASSUME TypeOK, NEW g \in Actors, RunnerInv(g), Same(g),
           UNCHANGED <<row, frame, owner>>, sealed \subseteq sealed'
    PROVE  RunnerInv(g)'
<1> USE DEF RunnerInv, Same, row
<1>1. PositionInv(g)'
  BY DEF PositionInv
<1>2. ReconcilerInv(g)'
  BY DEF ReconcilerInv, TerminalSeq
<1>3. ASSUME g \in Handlers PROVE ProgressInv(g)' /\ RollbackInv(g)'
  BY <1>3 DEF ProgressInv, RollbackInv, Slot
<1>4. ASSUME g \in Handlers PROVE HolderInv(g)'
  BY <1>4 DEF HolderInv, HoldsLease, Slot
<1> QED BY <1>1, <1>2, <1>3, <1>4

\* A reconciler finishes the execution.
LEMMA FinishKept ==
    ASSUME TypeOK, NEW g \in Actors, RunnerInv(g), Same(g),
           NEW a \in Actors, RunnerInv(a), pc[a] = "r_finish", OwnsReconciliation(a),
           status' = hand[a], committed' = TerminalSeq(a), lease' = FALSE,
           UNCHANGED <<attempt, redis>>
    PROVE  RunnerInv(g)'
<1> USE DEF RunnerInv, Same, redis
<1>1. /\ att[a] = attempt /\ committed = seq[a] /\ status' \notin Active /\ status \in Active
      /\ committed' = committed \/ committed' = committed + 1
      /\ committed' > 0 => <<attempt, committed'>> \in sealed
  BY DEF ReconcilerInv, Reconciling, OwnsReconciliation, Final, Active, TerminalSeq, TypeOK,
     RowType, StoreType, RunnerType
<1>2. PositionInv(g)'
  BY <1>1 DEF PositionInv, TypeOK, RowType, StoreType, RunnerType
<1>3. ReconcilerInv(g)'
  BY <1>1 DEF ReconcilerInv, TerminalSeq, TypeOK, RowType, StoreType, RunnerType
<1>4. ASSUME g \in Handlers PROVE ProgressInv(g)'
  BY <1>4 DEF ProgressInv
<1>5. ASSUME g \in Handlers PROVE RollbackInv(g)'
  BY <1>1, <1>5 DEF RollbackInv, Slot, TypeOK, RowType, StoreType, RunnerType
<1>6. ~HoldsLease(g)'
  BY DEF HoldsLease
<1> QED BY <1>2, <1>3, <1>4, <1>5, <1>6 DEF HolderInv

\* Nobody claims, starts or moves to another attempt.
LEMMA FenceKept ==
    ASSUME NEW a \in Actors, NEW h \in Handlers, FenceInv(a, h),
           pc'[a] \in Reconciling => pc[a] \in Reconciling /\ att'[a] = att[a],
           pc'[h] \in Started => pc[h] \in Started /\ att'[h] = att[h],
           HoldsLease(h)' => HoldsLease(h), UNCHANGED attempt
    PROVE  FenceInv(a, h)'
BY DEF FenceInv

\* The row's progress and the frames stay.
LEMMA StoreKept ==
    ASSUME TypeOK, CommittedPrefix, CompletedIsTerminated, StoreInv,
           UNCHANGED <<attempt, committed, frame, sealed>>,
           status' \in {"completed", "absent"} => status' = status,
           lease' => status' \in Active
    PROVE  CommittedPrefix' /\ CompletedIsTerminated' /\ StoreInv'
BY DEF CommittedPrefix, CompletedIsTerminated, StoreInv

\* An appended frame takes the first free place of its attempt.
LEMMA AppendStore ==
    ASSUME TypeOK, CommittedPrefix, CompletedIsTerminated, StoreInv,
           NEW a \in Actors, NEW n \in Attempts, NEW m \in Seqs, NEW k \in FrameKinds,
           AppendFrame(a, <<n, m>>, k), UNCHANGED row,
           m = MaxFrames => k \in Terminal, n > attempt => m = 1,
           n = attempt => m <= committed + 1
    PROVE  StoreType' /\ CommittedPrefix' /\ CompletedIsTerminated' /\ StoreInv'
<1> USE BoundsAssumption DEF AppendFrame, row
<1> <<n, m>> \in Slots
  BY DEF Slots
<1>1. StoreType'
  BY DEF TypeOK, StoreType
<1>2. ASSUME NEW t \in Slots
      PROVE  frame'[t] = IF t = <<n, m>> THEN k ELSE frame[t]
  BY DEF TypeOK, StoreType
<1>3. ASSUME NEW s \in 1..committed
      PROVE  frame'[<<attempt, s>>] = frame[<<attempt, s>>]
  <2>1. <<attempt, s>> \in Slots
    BY CommittedSlots
  <2> QED BY <1>2, <2>1 DEF CommittedPrefix
<1>4. CommittedPrefix'
  <2>1. ASSUME attempt > 0, NEW s \in Seqs, s > committed + 1
        PROVE  frame'[<<attempt, s>>] = None
    <3>1. <<attempt, s>> \in Slots /\ <<attempt, s>> # <<n, m>>
      BY <2>1 DEF TypeOK, RowType, Slots, Attempts, Seqs
    <3>2. frame[<<attempt, s>>] = None
      BY <2>1 DEF CommittedPrefix
    <3> QED BY <3>1, <3>2, <1>2
  <2> QED BY <1>3, <2>1 DEF CommittedPrefix
<1>5. CompletedIsTerminated'
  BY <1>3 DEF CompletedIsTerminated, TypeOK, RowType
<1>6. ASSUME NEW t \in sealed' PROVE frame'[t] \in Terminal
  BY <1>2, <1>6 DEF StoreInv, TypeOK, StoreType, Terminal, None
<1>7. ASSUME NEW i \in Attempts PROVE frame'[<<i, MaxFrames>>] \in Terminal \cup {None}
  <2>1. <<i, MaxFrames>> \in Slots
    BY DEF Slots, Seqs
  <2> QED BY <2>1, <1>2 DEF StoreInv
<1>8. ASSUME NEW i \in Attempts, NEW s \in Seqs, i > attempt, s > 1
      PROVE  frame'[<<i, s>>] = None
  <2>1. <<i, s>> \in Slots /\ <<i, s>> # <<n, m>>
    BY <1>8 DEF Slots, Seqs
  <2> QED BY <2>1, <1>2, <1>8 DEF StoreInv
<1>9. StoreInv'
  BY <1>6, <1>7, <1>8 DEF StoreInv
<1> QED BY <1>1, <1>4, <1>5, <1>9

\* A frame that is neither committed nor sealed is withdrawn.
LEMMA RollbackStore ==
    ASSUME TypeOK, CommittedPrefix, CompletedIsTerminated, StoreInv,
           NEW n \in Attempts, NEW m \in Seqs, n # attempt \/ m > committed,
           <<n, m>> \notin sealed, RollbackFrame(<<n, m>>), UNCHANGED row
    PROVE  StoreType' /\ CommittedPrefix' /\ CompletedIsTerminated' /\ StoreInv'
<1> USE BoundsAssumption DEF RollbackFrame, row
<1> <<n, m>> \in Slots
  BY DEF Slots
<1>1. StoreType'
  BY DEF TypeOK, StoreType
<1>2. ASSUME NEW t \in Slots
      PROVE  frame'[t] = IF t = <<n, m>> THEN None ELSE frame[t]
  BY DEF TypeOK, StoreType
<1>3. ASSUME NEW s \in 1..committed
      PROVE  frame'[<<attempt, s>>] = frame[<<attempt, s>>]
  <2>1. <<attempt, s>> \in Slots /\ <<attempt, s>> # <<n, m>>
    BY CommittedSlots DEF TypeOK, RowType, Seqs
  <2> QED BY <1>2, <2>1
<1>4. CommittedPrefix'
  <2>1. ASSUME attempt > 0, NEW s \in Seqs, s > committed + 1
        PROVE  frame'[<<attempt, s>>] = None
    BY <2>1, <1>2 DEF CommittedPrefix, TypeOK, RowType, Slots, Attempts
  <2> QED BY <1>3, <2>1 DEF CommittedPrefix
<1>5. CompletedIsTerminated'
  BY <1>3 DEF CompletedIsTerminated, TypeOK, RowType
<1>6. ASSUME NEW t \in sealed' PROVE frame'[t] \in Terminal
  BY <1>2, <1>6 DEF StoreInv, TypeOK, StoreType
<1>7. ASSUME NEW i \in Attempts PROVE frame'[<<i, MaxFrames>>] \in Terminal \cup {None}
  BY <1>2 DEF Slots, Seqs, StoreInv
<1>8. ASSUME NEW i \in Attempts, NEW s \in Seqs, i > attempt, s > 1
      PROVE  frame'[<<i, s>>] = None
  BY <1>2, <1>8 DEF StoreInv, Slots
<1>9. StoreInv'
  BY <1>6, <1>7, <1>8 DEF StoreInv
<1> QED BY <1>1, <1>4, <1>5, <1>9

-----------------------------------------------------------------------------
(* The actions.                                                            *)

LEMMA LookupStep ==
    ASSUME TypeOK, ExecutionInv, NEW h \in Handlers, Lookup(h)
    PROVE  TypeOK' /\ ExecutionInv'
<1> h \in Actors
  BY DEF Actors
<1> USE BoundsAssumption, NoneAssumption DEF ExecutionInv, Lookup, Goto, redis, aux
<1>1. TypeOK'
  <2>1. RowType'
    BY DEF TypeOK, Active, RowType, StoreType, RunnerType, SetsType, Statuses,
        Actors, Slots, FrameKinds, PCs, Terminal, MaxTries, Attempts, Final, Seqs
  <2>2. StoreType'
    BY DEF TypeOK, Active, RowType, StoreType, RunnerType, SetsType, Statuses,
        Actors, Slots, FrameKinds, PCs, Terminal, MaxTries, Attempts, Final, Seqs
  <2>3. RunnerType'
    BY DEF TypeOK, Active, RowType, StoreType, RunnerType, SetsType, Statuses,
        Actors, Slots, FrameKinds, PCs, Terminal, MaxTries, Attempts, Final, Seqs
  <2>4. SetsType'
    BY DEF TypeOK, Active, RowType, StoreType, RunnerType, SetsType, Statuses,
        Actors, Slots, FrameKinds, PCs, Terminal, MaxTries, Attempts, Final, Seqs
  <2> QED BY <2>1, <2>2, <2>3, <2>4 DEF TypeOK
<1>2. ASSUME NEW g \in Actors, g # h PROVE Same(g) /\ NotClaimed(g)
  BY <1>2 DEF Same, NotClaimed, HoldsLease, StoreInv, TypeOK, RowType, StoreType,
      RunnerType, Active
<1>3. CommittedPrefix' /\ CompletedIsTerminated' /\ StoreInv'
  BY StoreKept DEF StoreInv, TypeOK, RowType, StoreType, RunnerType, Active, Final,
      HoldsLease
<1>4. RunnerInv(h)'
  BY DEF RunnerInv, TypeOK, Active, PositionInv, ReconcilerInv, ProgressInv,
      HolderInv, RollbackInv, RowType, StoreType, RunnerType, SetsType, Engaged,
      Reconciling, Terminal, Final, TerminalSeq, FrameKinds, HoldsLease, Started,
      Slot, Statuses, Actors, Slots, PCs, MaxTries, Attempts, Seqs
<1>5. ASSUME NEW g \in Actors, g # h PROVE RunnerInv(g)'
  BY <1>2, <1>5, RowKept
<1>6. ASSUME NEW b \in Actors, NEW g \in Handlers PROVE FenceInv(b, g)'
  BY FenceKept DEF Actors, TypeOK, RowType, RunnerType, Started, Reconciling,
      HoldsLease, StoreInv
<1> QED BY <1>1, <1>3, <1>4, <1>5, <1>6

LEMMA EnsureStep ==
    ASSUME TypeOK, ExecutionInv, NEW h \in Handlers, Ensure(h)
    PROVE  TypeOK' /\ ExecutionInv'
<1> h \in Actors
  BY DEF Actors
<1> USE BoundsAssumption, NoneAssumption DEF ExecutionInv, Ensure, Goto, ReadClock,
    row, redis, aux
<1>1. TypeOK'
  <2>1. RowType'
    BY DEF TypeOK, RowType, StoreType, RunnerType, SetsType, Statuses, Actors,
        Slots, FrameKinds, PCs, Terminal, MaxTries, Attempts, Active, Final, Seqs
  <2>2. StoreType'
    BY DEF TypeOK, RowType, StoreType, RunnerType, SetsType, Statuses, Actors,
        Slots, FrameKinds, PCs, Terminal, MaxTries, Attempts, Active, Final, Seqs
  <2>3. RunnerType'
    BY DEF TypeOK, RowType, StoreType, RunnerType, SetsType, Statuses, Actors,
        Slots, FrameKinds, PCs, Terminal, MaxTries, Attempts, Active, Final, Seqs
  <2>4. SetsType'
    BY DEF TypeOK, RowType, StoreType, RunnerType, SetsType, Statuses, Actors,
        Slots, FrameKinds, PCs, Terminal, MaxTries, Attempts, Active, Final, Seqs
  <2> QED BY <2>1, <2>2, <2>3, <2>4 DEF TypeOK
<1>2. ASSUME NEW g \in Actors, g # h PROVE Same(g) /\ NotClaimed(g)
  BY <1>2 DEF Same, NotClaimed, HoldsLease, StoreInv, TypeOK, RowType, StoreType,
      RunnerType, Active
<1>3. CommittedPrefix' /\ CompletedIsTerminated' /\ StoreInv'
  BY StoreKept DEF StoreInv, TypeOK, RowType, StoreType, RunnerType, Active, Final,
      HoldsLease
<1>4. RunnerInv(h)'
  BY DEF RunnerInv, TypeOK, PositionInv, ReconcilerInv, ProgressInv, HolderInv,
      RollbackInv, RowType, StoreType, RunnerType, SetsType, Engaged, Reconciling,
      Active, Terminal, Final, TerminalSeq, FrameKinds, HoldsLease, Started, Slot,
      Statuses, Actors, Slots, PCs, MaxTries, Attempts, Seqs
<1>5. ASSUME NEW g \in Actors, g # h PROVE RunnerInv(g)'
  BY <1>2, <1>5, RowKept
<1>6. ASSUME NEW b \in Actors, NEW g \in Handlers PROVE FenceInv(b, g)'
  BY FenceKept DEF Actors, TypeOK, RowType, RunnerType, Started, Reconciling,
      HoldsLease, StoreInv
<1> QED BY <1>1, <1>3, <1>4, <1>5, <1>6

LEMMA ClaimStep ==
    ASSUME TypeOK, ExecutionInv, NEW h \in Handlers, Claim(h)
    PROVE  TypeOK' /\ ExecutionInv'
<1> h \in Actors
  BY DEF Actors
<1> USE BoundsAssumption, NoneAssumption DEF ExecutionInv, Claim, Goto, row, redis,
    aux
<1>1. TypeOK'
  <2>1. RowType'
    BY DEF TypeOK, Active, RowType, StoreType, RunnerType, SetsType, Statuses,
        Actors, Slots, FrameKinds, PCs, Terminal, MaxTries, Attempts, Final, Seqs
  <2>2. StoreType'
    BY DEF TypeOK, Active, RowType, StoreType, RunnerType, SetsType, Statuses,
        Actors, Slots, FrameKinds, PCs, Terminal, MaxTries, Attempts, Final, Seqs
  <2>3. RunnerType'
    BY DEF TypeOK, Active, RowType, StoreType, RunnerType, SetsType, Statuses,
        Actors, Slots, FrameKinds, PCs, Terminal, MaxTries, Attempts, Final, Seqs
  <2>4. SetsType'
    BY DEF TypeOK, Active, RowType, StoreType, RunnerType, SetsType, Statuses,
        Actors, Slots, FrameKinds, PCs, Terminal, MaxTries, Attempts, Final, Seqs
  <2> QED BY <2>1, <2>2, <2>3, <2>4 DEF TypeOK
<1>2. ASSUME NEW g \in Actors, g # h PROVE Same(g) /\ NotClaimed(g)
  BY <1>2 DEF Same, NotClaimed, HoldsLease, StoreInv, TypeOK, RowType, StoreType,
      RunnerType, Active
<1>3. CommittedPrefix' /\ CompletedIsTerminated' /\ StoreInv'
  BY StoreKept DEF StoreInv, TypeOK, RowType, StoreType, RunnerType, Active, Final,
      HoldsLease
<1>4. RunnerInv(h)'
  BY DEF RunnerInv, TypeOK, Active, PositionInv, ReconcilerInv, ProgressInv,
      HolderInv, RollbackInv, RowType, StoreType, RunnerType, SetsType, Engaged,
      Reconciling, Terminal, Final, TerminalSeq, FrameKinds, HoldsLease, Started,
      Slot, Statuses, Actors, Slots, PCs, MaxTries, Attempts, Seqs
<1>5. ASSUME NEW g \in Actors, g # h PROVE RunnerInv(g)'
  BY <1>2, <1>5, RowKept
<1>6. ASSUME NEW b \in Actors, NEW g \in Handlers PROVE FenceInv(b, g)'
  <2>1. ASSUME g # h PROVE HoldsLease(g)' => HoldsLease(g)
    BY <1>2, <2>1 DEF Actors, NotClaimed
  <2>2. CASE g # h
    BY <2>1, <2>2, FenceKept DEF Actors, TypeOK, RunnerType, Started, Reconciling
  <2>3. CASE g = h
    BY <2>3 DEF FenceInv, TypeOK, RunnerType, Started
  <2> QED BY <2>2, <2>3
<1> QED BY <1>1, <1>3, <1>4, <1>5, <1>6

LEMMA SaveRequestStep ==
    ASSUME TypeOK, ExecutionInv, NEW h \in Handlers, SaveRequest(h)
    PROVE  TypeOK' /\ ExecutionInv'
<1> h \in Actors
  BY DEF Actors
<1> USE BoundsAssumption, NoneAssumption DEF ExecutionInv, SaveRequest, Goto, row,
    Fault, FinishRow, redis
<1>1. TypeOK'
  <2>1. RowType'
    BY DEF TypeOK, HoldsLease, Active, RowType, StoreType, RunnerType, SetsType,
        Statuses, Actors, Slots, FrameKinds, PCs, Terminal, MaxTries, Attempts,
        Final, Seqs
  <2>2. StoreType'
    BY DEF TypeOK, HoldsLease, Active, RowType, StoreType, RunnerType, SetsType,
        Statuses, Actors, Slots, FrameKinds, PCs, Terminal, MaxTries, Attempts,
        Final, Seqs
  <2>3. RunnerType'
    BY DEF TypeOK, HoldsLease, Active, RowType, StoreType, RunnerType, SetsType,
        Statuses, Actors, Slots, FrameKinds, PCs, Terminal, MaxTries, Attempts,
        Final, Seqs
  <2>4. SetsType'
    BY DEF TypeOK, HoldsLease, Active, RowType, StoreType, RunnerType, SetsType,
        Statuses, Actors, Slots, FrameKinds, PCs, Terminal, MaxTries, Attempts,
        Final, Seqs
  <2> QED BY <2>1, <2>2, <2>3, <2>4 DEF TypeOK
<1>2. ASSUME NEW g \in Actors, g # h PROVE Same(g) /\ NotClaimed(g)
  BY <1>2 DEF Same, NotClaimed, HoldsLease, StoreInv, TypeOK, RowType, StoreType,
      RunnerType, Active
<1>3. CommittedPrefix' /\ CompletedIsTerminated' /\ StoreInv'
  BY StoreKept DEF StoreInv, TypeOK, RowType, StoreType, RunnerType, Active, Final,
      HoldsLease
<1>4. RunnerInv(h)'
  <2>1. PositionInv(h)'
    BY DEF RunnerInv, TypeOK, RowType, StoreType, RunnerType, PositionInv,
        ProgressInv, Engaged, FrameKinds, Terminal, Started, Reconciling, Actors
  <2>2. ReconcilerInv(h)'
    BY DEF RunnerInv, TypeOK, RowType, StoreType, RunnerType, ReconcilerInv,
        PositionInv, Reconciling, Active, Terminal, Final, TerminalSeq, Engaged,
        Started, Actors
  <2>3. ProgressInv(h)'
    BY DEF RunnerInv, TypeOK, RowType, StoreType, RunnerType, ProgressInv,
        PositionInv, FrameKinds, Terminal, Engaged, Started, Reconciling, Actors
  <2>4. HolderInv(h)'
    <3>1. CASE pc'[h] = "begin" /\ UNCHANGED row /\ att'[h] = attempt + 1
      BY <3>1 DEF HolderInv, TypeOK, RowType, Started
    <3>2. CASE pc'[h] = "done"
      BY <3>2 DEF HolderInv, Started
    <3> QED BY <3>1, <3>2 DEF TypeOK, RunnerType
  <2>5. RollbackInv(h)'
    BY DEF RunnerInv, TypeOK, RowType, StoreType, RunnerType, RollbackInv,
        PositionInv, Slot, Engaged, Started, Reconciling, Actors
  <2> QED BY <2>1, <2>2, <2>3, <2>4, <2>5 DEF RunnerInv
<1>5. ASSUME NEW g \in Actors, g # h PROVE RunnerInv(g)'
  BY <1>2, <1>5, RowKept
<1>6. ASSUME NEW b \in Actors, NEW g \in Handlers PROVE FenceInv(b, g)'
  BY FenceKept DEF Actors, TypeOK, RowType, RunnerType, Started, Reconciling,
      HoldsLease, StoreInv
<1> QED BY <1>1, <1>3, <1>4, <1>5, <1>6

LEMMA StartAttemptStep ==
    ASSUME TypeOK, ExecutionInv, NEW h \in Handlers, StartAttempt(h)
    PROVE  TypeOK' /\ ExecutionInv'
<1> USE BoundsAssumption, NoneAssumption DEF ExecutionInv, row, redis, Goto, Fault
<1> h \in Actors
  BY DEF Actors
<1>1. /\ pc[h] \in {"begin", "restart"} /\ RunnerInv(h)
      /\ seq[h] = 0 /\ term[h] = None /\ werr[h] = None /\ h \notin leaving /\ att[h] > 0
      /\ HoldsLease(h) => attempt = att[h] - 1
  BY DEF StartAttempt, RunnerInv, ProgressInv, HolderInv, PositionInv, Engaged
<1>2. CASE /\ MayStartAttempt(h)
           /\ status' = "running" /\ attempt' = att[h] /\ committed' = 0
           /\ pc' = [pc EXCEPT ![h] = IF pc[h] = "begin" THEN "publish" ELSE "republish"]
           /\ UNCHANGED <<lockedBy, lease, leaving, redis, att, seq, hand, term, werr, business,
                          ctxDone, tries, stale, aux>>
  <2>1. attempt' = attempt + 1 /\ HoldsLease(h)
    BY <1>1, <1>2 DEF MayStartAttempt, TypeOK, RowType, RunnerType
  <2>0. att[h] \in Attempts /\ attempt' \in Attempts /\ attempt' > attempt
    <3>1. att[h] \in Attempts
      BY <1>1 DEF TypeOK, RunnerType, Attempts
    <3>2. attempt \in Nat
      BY DEF TypeOK, RowType
    <3> QED BY <1>2, <2>1, <3>1, <3>2
  <2>2. TypeOK'
    <3>1. RowType'
      BY <1>2, <2>0 DEF TypeOK, RowType, Statuses, Active, Attempts
    <3>2. RunnerType'
      BY <1>2 DEF TypeOK, RunnerType, PCs
    <3> QED BY <1>2, <3>1, <3>2 DEF TypeOK, StoreType, SetsType, aux
  <2>3. CommittedPrefix'
    BY <1>2, <2>0 DEF CommittedPrefix, StoreInv, Seqs
  <2>4. CompletedIsTerminated'
    BY <1>2 DEF CompletedIsTerminated
  <2>5. StoreInv'
    BY <1>2, <2>1 DEF StoreInv, TypeOK, RowType, Active, Attempts
  <2>6. ASSUME NEW g \in Actors, g # h PROVE RunnerInv(g)'
    <3>1. Same(g) /\ ~HoldsLease(g)'
      BY <1>2, <2>1, <2>6 DEF Same, HoldsLease, TypeOK, RunnerType
    <3> QED BY <1>2, <2>1, <3>1, StartKept
  <2>7. RunnerInv(h)'
    <3>1. pc'[h] \in {"publish", "republish"}
      BY <1>2 DEF TypeOK, RunnerType
    <3> QED BY <1>1, <1>2, <2>1, <3>1
         DEF RunnerInv, PositionInv, ReconcilerInv, ProgressInv, HolderInv, RollbackInv, Engaged,
             Started, Reconciling, TypeOK, RowType, RunnerType
  <2>8. ASSUME NEW b \in Actors, NEW g \in Handlers PROVE FenceInv(b, g)'
    <3>1. pc'[b] \in Reconciling => pc[b] \in Reconciling
      BY <1>2 DEF TypeOK, RunnerType, Reconciling
    <3>2. pc[b] \in Reconciling => att[b] <= attempt
      BY DEF RunnerInv, ReconcilerInv
    <3> QED BY <1>2, <2>1, <3>1, <3>2 DEF FenceInv, TypeOK, RowType, RunnerType
  <2> QED BY <2>2, <2>3, <2>4, <2>5, <2>6, <2>7, <2>8
<1>3. CASE /\ \/ pc' = [pc EXCEPT ![h] = "done"] /\ UNCHANGED leaving
              \/ pc' = [pc EXCEPT ![h] = "relay"] /\ leaving' = leaving \cup {h}
           /\ faults' = faults \/ Fault
           /\ UNCHANGED <<row, redis, att, seq, hand, term, werr, business, ctxDone, tries,
                          stale, outputs>>
  <2>1. TypeOK'
    BY <1>3 DEF TypeOK, RowType, StoreType, RunnerType, SetsType, PCs
  <2>2. CommittedPrefix' /\ CompletedIsTerminated' /\ StoreInv'
    BY <1>3, StoreKept DEF StoreInv
  <2>3. ASSUME NEW g \in Actors, g # h PROVE RunnerInv(g)'
    <3>1. Same(g) /\ NotClaimed(g)
      BY <1>3, <2>3 DEF Same, NotClaimed, HoldsLease, TypeOK, RunnerType
    <3> QED BY <1>3, <3>1, RowKept
  <2>4. RunnerInv(h)'
    <3>1. pc'[h] = "done" \/ (pc'[h] = "relay" /\ h \in leaving')
      BY <1>3 DEF TypeOK, RunnerType
    <3>2. HoldsLease(h)' => attempt' # att'[h]
      BY <1>1, <1>3 DEF HoldsLease, TypeOK, RowType, RunnerType
    <3>3. PositionInv(h)' /\ ReconcilerInv(h)' /\ ProgressInv(h)' /\ RollbackInv(h)'
      BY <1>1, <1>3, <3>1 DEF RunnerInv, PositionInv, ReconcilerInv, ProgressInv, RollbackInv,
         Reconciling, Engaged, Started
    <3>4. HolderInv(h)'
      BY <1>3, <3>1, <3>2 DEF HolderInv, Started
    <3> QED BY <3>3, <3>4 DEF RunnerInv
  <2>5. ASSUME NEW b \in Actors, NEW g \in Handlers PROVE FenceInv(b, g)'
    <3>1. pc'[b] \in Reconciling => pc[b] \in Reconciling
      BY <1>3 DEF TypeOK, RunnerType, Reconciling
    <3>2. CASE g = h
      BY <1>1, <1>3, <3>2 DEF FenceInv, HoldsLease, TypeOK, RowType, RunnerType
    <3>3. CASE g # h
      <4>1. pc'[g] = pc[g]
        BY <1>3, <3>3 DEF TypeOK, RunnerType, Actors
      <4> QED BY <1>3, <3>1, <4>1, FenceKept DEF HoldsLease
    <3> QED BY <3>2, <3>3
  <2> QED BY <2>1, <2>2, <2>3, <2>4, <2>5
<1> QED BY <1>1, <1>2, <1>3 DEF StartAttempt, aux

LEMMA PublishAttemptStep ==
    ASSUME TypeOK, ExecutionInv, NEW h \in Handlers, PublishAttempt(h)
    PROVE  TypeOK' /\ ExecutionInv'
<1> h \in Actors
  BY DEF Actors
<1> USE BoundsAssumption, NoneAssumption DEF ExecutionInv, PublishAttempt, Goto,
    row, Fault, FinishRow
<1>1. TypeOK'
  <2>1. RowType'
    BY DEF TypeOK, HoldsLease, Active, RowType, StoreType, RunnerType, SetsType,
        Statuses, Actors, Slots, FrameKinds, PCs, Terminal, MaxTries, Attempts,
        Final, Seqs
  <2>2. StoreType'
    BY DEF TypeOK, HoldsLease, Active, RowType, StoreType, RunnerType, SetsType,
        Statuses, Actors, Slots, FrameKinds, PCs, Terminal, MaxTries, Attempts,
        Final, Seqs
  <2>3. RunnerType'
    BY DEF TypeOK, HoldsLease, Active, RowType, StoreType, RunnerType, SetsType,
        Statuses, Actors, Slots, FrameKinds, PCs, Terminal, MaxTries, Attempts,
        Final, Seqs
  <2>4. SetsType'
    BY DEF TypeOK, HoldsLease, Active, RowType, StoreType, RunnerType, SetsType,
        Statuses, Actors, Slots, FrameKinds, PCs, Terminal, MaxTries, Attempts,
        Final, Seqs
  <2> QED BY <2>1, <2>2, <2>3, <2>4 DEF TypeOK
<1>2. ASSUME NEW g \in Actors, g # h PROVE Same(g) /\ NotClaimed(g)
  BY <1>2 DEF Same, NotClaimed, HoldsLease, StoreInv, TypeOK, RowType, StoreType,
      RunnerType, Active
<1>3. CommittedPrefix' /\ CompletedIsTerminated' /\ StoreInv'
  BY StoreKept DEF StoreInv, TypeOK, RowType, StoreType, RunnerType, Active, Final,
      HoldsLease
<1>4. RunnerInv(h)'
  BY DEF RunnerInv, TypeOK, HoldsLease, Active, PositionInv, ReconcilerInv,
      ProgressInv, HolderInv, RollbackInv, RowType, StoreType, RunnerType, SetsType,
      Engaged, Reconciling, Terminal, Final, TerminalSeq, FrameKinds, Started, Slot,
      Statuses, Actors, Slots, PCs, MaxTries, Attempts, Seqs
<1>5. ASSUME NEW g \in Actors, g # h PROVE RunnerInv(g)'
  BY <1>2, <1>5, RowKept
<1>6. ASSUME NEW b \in Actors, NEW g \in Handlers PROVE FenceInv(b, g)'
  BY FenceKept DEF Actors, TypeOK, RowType, RunnerType, Started, Reconciling,
      HoldsLease, StoreInv
<1> QED BY <1>1, <1>3, <1>4, <1>5, <1>6

\* flushLocked up to its commit, for a frame of the upstream and for relayDirect's
\* error event.
LEMMA AppendStep ==
    ASSUME TypeOK, ExecutionInv, NEW h \in Handlers, NEW k \in FrameKinds,
           pc[h] = "relay", term[h] = None, werr[h] = None,
           k \in Terminal \/ seq[h] + 1 < MaxFrames,
           Append(h, k), leaving' = leaving \/ leaving' = leaving \cup {h},
           h \in leaving' => k = "error",
           UNCHANGED <<row, att, seq, term, ctxDone, tries, stale, outputs>>
    PROVE  TypeOK' /\ ExecutionInv'
<1> USE BoundsAssumption, NoneAssumption DEF ExecutionInv, row, redis, Goto, Fault
<1> h \in Actors
  BY DEF Actors
<1> RunnerInv(h)
  OBVIOUS
<1>1. /\ att[h] \in Attempts /\ seq[h] + 1 \in Seqs /\ seq[h] < MaxFrames
      /\ att[h] > attempt => seq[h] = 0
      /\ att[h] = attempt => seq[h] <= committed
  BY DEF RunnerInv, ProgressInv, PositionInv, Engaged, Started, TypeOK, RunnerType,
         Attempts, Seqs
<1>2. CASE /\ AppendFrame(h, Slot(h), k)
           /\ hand' = [hand EXCEPT ![h] = k] /\ pc' = [pc EXCEPT ![h] = "commit"]
           /\ UNCHANGED <<werr, business, faults>>
  <2>1. AppendFrame(h, <<att[h], seq[h] + 1>>, k)
    BY <1>2 DEF Slot
  <2>2. StoreType' /\ CommittedPrefix' /\ CompletedIsTerminated' /\ StoreInv'
    <3>1. /\ seq[h] + 1 = MaxFrames => k \in Terminal
          /\ att[h] > attempt => seq[h] + 1 = 1
          /\ att[h] = attempt => seq[h] + 1 <= committed + 1
      BY <1>1 DEF TypeOK, RowType, RunnerType
    <3> QED BY <1>1, <2>1, <3>1, AppendStore
  <2>3. TypeOK'
    <3>1. RunnerType'
      BY <1>2 DEF TypeOK, RunnerType, PCs
    <3> QED BY <1>2, <2>2, <3>1 DEF TypeOK, RowType, SetsType
  <2>4. ASSUME NEW g \in Actors, g # h PROVE Same(g)
    BY <1>2, <2>4 DEF Same, TypeOK, RunnerType
  <2>5. ASSUME NEW g \in Actors, g # h PROVE RunnerInv(g)'
    BY <1>1, <2>1, <2>4, <2>5, AppendKept DEF Slots
  <2>6. RunnerInv(h)'
    <3>1. pc'[h] = "commit" /\ hand'[h] = k
      BY <1>2 DEF TypeOK, RunnerType
    <3>2. PositionInv(h)' /\ ReconcilerInv(h)' /\ ProgressInv(h)' /\ RollbackInv(h)'
      BY <1>1, <1>2, <3>1 DEF RunnerInv, PositionInv, ReconcilerInv, ProgressInv, RollbackInv,
         Reconciling, Engaged, Started
    <3>3. frame'[Slot(h)'] = k /\ owner'[Slot(h)'] = h
      BY <1>1, <1>2, <2>1 DEF Slot, AppendFrame, TypeOK, StoreType, Slots
    <3>4. ASSUME NEW s \in 1..committed PROVE frame'[<<attempt, s>>] = frame[<<attempt, s>>]
      <4>1. <<attempt, s>> \in Slots /\ frame[<<attempt, s>>] # None
        BY CommittedSlots DEF CommittedPrefix
      <4> QED BY <4>1, <2>1 DEF AppendFrame, TypeOK, StoreType
    <3>5. HoldsLease(h)' <=> HoldsLease(h)
      BY DEF HoldsLease
    <3>6. HolderInv(h)'
      BY <1>2, <3>1, <3>3, <3>4, <3>5 DEF RunnerInv, HolderInv, Started
    <3> QED BY <3>2, <3>6 DEF RunnerInv
  <2>7. ASSUME NEW b \in Actors, NEW g \in Handlers PROVE FenceInv(b, g)'
    <3>1. /\ pc'[b] \in Reconciling => pc[b] \in Reconciling
          /\ pc'[g] \in Started => pc[g] \in Started
      BY <1>2 DEF TypeOK, RunnerType, Actors, Reconciling, Started
    <3> QED BY <3>1, FenceKept DEF HoldsLease
  <2> QED BY <2>2, <2>3, <2>5, <2>6, <2>7
<1>3. CASE /\ werr' = [werr EXCEPT ![h] = "write"]
           /\ business' = business \/ business' = business \cup {h}
           /\ faults' = faults \/ Fault
           /\ UNCHANGED <<redis, hand, pc>>
  <2>1. TypeOK'
    BY <1>3 DEF TypeOK, RowType, StoreType, RunnerType, SetsType
  <2>2. ASSUME NEW g \in Actors, g # h PROVE Same(g) /\ NotClaimed(g)
    BY <1>3, <2>2 DEF Same, NotClaimed, HoldsLease, TypeOK, RunnerType
  <2>3. CommittedPrefix' /\ CompletedIsTerminated' /\ StoreInv'
    BY <1>3, StoreKept DEF StoreInv
  <2>4. ASSUME NEW g \in Actors, g # h PROVE RunnerInv(g)'
    BY <1>3, <2>2, <2>4, RowKept
  <2>5. RunnerInv(h)'
    <3>1. werr'[h] = "write"
      BY <1>3 DEF TypeOK, RunnerType
    <3>2. PositionInv(h)' /\ ReconcilerInv(h)' /\ ProgressInv(h)' /\ RollbackInv(h)'
      BY <1>1, <1>3, <3>1 DEF RunnerInv, PositionInv, ReconcilerInv, ProgressInv, RollbackInv,
         Reconciling, Engaged, Started
    <3>3. HolderInv(h)'
      BY <1>3, <3>1 DEF RunnerInv, HolderInv, HoldsLease, Started, None
    <3> QED BY <3>2, <3>3 DEF RunnerInv
  <2>6. ASSUME NEW b \in Actors, NEW g \in Handlers PROVE FenceInv(b, g)'
    BY <1>3, FenceKept DEF HoldsLease
  <2> QED BY <2>1, <2>3, <2>4, <2>5, <2>6
<1> QED BY <1>2, <1>3 DEF Append

LEMMA WriteFrameStep ==
    ASSUME TypeOK, ExecutionInv, NEW h \in Handlers, NEW k \in Upstream, WriteFrame(h, k)
    PROVE  TypeOK' /\ ExecutionInv'
<1>1. k \in FrameKinds
  BY UpstreamAssumption DEF FrameKinds, Terminal
<1> QED BY <1>1, AppendStep DEF WriteFrame

LEMMA WriteErrorStep ==
    ASSUME TypeOK, ExecutionInv, NEW h \in Handlers, WriteError(h)
    PROVE  TypeOK' /\ ExecutionInv'
<1>1. "error" \in FrameKinds /\ "error" \in Terminal
  BY DEF FrameKinds, Terminal
<1> QED BY <1>1, AppendStep DEF WriteError

\* The committed frame is the writer's own and follows frames that are not terminal.
LEMMA CommitStore ==
    ASSUME TypeOK, ExecutionInv, NEW h \in Handlers, pc[h] = "commit", MayCommit(h),
           CommitSequence(h), UNCHANGED redis
    PROVE  /\ CommittedPrefix' /\ CompletedIsTerminated' /\ StoreInv'
           /\ committed' = committed + 1 /\ committed' \in 1..MaxFrames /\ attempt' = attempt
           /\ frame[<<attempt, committed + 1>>] = hand[h]
           /\ \A s \in 1..committed : frame[<<attempt, s>>] \notin Terminal
<1> USE BoundsAssumption DEF redis, MayCommit, CommitSequence
<1> h \in Actors
  BY DEF Actors
<1>1. RunnerInv(h)
  BY DEF ExecutionInv
<1>2. /\ committed' = committed + 1 /\ attempt' = attempt /\ committed = seq[h]
      /\ frame[<<attempt, committed + 1>>] = hand[h]
      /\ \A s \in 1..committed : frame[<<attempt, s>>] \notin Terminal
      /\ hand[h] \in FrameKinds /\ seq[h] < MaxFrames /\ attempt > 0
  BY <1>1 DEF RunnerInv, HolderInv, ProgressInv, PositionInv, Engaged, Started, Slot, None
<1>3. committed' \in 1..MaxFrames
  BY <1>2 DEF TypeOK, RowType
<1>4. CommittedPrefix'
  <2>1. ASSUME NEW s \in 1..(committed + 1)
        PROVE  /\ frame[<<attempt, s>>] # None
               /\ s < committed + 1 => frame[<<attempt, s>>] \notin Terminal
    <3>1. CASE s \in 1..committed
      BY <3>1, <1>2 DEF ExecutionInv, CommittedPrefix
    <3>2. CASE s = committed + 1
      BY <3>2, <1>2 DEF FrameKinds, Terminal, None, TypeOK, RowType
    <3> QED BY <3>1, <3>2 DEF TypeOK, RowType
  <2>2. ASSUME NEW s \in Seqs, s > committed + 1 + 1 PROVE frame[<<attempt, s>>] = None
    BY <1>2, <2>2 DEF ExecutionInv, CommittedPrefix, TypeOK, RowType, Seqs
  <2> QED BY <1>2, <2>1, <2>2 DEF CommittedPrefix
<1>5. CompletedIsTerminated'
  BY DEF CompletedIsTerminated, HoldsLease, Active
<1>6. StoreInv'
  BY <1>2 DEF ExecutionInv, StoreInv
<1> QED BY <1>2, <1>3, <1>4, <1>5, <1>6

LEMMA CommitFrameStep ==
    ASSUME TypeOK, ExecutionInv, NEW h \in Handlers, CommitFrame(h)
    PROVE  TypeOK' /\ ExecutionInv'
<1> USE BoundsAssumption, NoneAssumption DEF ExecutionInv, row, redis, Goto, Fault
<1> h \in Actors
  BY DEF Actors
<1>1. /\ pc[h] = "commit" /\ RunnerInv(h)
      /\ UNCHANGED <<redis, att, hand, leaving, ctxDone, tries, stale>>
  BY DEF CommitFrame
<1>2. /\ att[h] \in Attempts /\ seq[h] \in 0..MaxFrames /\ seq[h] + 1 \in Seqs
      /\ term[h] = None /\ werr[h] = None
      /\ hand[h] \in FrameKinds /\ (hand[h] \notin Terminal => seq[h] + 1 < MaxFrames)
      /\ att[h] > attempt => seq[h] = 0
      /\ att[h] = attempt => seq[h] <= committed
      /\ HoldsLease(h) /\ attempt = att[h] => committed = seq[h]
  BY <1>1 DEF RunnerInv, HolderInv, ProgressInv, PositionInv, Engaged, Started, None, TypeOK,
     RunnerType, Attempts, Seqs
<1>3. ASSUME NEW g \in Actors, g # h PROVE Same(g)
  BY <1>1, <1>3 DEF CommitFrame, Accepted, Same, TypeOK, RunnerType
<1>4. /\ pc'[h] \in {"relay", "rollback"}
      /\ \A g \in Actors : g # h => pc'[g] = pc[g]
  BY <1>1 DEF CommitFrame, Accepted, TypeOK, RunnerType
<1>5. ASSUME UNCHANGED <<status, attempt, lockedBy, lease>>,
             NEW b \in Actors, NEW g \in Handlers
      PROVE  FenceInv(b, g)'
  <2>1. /\ pc'[b] \in Reconciling => pc[b] \in Reconciling
        /\ pc'[g] \in Started => pc[g] \in Started
    BY <1>1, <1>4 DEF Actors, Reconciling, Started
  <2> QED BY <1>1, <1>5, <2>1, FenceKept DEF HoldsLease
\* The row is left alone.
<1>6. ASSUME UNCHANGED <<row, outputs>>, RunnerType', SetsType', RunnerInv(h)'
      PROVE  TypeOK' /\ ExecutionInv'
  <2>1. TypeOK'
    BY <1>1, <1>6 DEF TypeOK, RowType, StoreType
  <2>2. CommittedPrefix' /\ CompletedIsTerminated' /\ StoreInv'
    BY <1>1, <1>6, StoreKept DEF StoreInv
  <2>3. ASSUME NEW g \in Actors, g # h PROVE RunnerInv(g)'
    BY <1>1, <1>3, <1>6, <2>3, RowKept DEF NotClaimed, HoldsLease
  <2> QED BY <1>5, <1>6, <2>1, <2>2, <2>3
\* The sequence is committed.
<1>7. ASSUME MayCommit(h), CommitSequence(h), RunnerType', business' \subseteq Handlers,
             faults' \in 0..MaxFaults, RunnerInv(h)'
      PROVE  TypeOK' /\ ExecutionInv'
  <2>1. CommittedPrefix' /\ CompletedIsTerminated' /\ StoreInv' /\ committed' \in 1..MaxFrames
    BY <1>1, <1>7, CommitStore
  <2>2. TypeOK'
    BY <1>1, <1>2, <1>7, <2>1 DEF TypeOK, RowType, StoreType, SetsType, CommitSequence
  <2>3. ASSUME NEW g \in Actors, g # h PROVE RunnerInv(g)'
    BY <1>1, <1>3, <1>7, <2>3, CommitKept
  <2>4. UNCHANGED <<status, attempt, lockedBy, lease>>
    BY <1>7 DEF CommitSequence
  <2> QED BY <1>5, <1>7, <2>1, <2>2, <2>3, <2>4
<1>8. ASSUME Accepted(h)
      PROVE  /\ RunnerType' /\ business' \subseteq Handlers
             /\ pc'[h] = "relay" /\ seq'[h] = seq[h] + 1 /\ werr'[h] = None
             /\ term'[h] = IF hand[h] \in Terminal THEN hand[h] ELSE None
  <2>1. RunnerType'
    BY <1>1, <1>2, <1>8 DEF Accepted, TypeOK, RunnerType, PCs, Seqs
  <2> QED BY <1>2, <1>8, <2>1 DEF Accepted, TypeOK, RunnerType, SetsType
<1>9. CASE MayCommit(h) /\ CommitSequence(h) /\ Accepted(h) /\ UNCHANGED faults
  <2>1. /\ committed' = committed + 1 /\ attempt' = attempt /\ committed = seq[h]
        /\ frame[<<attempt, committed + 1>>] = hand[h] /\ attempt = att[h]
        /\ \A s \in 1..committed : frame[<<attempt, s>>] \notin Terminal
    BY <1>1, <1>9, CommitStore DEF MayCommit
  <2>2. /\ pc'[h] = "relay" /\ seq'[h] = committed + 1 /\ werr'[h] = None
        /\ term'[h] = IF hand[h] \in Terminal THEN hand[h] ELSE None
    BY <1>8, <1>9, <2>1
  <2>3. PositionInv(h)' /\ ReconcilerInv(h)' /\ RollbackInv(h)'
    BY <1>1, <1>2, <2>1, <2>2 DEF PositionInv, ReconcilerInv, RollbackInv, Reconciling, Attempts,
       TypeOK, RowType
  <2>4. ProgressInv(h)'
    BY <1>2, <2>1, <2>2 DEF ProgressInv, Terminal, None
  <2>5. HolderInv(h)'
    <3>1. \A s \in 1..(committed + 1) : s \in 1..committed \/ s = committed + 1
      BY DEF TypeOK, RowType
    <3>2. committed + 1 > 0
      BY DEF TypeOK, RowType
    <3> QED BY <1>1, <2>1, <2>2, <3>1, <3>2 DEF HolderInv, Started, Terminal, None
  <2> QED BY <1>7, <1>8, <1>9, <2>3, <2>4, <2>5 DEF RunnerInv, TypeOK, SetsType
<1>10. CASE /\ attempt = att[h] /\ committed > seq[h] /\ Accepted(h)
            /\ UNCHANGED <<row, outputs, faults>>
  <2>1. /\ pc'[h] = "relay" /\ seq'[h] = seq[h] + 1 /\ werr'[h] = None
        /\ term'[h] = IF hand[h] \in Terminal THEN hand[h] ELSE None
    BY <1>8, <1>10
  <2>2. ~HoldsLease(h)'
    BY <1>2, <1>10 DEF HoldsLease, TypeOK, RowType
  <2>3. PositionInv(h)' /\ ReconcilerInv(h)' /\ RollbackInv(h)'
    BY <1>1, <1>2, <1>10, <2>1 DEF PositionInv, ReconcilerInv, RollbackInv, Reconciling, Attempts,
       TypeOK, RowType
  <2>4. ProgressInv(h)'
    BY <1>2, <2>1 DEF ProgressInv, Terminal, None
  <2>5. SetsType'
    BY <1>1, <1>8, <1>10 DEF TypeOK, SetsType
  <2> QED BY <1>6, <1>8, <1>10, <2>2, <2>3, <2>4, <2>5 DEF RunnerInv, HolderInv
<1>11. CASE /\ ~MayCommit(h) /\ ~(attempt = att[h] /\ committed > seq[h])
            /\ pc' = [pc EXCEPT ![h] = "rollback"]
            /\ UNCHANGED <<seq, term, business, werr, row, outputs, faults>>
  <2>1. pc'[h] = "rollback"
    BY <1>11 DEF TypeOK, RunnerType
  <2>2. RunnerType' /\ SetsType'
    BY <1>1, <1>11 DEF TypeOK, RunnerType, SetsType, PCs
  <2>3. HoldsLease(h)' => attempt # att[h]
    BY <1>2, <1>11 DEF MayCommit, HoldsLease
  <2>4. PositionInv(h)' /\ ReconcilerInv(h)' /\ RollbackInv(h)'
    BY <1>1, <1>2, <1>11, <2>1 DEF PositionInv, ReconcilerInv, RollbackInv, Reconciling, Attempts
  <2>5. ProgressInv(h)'
    BY <1>1, <1>11, <2>1 DEF RunnerInv, ProgressInv
  <2>6. HolderInv(h)'
    BY <1>1, <1>11, <2>1, <2>3 DEF RunnerInv, HolderInv, HoldsLease, Started
  <2> QED BY <1>6, <1>11, <2>2, <2>4, <2>5, <2>6 DEF RunnerInv
<1>12. CASE /\ werr' = [werr EXCEPT ![h] = "uncertain"]
            /\ business' = business \cup {h} /\ pc' = [pc EXCEPT ![h] = "relay"]
            /\ faults' = faults \/ Fault
            /\ \/ UNCHANGED <<row, outputs>>
               \/ MayCommit(h) /\ CommitSequence(h)
            /\ UNCHANGED <<seq, term>>
  <2>1. pc'[h] = "relay" /\ werr'[h] = "uncertain" /\ term'[h] = None
    BY <1>2, <1>12 DEF TypeOK, RunnerType
  <2>2. RunnerType' /\ business' \subseteq Handlers /\ faults' \in 0..MaxFaults
    BY <1>1, <1>12 DEF TypeOK, RunnerType, SetsType, PCs
  <2>3. ProgressInv(h)'
    BY <1>1, <1>2, <1>12, <2>1 DEF ProgressInv, Seqs
  <2>4. attempt' = attempt /\ committed' \in Nat /\ committed' >= committed
    BY <1>2, <1>12 DEF CommitSequence, MayCommit, TypeOK, RowType
  <2>5. PositionInv(h)' /\ ReconcilerInv(h)' /\ RollbackInv(h)'
    BY <1>1, <1>2, <1>12, <2>1, <2>4 DEF PositionInv, ReconcilerInv, RollbackInv, Reconciling,
       Attempts, TypeOK, RowType
  <2>6. HolderInv(h)'
    <3>1. HoldsLease(h)' => HoldsLease(h)
      BY <1>12 DEF HoldsLease, CommitSequence
    <3> QED BY <1>1, <1>12, <2>1, <2>4, <3>1 DEF RunnerInv, HolderInv, Started
  <2>7. RunnerInv(h)'
    BY <2>3, <2>5, <2>6 DEF RunnerInv
  <2>8. CASE UNCHANGED <<row, outputs>>
    <3>1. SetsType'
      BY <1>1, <2>2, <2>8 DEF TypeOK, SetsType
    <3> QED BY <1>6, <2>2, <2>7, <2>8, <3>1
  <2>9. CASE MayCommit(h) /\ CommitSequence(h)
    BY <1>7, <2>2, <2>7, <2>9
  <2> QED BY <1>12, <2>8, <2>9
<1> QED
  BY <1>9, <1>10, <1>11, <1>12 DEF CommitFrame

LEMMA RollbackRejectedStep ==
    ASSUME TypeOK, ExecutionInv, NEW h \in Handlers, RollbackRejected(h)
    PROVE  TypeOK' /\ ExecutionInv'
<1> USE BoundsAssumption, NoneAssumption DEF ExecutionInv, row, redis, Goto, Fault
<1> h \in Actors
  BY DEF Actors
<1>1. /\ pc[h] = "rollback" /\ RunnerInv(h) /\ pc' = [pc EXCEPT ![h] = "relay"]
      /\ \/ werr' = [werr EXCEPT ![h] = "attempt"]
         \/ werr' = [werr EXCEPT ![h] = "write"]
      /\ faults' = faults \/ Fault
      /\ UNCHANGED <<row, att, seq, hand, term, business, leaving, ctxDone, tries, stale, outputs>>
  BY DEF RollbackRejected
<1>2. /\ att[h] \in Attempts /\ seq[h] \in Nat /\ seq[h] + 1 \in Seqs
      /\ term[h] = None /\ werr[h] = None
      /\ HoldsLease(h) => attempt # att[h] /\ h \in leaving
      /\ committed \in Nat
  BY <1>1 DEF RunnerInv, HolderInv, ProgressInv, PositionInv, Engaged, Started, None, TypeOK,
     RowType, RunnerType, Attempts, Seqs
<1>3. ASSUME NEW g \in Actors, g # h PROVE Same(g)
  BY <1>1, <1>3 DEF Same, TypeOK, RunnerType
<1>4. RunnerType' /\ SetsType' /\ RowType'
  BY <1>1 DEF TypeOK, RowType, RunnerType, SetsType, PCs
<1>5. RunnerInv(h)'
  <2>1. pc'[h] = "relay" /\ werr'[h] # "uncertain"
    BY <1>1 DEF TypeOK, RunnerType
  <2>2. PositionInv(h)' /\ ReconcilerInv(h)' /\ ProgressInv(h)' /\ RollbackInv(h)'
    BY <1>1, <1>2, <2>1 DEF RunnerInv, PositionInv, ReconcilerInv, ProgressInv, RollbackInv,
       Reconciling, Engaged, Started
  <2>3. HoldsLease(h)' => HoldsLease(h)
    BY <1>1 DEF HoldsLease
  <2>4. HolderInv(h)'
    BY <1>1, <1>2, <2>1, <2>3 DEF HolderInv, Started
  <2> QED BY <2>2, <2>4 DEF RunnerInv
<1>6. ASSUME NEW b \in Actors, NEW g \in Handlers PROVE FenceInv(b, g)'
  <2>1. /\ pc'[b] \in Reconciling => pc[b] \in Reconciling
        /\ pc'[g] \in Started => pc[g] \in Started
    BY <1>1 DEF Actors, Reconciling, Started, TypeOK, RunnerType
  <2> QED BY <1>1, <2>1, FenceKept DEF HoldsLease
<1>7. CASE MayRollback(Slot(h), h) /\ RollbackFrame(Slot(h))
  <2>1. /\ Slot(h) = <<att[h], seq[h] + 1>> /\ Slot(h) \notin sealed /\ owner[Slot(h)] = h
        /\ RollbackFrame(<<att[h], seq[h] + 1>>)
    BY <1>7 DEF Slot, MayRollback
  <2>2. att[h] # attempt \/ seq[h] + 1 > committed
    BY <1>1, <1>2, <2>1 DEF RunnerInv, RollbackInv
  <2>3. StoreType' /\ CommittedPrefix' /\ CompletedIsTerminated' /\ StoreInv'
    BY <1>1, <1>2, <2>1, <2>2, RollbackStore
  <2>4. ASSUME NEW g \in Actors, g # h PROVE RunnerInv(g)'
    <3>1. g \in Handlers /\ HoldsLease(g) /\ pc[g] = "commit" /\ attempt = att[g]
            => owner[Slot(g)] = g
      BY DEF RunnerInv, HolderInv
    <3> QED BY <1>1, <1>2, <1>3, <2>1, <2>2, <2>4, <3>1, RollbackKept
  <2> QED BY <1>4, <1>5, <1>6, <2>3, <2>4 DEF TypeOK
<1>8. CASE UNCHANGED redis
  <2>1. CommittedPrefix' /\ CompletedIsTerminated' /\ StoreInv' /\ StoreType'
    BY <1>1, <1>8, StoreKept DEF StoreInv, TypeOK, StoreType
  <2>2. ASSUME NEW g \in Actors, g # h PROVE RunnerInv(g)'
    BY <1>1, <1>3, <1>8, <2>2, RowKept DEF NotClaimed, HoldsLease
  <2> QED BY <1>4, <1>5, <1>6, <2>1, <2>2 DEF TypeOK
<1> QED BY <1>7, <1>8 DEF RollbackRejected

LEMMA RetryStep ==
    ASSUME TypeOK, ExecutionInv, NEW h \in Handlers, Retry(h)
    PROVE  TypeOK' /\ ExecutionInv'
<1> h \in Actors
  BY DEF Actors
<1> USE BoundsAssumption, NoneAssumption DEF ExecutionInv, Retry, MayRetry, Goto,
    row, redis, aux
<1>1. TypeOK'
  <2>1. RowType'
    BY DEF TypeOK, RowType, StoreType, RunnerType, SetsType, Statuses, Actors,
        Slots, FrameKinds, PCs, Terminal, MaxTries, Attempts, Active, Final, Seqs
  <2>2. StoreType'
    BY DEF TypeOK, RowType, StoreType, RunnerType, SetsType, Statuses, Actors,
        Slots, FrameKinds, PCs, Terminal, MaxTries, Attempts, Active, Final, Seqs
  <2>3. RunnerType'
    BY DEF TypeOK, RowType, StoreType, RunnerType, SetsType, Statuses, Actors,
        Slots, FrameKinds, PCs, Terminal, MaxTries, Attempts, Active, Final, Seqs
  <2>4. SetsType'
    BY DEF TypeOK, RowType, StoreType, RunnerType, SetsType, Statuses, Actors,
        Slots, FrameKinds, PCs, Terminal, MaxTries, Attempts, Active, Final, Seqs
  <2> QED BY <2>1, <2>2, <2>3, <2>4 DEF TypeOK
<1>2. ASSUME NEW g \in Actors, g # h PROVE Same(g) /\ NotClaimed(g)
  BY <1>2 DEF Same, NotClaimed, HoldsLease, StoreInv, TypeOK, RowType, StoreType,
      RunnerType, Active
<1>3. CommittedPrefix' /\ CompletedIsTerminated' /\ StoreInv'
  BY StoreKept DEF StoreInv, TypeOK, RowType, StoreType, RunnerType, Active, Final,
      HoldsLease
<1>4. RunnerInv(h)'
  <2>1. PositionInv(h)'
    BY DEF RunnerInv, TypeOK, RowType, StoreType, RunnerType, PositionInv, Engaged,
        Started, Reconciling, Actors
  <2>2. ReconcilerInv(h)'
    BY DEF RunnerInv, TypeOK, RowType, StoreType, RunnerType, ReconcilerInv,
        PositionInv, Reconciling, Active, Terminal, Final, TerminalSeq, Engaged,
        Started, Actors
  <2>3. ProgressInv(h)'
    BY DEF RunnerInv, TypeOK, RowType, StoreType, RunnerType, ProgressInv,
        PositionInv, FrameKinds, Terminal, Engaged, Started, Reconciling, Actors
  <2>4. HolderInv(h)'
    <3>1. pc'[h] = "restart" /\ att'[h] = att[h] + 1
      BY DEF TypeOK, RunnerType
    <3>2. HoldsLease(h)' => attempt = att[h]
      BY DEF RunnerInv, HolderInv, HoldsLease, Started
    <3> QED BY <3>1, <3>2 DEF HolderInv, Started, TypeOK, RowType, RunnerType
  <2>5. RollbackInv(h)'
    BY DEF RunnerInv, TypeOK, RowType, StoreType, RunnerType, RollbackInv,
        PositionInv, Slot, Engaged, Started, Reconciling, Actors
  <2> QED BY <2>1, <2>2, <2>3, <2>4, <2>5 DEF RunnerInv
<1>5. ASSUME NEW g \in Actors, g # h PROVE RunnerInv(g)'
  BY <1>2, <1>5, RowKept
<1>6. ASSUME NEW b \in Actors, NEW g \in Handlers PROVE FenceInv(b, g)'
  BY FenceKept DEF Actors, TypeOK, RowType, RunnerType, Started, Reconciling,
      HoldsLease, StoreInv
<1> QED BY <1>1, <1>3, <1>4, <1>5, <1>6

LEMMA FinishWorkerStep ==
    ASSUME TypeOK, ExecutionInv, NEW h \in Handlers, FinishWorker(h)
    PROVE  TypeOK' /\ ExecutionInv'
<1> h \in Actors
  BY DEF Actors
<1> USE BoundsAssumption, NoneAssumption DEF ExecutionInv, FinishWorker, row,
    FinishRow, Fault, Goto, redis, writer
<1>1. TypeOK'
  <2>1. RowType'
    BY DEF TypeOK, HoldsLease, Active, RowType, StoreType, RunnerType, SetsType,
        Statuses, Actors, Slots, FrameKinds, PCs, Terminal, MaxTries, Attempts,
        Final, Seqs
  <2>2. StoreType'
    BY DEF TypeOK, HoldsLease, Active, RowType, StoreType, RunnerType, SetsType,
        Statuses, Actors, Slots, FrameKinds, PCs, Terminal, MaxTries, Attempts,
        Final, Seqs
  <2>3. RunnerType'
    BY DEF TypeOK, HoldsLease, Active, RowType, StoreType, RunnerType, SetsType,
        Statuses, Actors, Slots, FrameKinds, PCs, Terminal, MaxTries, Attempts,
        Final, Seqs
  <2>4. SetsType'
    BY DEF TypeOK, HoldsLease, Active, RowType, StoreType, RunnerType, SetsType,
        Statuses, Actors, Slots, FrameKinds, PCs, Terminal, MaxTries, Attempts,
        Final, Seqs
  <2> QED BY <2>1, <2>2, <2>3, <2>4 DEF TypeOK
<1>2. ASSUME NEW g \in Actors, g # h PROVE Same(g) /\ NotClaimed(g)
  BY <1>2 DEF Same, NotClaimed, HoldsLease, StoreInv, TypeOK, RowType, StoreType,
      RunnerType, Active
<1>3. CommittedPrefix' /\ CompletedIsTerminated' /\ StoreInv'
  <2>1. CASE status' # "completed"
    BY <2>1, StoreKept DEF StoreInv, TypeOK, RowType, Active, HoldsLease
  <2>2. CASE UNCHANGED row
    BY <2>2, StoreKept DEF StoreInv
  <2>3. CASE HoldsLease(h) /\ attempt = att[h] /\ term[h] = "done" /\ status' = "completed"
             /\ lease' = FALSE /\ UNCHANGED <<attempt, committed>>
    <3>1. term[h] # None
      BY <2>3 DEF None
    <3>2. committed > 0 /\ frame[<<attempt, committed>>] = term[h]
      BY <2>3, <3>1 DEF RunnerInv, HolderInv
    <3>3. CompletedIsTerminated'
      BY <2>3, <3>2 DEF CompletedIsTerminated, Terminal
    <3> QED BY <2>3, <3>3 DEF CommittedPrefix, StoreInv
  <2> QED BY <2>1, <2>2, <2>3
<1>4. RunnerInv(h)'
  BY DEF RunnerInv, TypeOK, HoldsLease, Active, PositionInv, ReconcilerInv,
      ProgressInv, HolderInv, RollbackInv, RowType, StoreType, RunnerType, SetsType,
      Engaged, Reconciling, Terminal, Final, TerminalSeq, FrameKinds, Started, Slot,
      Statuses, Actors, Slots, PCs, MaxTries, Attempts, Seqs
<1>5. ASSUME NEW g \in Actors, g # h PROVE RunnerInv(g)'
  BY <1>2, <1>5, RowKept
<1>6. ASSUME NEW b \in Actors, NEW g \in Handlers PROVE FenceInv(b, g)'
  BY FenceKept DEF Actors, TypeOK, RowType, RunnerType, Started, Reconciling,
      HoldsLease, StoreInv
<1> QED BY <1>1, <1>3, <1>4, <1>5, <1>6

LEMMA HeartbeatStep ==
    ASSUME TypeOK, ExecutionInv, NEW h \in Handlers, Heartbeat(h)
    PROVE  TypeOK' /\ ExecutionInv'
<1> h \in Actors
  BY DEF Actors
<1> USE BoundsAssumption, NoneAssumption DEF ExecutionInv, Heartbeat, Working,
    Fault, row, redis
<1>1. TypeOK'
  <2>1. RowType'
    BY DEF TypeOK, HoldsLease, Active, RowType, StoreType, RunnerType, SetsType,
        Statuses, Actors, Slots, FrameKinds, PCs, Terminal, MaxTries, Attempts,
        Final, Seqs
  <2>2. StoreType'
    BY DEF TypeOK, HoldsLease, Active, RowType, StoreType, RunnerType, SetsType,
        Statuses, Actors, Slots, FrameKinds, PCs, Terminal, MaxTries, Attempts,
        Final, Seqs
  <2>3. RunnerType'
    BY DEF TypeOK, HoldsLease, Active, RowType, StoreType, RunnerType, SetsType,
        Statuses, Actors, Slots, FrameKinds, PCs, Terminal, MaxTries, Attempts,
        Final, Seqs
  <2>4. SetsType'
    BY DEF TypeOK, HoldsLease, Active, RowType, StoreType, RunnerType, SetsType,
        Statuses, Actors, Slots, FrameKinds, PCs, Terminal, MaxTries, Attempts,
        Final, Seqs
  <2> QED BY <2>1, <2>2, <2>3, <2>4 DEF TypeOK
<1>2. ASSUME NEW g \in Actors, g # h PROVE Same(g) /\ NotClaimed(g)
  BY <1>2 DEF Same, NotClaimed, HoldsLease, StoreInv, TypeOK, RowType, StoreType,
      RunnerType, Active
<1>3. CommittedPrefix' /\ CompletedIsTerminated' /\ StoreInv'
  BY StoreKept DEF StoreInv, TypeOK, RowType, StoreType, RunnerType, Active, Final,
      HoldsLease
<1>4. RunnerInv(h)'
  BY DEF RunnerInv, TypeOK, HoldsLease, Active, PositionInv, ReconcilerInv,
      ProgressInv, HolderInv, RollbackInv, RowType, StoreType, RunnerType, SetsType,
      Engaged, Reconciling, Terminal, Final, TerminalSeq, FrameKinds, Started, Slot,
      Statuses, Actors, Slots, PCs, MaxTries, Attempts, Seqs
<1>5. ASSUME NEW g \in Actors, g # h PROVE RunnerInv(g)'
  BY <1>2, <1>5, RowKept
<1>6. ASSUME NEW b \in Actors, NEW g \in Handlers PROVE FenceInv(b, g)'
  BY FenceKept DEF Actors, TypeOK, RowType, RunnerType, Started, Reconciling,
      HoldsLease, StoreInv
<1> QED BY <1>1, <1>3, <1>4, <1>5, <1>6

LEMMA FindRecoverableStep ==
    ASSUME TypeOK, ExecutionInv, NEW r \in Reconcilers, FindRecoverable(r)
    PROVE  TypeOK' /\ ExecutionInv'
<1> r \in Actors
  BY DEF Actors
<1> USE BoundsAssumption, NoneAssumption DEF ExecutionInv, FindRecoverable,
    Recoverable, ReadClock, Goto, row, redis, aux
<1>1. TypeOK'
  <2>1. RowType'
    BY DEF TypeOK, Active, RowType, StoreType, RunnerType, SetsType, Statuses,
        Actors, Slots, FrameKinds, PCs, Terminal, MaxTries, Attempts, Final, Seqs
  <2>2. StoreType'
    BY DEF TypeOK, Active, RowType, StoreType, RunnerType, SetsType, Statuses,
        Actors, Slots, FrameKinds, PCs, Terminal, MaxTries, Attempts, Final, Seqs
  <2>3. RunnerType'
    BY DEF TypeOK, Active, RowType, StoreType, RunnerType, SetsType, Statuses,
        Actors, Slots, FrameKinds, PCs, Terminal, MaxTries, Attempts, Final, Seqs
  <2>4. SetsType'
    BY DEF TypeOK, Active, RowType, StoreType, RunnerType, SetsType, Statuses,
        Actors, Slots, FrameKinds, PCs, Terminal, MaxTries, Attempts, Final, Seqs
  <2> QED BY <2>1, <2>2, <2>3, <2>4 DEF TypeOK
<1>2. ASSUME NEW g \in Actors, g # r PROVE Same(g) /\ NotClaimed(g)
  BY <1>2 DEF Same, NotClaimed, HoldsLease, StoreInv, TypeOK, RowType, StoreType,
      RunnerType, Active
<1>3. CommittedPrefix' /\ CompletedIsTerminated' /\ StoreInv'
  BY StoreKept DEF StoreInv, TypeOK, RowType, StoreType, RunnerType, Active, Final,
      HoldsLease
<1>4. RunnerInv(r)'
  <2>1. pc'[r] = "r_claim" /\ att'[r] > 0 /\ r \notin Handlers
    BY ActorsAssumption DEF TypeOK, RunnerType
  <2> QED BY <2>1 DEF RunnerInv, PositionInv, ReconcilerInv, Engaged, Started, Reconciling
<1>5. ASSUME NEW g \in Actors, g # r PROVE RunnerInv(g)'
  BY <1>2, <1>5, RowKept
<1>6. ASSUME NEW b \in Actors, NEW g \in Handlers PROVE FenceInv(b, g)'
  BY FenceKept DEF Actors, TypeOK, RowType, RunnerType, Started, Reconciling,
      HoldsLease, StoreInv
<1> QED BY <1>1, <1>3, <1>4, <1>5, <1>6

LEMMA ClaimExpiredStep ==
    ASSUME TypeOK, ExecutionInv, NEW a \in Actors, ClaimExpired(a)
    PROVE  TypeOK' /\ ExecutionInv'
<1> USE BoundsAssumption, NoneAssumption DEF ExecutionInv, ClaimExpired,
    MayReconcile, Goto, End, row, redis, aux
<1>1. TypeOK'
  <2>1. RowType'
    BY DEF TypeOK, Active, RowType, StoreType, RunnerType, SetsType, Statuses,
        Actors, Slots, FrameKinds, PCs, Terminal, MaxTries, Attempts, Final, Seqs
  <2>2. StoreType'
    BY DEF TypeOK, Active, RowType, StoreType, RunnerType, SetsType, Statuses,
        Actors, Slots, FrameKinds, PCs, Terminal, MaxTries, Attempts, Final, Seqs
  <2>3. RunnerType'
    BY DEF TypeOK, RowType, RunnerType, PCs, MaxTries
  <2>4. SetsType'
    BY DEF TypeOK, Active, RowType, StoreType, RunnerType, SetsType, Statuses,
        Actors, Slots, FrameKinds, PCs, Terminal, MaxTries, Attempts, Final, Seqs
  <2> QED BY <2>1, <2>2, <2>3, <2>4 DEF TypeOK
<1>2. ASSUME NEW g \in Actors, g # a PROVE Same(g) /\ NotClaimed(g)
  BY <1>2 DEF Same, NotClaimed, HoldsLease, StoreInv, TypeOK, RowType, StoreType,
      RunnerType, Active
<1>3. CommittedPrefix' /\ CompletedIsTerminated' /\ StoreInv'
  BY StoreKept DEF StoreInv, TypeOK, RowType, StoreType, RunnerType, Active, Final,
      HoldsLease
<1>4. RunnerInv(a)'
  <2>1. CASE pc'[a] = End(a)
    BY <2>1 DEF RunnerInv, PositionInv, ReconcilerInv, ProgressInv, HolderInv, RollbackInv,
       Engaged, Started, Reconciling
  <2>2. CASE /\ pc'[a] = "r_tail" /\ seq'[a] = committed /\ att[a] = attempt /\ attempt > 0
             /\ UNCHANGED <<attempt, committed, att>>
    BY <2>2 DEF RunnerInv, PositionInv, ReconcilerInv, ProgressInv, HolderInv, RollbackInv,
       Engaged, Started, Reconciling, TypeOK, RowType
  <2>3. att[a] > 0
    BY DEF RunnerInv, PositionInv
  <2> QED BY <2>1, <2>2, <2>3 DEF TypeOK, RunnerType
<1>5. ASSUME NEW g \in Actors, g # a PROVE RunnerInv(g)'
  BY <1>2, <1>5, RowKept
<1>6. ASSUME NEW b \in Actors, NEW g \in Handlers PROVE FenceInv(b, g)'
  <2>1. CASE MayReconcile(a) /\ g # a
    <3>1. ~HoldsLease(g)'
      BY <2>1 DEF HoldsLease
    <3> QED BY <3>1 DEF FenceInv
  <2>2. CASE MayReconcile(a) /\ g = a
    BY <2>2 DEF FenceInv, TypeOK, RunnerType, Started
  <2>3. CASE ~MayReconcile(a)
    BY <2>3, FenceKept DEF Actors, TypeOK, RunnerType, Started, Reconciling, HoldsLease
  <2> QED BY <2>1, <2>2, <2>3
<1> QED BY <1>1, <1>3, <1>4, <1>5, <1>6

LEMMA ReadTailStep ==
    ASSUME TypeOK, ExecutionInv, NEW a \in Actors, ReadTail(a)
    PROVE  TypeOK' /\ ExecutionInv'
<1> USE BoundsAssumption, NoneAssumption DEF ExecutionInv, ReadTail, CommittedTail,
    Goto, FinalOf, GiveUp, Fault, row, redis, End
<1>1. TypeOK'
  <2>1. RowType'
    BY DEF TypeOK, FrameKinds, Terminal, Slot, RowType, StoreType, RunnerType,
        SetsType, Statuses, Actors, Slots, PCs, MaxTries, Attempts, Active, Final,
        Seqs
  <2>2. StoreType'
    BY DEF TypeOK, FrameKinds, Terminal, Slot, RowType, StoreType, RunnerType,
        SetsType, Statuses, Actors, Slots, PCs, MaxTries, Attempts, Active, Final,
        Seqs
  <2>3. RunnerType'
    BY DEF TypeOK, FrameKinds, Terminal, Slot, RowType, StoreType, RunnerType,
        SetsType, Statuses, Actors, Slots, PCs, MaxTries, Attempts, Active, Final,
        Seqs
  <2>4. SetsType'
    BY DEF TypeOK, FrameKinds, Terminal, Slot, RowType, StoreType, RunnerType,
        SetsType, Statuses, Actors, Slots, PCs, MaxTries, Attempts, Active, Final,
        Seqs
  <2> QED BY <2>1, <2>2, <2>3, <2>4 DEF TypeOK
<1>2. ASSUME NEW g \in Actors, g # a PROVE Same(g) /\ NotClaimed(g)
  BY <1>2 DEF Same, NotClaimed, HoldsLease, StoreInv, TypeOK, RowType, StoreType,
      RunnerType, Active
<1>3. CommittedPrefix' /\ CompletedIsTerminated' /\ StoreInv'
  BY StoreKept DEF StoreInv, TypeOK, RowType, StoreType, RunnerType, Active, Final,
      HoldsLease
<1>4. RunnerInv(a)'
  <2>1. PositionInv(a)'
    BY DEF RunnerInv, TypeOK, RowType, StoreType, RunnerType, PositionInv, Engaged,
        Started, Reconciling, Actors
  <2>2. ReconcilerInv(a)'
    <3>1. CASE pc'[a] = End(a)
      BY <3>1 DEF ReconcilerInv, Reconciling
    <3>2. CASE pc'[a] = "r_scan" /\ (seq[a] = 0 \/ CommittedTail(a) \in FrameKinds \ Terminal)
      <4>1. frame[<<att[a], MaxFrames>>] \in Terminal \cup {None}
        BY DEF StoreInv, RunnerInv, PositionInv, Engaged, Reconciling, TypeOK, RunnerType, Attempts
      <4>2. seq[a] < MaxFrames
        BY <3>2, <4>1 DEF TypeOK, RunnerType, FrameKinds, None
      <4>3. pc[a] = "r_tail" /\ UNCHANGED <<row, redis, att, seq>>
        OBVIOUS
      <4>4. seq[a] > 0 => frame[<<att[a], seq[a]>>] \notin Terminal
        BY <3>2 DEF TypeOK, RunnerType
      <4>5. ReconcilerInv(a)
        BY DEF RunnerInv
      <4> HIDE DEF ReadTail
      <4> QED BY <3>2, <4>2, <4>3, <4>4, <4>5 DEF ReconcilerInv, Reconciling
    <3>3. CASE pc'[a] = "r_own" /\ CommittedTail(a) \in Terminal /\ term'[a] = "tail"
               /\ hand'[a] = FinalOf(CommittedTail(a))
      <4>1. seq[a] > 0 /\ hand'[a] \in Final
        BY <3>3 DEF TypeOK, RunnerType, Terminal, Final, None
      <4> QED BY <3>3, <4>1 DEF RunnerInv, ReconcilerInv, Reconciling, TerminalSeq
    <3> QED BY <3>1, <3>2, <3>3 DEF TypeOK, RunnerType
  <2>3. ASSUME a \in Handlers PROVE ProgressInv(a)'
    BY <2>3 DEF RunnerInv, TypeOK, RowType, StoreType, RunnerType, ProgressInv,
        PositionInv, FrameKinds, Terminal, Engaged, Started, Reconciling, Actors
  <2>4. ASSUME a \in Handlers PROVE HolderInv(a)'
    BY <2>4 DEF RunnerInv, TypeOK, RowType, StoreType, RunnerType, HolderInv,
        PositionInv, HoldsLease, Started, Terminal, Slot, Engaged, Active,
        Reconciling, Actors
  <2>5. ASSUME a \in Handlers PROVE RollbackInv(a)'
    BY <2>5 DEF RunnerInv, TypeOK, RowType, StoreType, RunnerType, RollbackInv,
        PositionInv, Slot, Engaged, Started, Reconciling, Actors
  <2> QED BY <2>1, <2>2, <2>3, <2>4, <2>5 DEF RunnerInv
<1>5. ASSUME NEW g \in Actors, g # a PROVE RunnerInv(g)'
  BY <1>2, <1>5, RowKept
<1>6. ASSUME NEW b \in Actors, NEW g \in Handlers PROVE FenceInv(b, g)'
  BY FenceKept DEF Actors, TypeOK, RowType, RunnerType, Started, Reconciling,
      HoldsLease, StoreInv
<1> QED BY <1>1, <1>3, <1>4, <1>5, <1>6

LEMMA ScanFrameStep ==
    ASSUME TypeOK, ExecutionInv, NEW a \in Actors, ScanFrame(a)
    PROVE  TypeOK' /\ ExecutionInv'
<1> USE BoundsAssumption, NoneAssumption DEF ExecutionInv, ScanFrame, Goto,
    MaxTries, Conflict, FinalOf, Fault, GiveUp, row, redis, End
<1>1. TypeOK'
  <2>1. RowType'
    BY DEF TypeOK, Slot, Terminal, FrameKinds, RowType, StoreType, RunnerType,
        SetsType, Statuses, Actors, Slots, PCs, Attempts, Active, Final, Seqs
  <2>2. StoreType'
    BY DEF TypeOK, Slot, Terminal, FrameKinds, RowType, StoreType, RunnerType,
        SetsType, Statuses, Actors, Slots, PCs, Attempts, Active, Final, Seqs
  <2>3. RunnerType'
    <3>1. Slot(a) \in Slots
      <4>1. RunnerInv(a) /\ pc[a] = "r_scan"
        OBVIOUS
      <4>2. att[a] \in Attempts /\ seq[a] + 1 \in Seqs
        BY <4>1 DEF RunnerInv, ReconcilerInv, PositionInv, Engaged, Reconciling, TypeOK, RunnerType,
           Attempts, Seqs
      <4> QED BY <4>2 DEF Slot, Slots
    <3>2. owner[Slot(a)] \in Actors \cup {None} /\ FinalOf(frame[Slot(a)]) \in Statuses
      BY <3>1 DEF TypeOK, StoreType, Statuses, Final
    <3>3. hand' \in [Actors -> FrameKinds \cup Statuses \cup Actors \cup {None}]
      BY <3>2 DEF TypeOK, RunnerType, Statuses, Final
    <3>4. pc' \in [Actors -> PCs] /\ tries' \in [Actors -> 0..MaxTries]
      BY DEF TypeOK, RunnerType, PCs, MaxTries
    <3>5. term' \in [Actors -> Terminal \cup {None, "tail", "next"}]
      BY DEF TypeOK, RunnerType
    <3> QED BY <3>3, <3>4, <3>5 DEF TypeOK, RunnerType
  <2>4. SetsType'
    BY DEF TypeOK, Slot, Terminal, FrameKinds, RowType, StoreType, RunnerType,
        SetsType, Statuses, Actors, Slots, PCs, Attempts, Active, Final, Seqs
  <2> QED BY <2>1, <2>2, <2>3, <2>4 DEF TypeOK
<1>2. ASSUME NEW g \in Actors, g # a PROVE Same(g) /\ NotClaimed(g)
  BY <1>2 DEF Same, NotClaimed, HoldsLease, StoreInv, TypeOK, RowType, StoreType,
      RunnerType, Active
<1>3. CommittedPrefix' /\ CompletedIsTerminated' /\ StoreInv'
  BY StoreKept DEF StoreInv, TypeOK, RowType, StoreType, RunnerType, Active, Final,
      HoldsLease
<1>4. RunnerInv(a)'
  <2>1. PositionInv(a) /\ ReconcilerInv(a) /\ pc[a] = "r_scan" /\ UNCHANGED <<row, redis, att, seq>>
    BY DEF RunnerInv
  <2>2. CASE pc'[a] = End(a)
    BY <2>2 DEF RunnerInv, PositionInv, ReconcilerInv, ProgressInv, HolderInv, RollbackInv,
       Engaged, Started, Reconciling
  <2>3. CASE \/ pc'[a] = "r_own" /\ hand'[a] = "unsafe" /\ term'[a] = "tail" /\ seq[a] = 0
             \/ pc'[a] = "r_append" /\ hand'[a] = "unsafe" /\ term'[a] = "next"
             \/ pc'[a] = "r_own" /\ hand'[a] \in Final /\ term'[a] = "next"
             \/ pc'[a] = "r_check" /\ term'[a] = "next"
    <3> HIDE DEF ScanFrame
    <3>1. PositionInv(a)'
      BY <2>1, <2>3 DEF PositionInv, Engaged, Reconciling
    <3>2. TerminalSeq(a)' = IF term'[a] = "next" THEN seq[a] + 1 ELSE seq[a]
      BY <2>1 DEF TerminalSeq
    <3>3. ReconcilerInv(a)'
      BY <2>1, <2>3, <3>2 DEF ReconcilerInv, Reconciling, Final, TypeOK, RunnerType
    <3>4. a \in Handlers => ProgressInv(a)' /\ HolderInv(a)' /\ RollbackInv(a)'
      BY <2>3 DEF ProgressInv, HolderInv, RollbackInv, Started
    <3> QED BY <3>1, <3>3, <3>4 DEF RunnerInv
  <2> QED BY <2>2, <2>3 DEF TypeOK, RunnerType, Final
<1>5. ASSUME NEW g \in Actors, g # a PROVE RunnerInv(g)'
  BY <1>2, <1>5, RowKept
<1>6. ASSUME NEW b \in Actors, NEW g \in Handlers PROVE FenceInv(b, g)'
  BY FenceKept DEF Actors, TypeOK, RowType, RunnerType, Started, Reconciling,
      HoldsLease, StoreInv
<1> QED BY <1>1, <1>3, <1>4, <1>5, <1>6

LEMMA CheckRollbackStep ==
    ASSUME TypeOK, ExecutionInv, NEW a \in Actors, CheckRollback(a)
    PROVE  TypeOK' /\ ExecutionInv'
<1> USE BoundsAssumption, NoneAssumption DEF ExecutionInv, CheckRollback,
    OwnsReconciliation, Goto, End, Fault, row, redis, writer
<1>1. TypeOK'
  <2>1. RowType'
    BY DEF TypeOK, RowType, StoreType, RunnerType, SetsType, Statuses, Actors,
        Slots, FrameKinds, PCs, Terminal, MaxTries, Attempts, Active, Final, Seqs
  <2>2. StoreType'
    BY DEF TypeOK, RowType, StoreType, RunnerType, SetsType, Statuses, Actors,
        Slots, FrameKinds, PCs, Terminal, MaxTries, Attempts, Active, Final, Seqs
  <2>3. RunnerType'
    BY DEF TypeOK, RowType, StoreType, RunnerType, SetsType, Statuses, Actors,
        Slots, FrameKinds, PCs, Terminal, MaxTries, Attempts, Active, Final, Seqs
  <2>4. SetsType'
    BY DEF TypeOK, RowType, StoreType, RunnerType, SetsType, Statuses, Actors,
        Slots, FrameKinds, PCs, Terminal, MaxTries, Attempts, Active, Final, Seqs
  <2> QED BY <2>1, <2>2, <2>3, <2>4 DEF TypeOK
<1>2. ASSUME NEW g \in Actors, g # a PROVE Same(g) /\ NotClaimed(g)
  BY <1>2 DEF Same, NotClaimed, HoldsLease, StoreInv, TypeOK, RowType, StoreType,
      RunnerType, Active
<1>3. CommittedPrefix' /\ CompletedIsTerminated' /\ StoreInv'
  BY StoreKept DEF StoreInv, TypeOK, RowType, StoreType, RunnerType, Active, Final,
      HoldsLease
<1>4. RunnerInv(a)'
  <2>1. PositionInv(a)'
    BY DEF RunnerInv, TypeOK, RowType, StoreType, RunnerType, PositionInv, Engaged,
        Started, Reconciling, Actors
  <2>2. ReconcilerInv(a)'
    BY DEF RunnerInv, TypeOK, RowType, StoreType, RunnerType, ReconcilerInv,
        PositionInv, Reconciling, Active, Terminal, Final, TerminalSeq, Engaged,
        Started, Actors
  <2>3. ASSUME a \in Handlers PROVE ProgressInv(a)'
    BY <2>3 DEF RunnerInv, TypeOK, RowType, StoreType, RunnerType, ProgressInv,
        PositionInv, FrameKinds, Terminal, Engaged, Started, Reconciling, Actors
  <2>4. ASSUME a \in Handlers PROVE HolderInv(a)'
    BY <2>4 DEF RunnerInv, TypeOK, RowType, StoreType, RunnerType, HolderInv,
        PositionInv, HoldsLease, Started, Terminal, Slot, Engaged, Active,
        Reconciling, Actors
  <2>5. ASSUME a \in Handlers PROVE RollbackInv(a)'
    BY <2>5 DEF RunnerInv, TypeOK, RowType, StoreType, RunnerType, RollbackInv,
        PositionInv, Slot, Engaged, Started, Reconciling, Actors
  <2> QED BY <2>1, <2>2, <2>3, <2>4, <2>5 DEF RunnerInv
<1>5. ASSUME NEW g \in Actors, g # a PROVE RunnerInv(g)'
  BY <1>2, <1>5, RowKept
<1>6. ASSUME NEW b \in Actors, NEW g \in Handlers PROVE FenceInv(b, g)'
  BY FenceKept DEF Actors, TypeOK, RowType, RunnerType, Started, Reconciling,
      HoldsLease, StoreInv
<1> QED BY <1>1, <1>3, <1>4, <1>5, <1>6

LEMMA RollbackUncommittedStep ==
    ASSUME TypeOK, ExecutionInv, NEW a \in Actors, RollbackUncommitted(a)
    PROVE  TypeOK' /\ ExecutionInv'
<1> USE BoundsAssumption, NoneAssumption DEF ExecutionInv, row, redis, writer, Goto, Fault
<1>1. /\ pc[a] = "r_rollback" /\ RunnerInv(a)
      /\ pc' = [pc EXCEPT ![a] = "r_scan"] \/ pc' = [pc EXCEPT ![a] = End(a)]
      /\ faults' = faults \/ Fault
      /\ UNCHANGED <<row, writer, outputs>>
  BY DEF RollbackUncommitted
<1>2. /\ att[a] \in Attempts /\ seq[a] \in Nat /\ seq[a] + 1 \in Seqs /\ seq[a] < MaxFrames
      /\ committed \in Nat /\ ReconcilerInv(a) /\ PositionInv(a)
  BY <1>1 DEF RunnerInv, ReconcilerInv, PositionInv, Engaged, Reconciling, TypeOK, RowType,
     RunnerType, Attempts, Seqs
<1>3. ASSUME NEW g \in Actors, g # a PROVE Same(g)
  BY <1>1, <1>3 DEF Same, TypeOK, RunnerType
<1>4. RunnerType' /\ SetsType' /\ RowType'
  BY <1>1 DEF TypeOK, RowType, RunnerType, SetsType, PCs, End
<1>5. ASSUME attempt = att[a] /\ seq[a] > 0
               => frame'[<<attempt, seq[a]>>] = frame[<<attempt, seq[a]>>],
             UNCHANGED sealed
      PROVE  RunnerInv(a)'
  <2>1. pc'[a] = "r_scan" \/ pc'[a] = End(a)
    BY <1>1 DEF TypeOK, RunnerType
  <2>2. PositionInv(a)' /\ ReconcilerInv(a)'
    BY <1>1, <1>2, <1>5, <2>1 DEF PositionInv, ReconcilerInv, Reconciling, Engaged, Started, End
  <2>3. a \in Handlers => ProgressInv(a)' /\ HolderInv(a)' /\ RollbackInv(a)'
    BY <2>1 DEF ProgressInv, HolderInv, RollbackInv, Started, End
  <2> QED BY <2>2, <2>3 DEF RunnerInv
<1>6. ASSUME NEW b \in Actors, NEW g \in Handlers PROVE FenceInv(b, g)'
  <2>1. /\ pc'[b] \in Reconciling => pc[b] \in Reconciling
        /\ pc'[g] \in Started => pc[g] \in Started
    BY <1>1 DEF Actors, Reconciling, Started, TypeOK, RunnerType, End
  <2> QED BY <1>1, <2>1, FenceKept DEF HoldsLease
<1>7. CASE MayRollback(Slot(a), hand[a]) /\ RollbackFrame(Slot(a))
  <2>1. /\ Slot(a) = <<att[a], seq[a] + 1>> /\ Slot(a) \notin sealed
        /\ RollbackFrame(<<att[a], seq[a] + 1>>)
    BY <1>7 DEF Slot, MayRollback
  <2>2. att[a] # attempt \/ seq[a] + 1 > committed
    BY <1>1, <1>2, <2>1 DEF ReconcilerInv, Reconciling
  <2>3. StoreType' /\ CommittedPrefix' /\ CompletedIsTerminated' /\ StoreInv'
    BY <1>1, <1>2, <2>1, <2>2, RollbackStore
  <2>4. ASSUME NEW g \in Actors, g # a PROVE RunnerInv(g)'
    <3>1. g \in Handlers /\ HoldsLease(g) /\ pc[g] = "commit" /\ attempt = att[g]
            => att[a] # attempt
      BY <1>1 DEF FenceInv, Started, Reconciling
    <3>2. g \in Handlers /\ HoldsLease(g) /\ pc[g] = "commit" /\ attempt = att[g]
            => Slot(g) # <<att[a], seq[a] + 1>>
      BY <3>1 DEF Slot
    <3> QED BY <1>1, <1>2, <1>3, <2>1, <2>2, <2>4, <3>2, RollbackKept
  <2>5. attempt = att[a] /\ seq[a] > 0
          => frame'[<<attempt, seq[a]>>] = frame[<<attempt, seq[a]>>]
    BY <1>2, <2>1 DEF RollbackFrame, TypeOK, StoreType, Slots, Seqs
  <2>6. UNCHANGED sealed
    BY <2>1 DEF RollbackFrame
  <2> QED BY <1>4, <1>5, <1>6, <2>3, <2>4, <2>5, <2>6 DEF TypeOK
<1>8. CASE UNCHANGED redis
  <2>1. CommittedPrefix' /\ CompletedIsTerminated' /\ StoreInv' /\ StoreType'
    BY <1>1, <1>8, StoreKept DEF StoreInv, TypeOK, StoreType
  <2>2. ASSUME NEW g \in Actors, g # a PROVE RunnerInv(g)'
    BY <1>1, <1>3, <1>8, <2>2, RowKept DEF NotClaimed, HoldsLease
  <2> QED BY <1>4, <1>5, <1>6, <1>8, <2>1, <2>2 DEF TypeOK
<1> QED BY <1>7, <1>8 DEF RollbackUncommitted

LEMMA AppendUnsafeStep ==
    ASSUME TypeOK, ExecutionInv, NEW a \in Actors, AppendUnsafe(a)
    PROVE  TypeOK' /\ ExecutionInv'
<1> USE BoundsAssumption, NoneAssumption DEF ExecutionInv, row, redis, writer, Goto, Fault
<1>1. /\ pc[a] = "r_append" /\ RunnerInv(a)
      /\ pc' = [pc EXCEPT ![a] = "r_own"] \/ pc' = [pc EXCEPT ![a] = End(a)]
      /\ faults' = faults \/ Fault
      /\ UNCHANGED <<row, writer, outputs>>
  BY DEF AppendUnsafe
<1>2. /\ att[a] \in Attempts /\ seq[a] \in Nat /\ seq[a] + 1 \in Seqs /\ seq[a] < MaxFrames
      /\ committed \in Nat /\ ReconcilerInv(a) /\ PositionInv(a) /\ hand[a] = "unsafe"
      /\ term[a] = "next" /\ att[a] <= attempt /\ attempt \in Nat
      /\ att[a] = attempt => seq[a] <= committed
  BY <1>1 DEF RunnerInv, ReconcilerInv, PositionInv, Engaged, Reconciling, TypeOK, RowType,
     RunnerType, Attempts, Seqs
<1>3. ASSUME NEW g \in Actors, g # a PROVE Same(g)
  BY <1>1, <1>3 DEF Same, TypeOK, RunnerType
<1>4. RunnerType' /\ SetsType' /\ RowType'
  BY <1>1 DEF TypeOK, RowType, RunnerType, SetsType, PCs, End
<1>5. ASSUME attempt = att[a] /\ seq[a] > 0
               => frame'[<<attempt, seq[a]>>] = frame[<<attempt, seq[a]>>],
             UNCHANGED sealed
      PROVE  RunnerInv(a)'
  <2>1. pc'[a] = "r_own" \/ pc'[a] = End(a)
    BY <1>1 DEF TypeOK, RunnerType
  <2>2. PositionInv(a)' /\ ReconcilerInv(a)'
    BY <1>1, <1>2, <1>5, <2>1 DEF PositionInv, ReconcilerInv, Reconciling, Engaged, Started, End,
       Final
  <2>3. a \in Handlers => ProgressInv(a)' /\ HolderInv(a)' /\ RollbackInv(a)'
    BY <2>1 DEF ProgressInv, HolderInv, RollbackInv, Started, End
  <2> QED BY <2>2, <2>3 DEF RunnerInv
<1>6. ASSUME NEW b \in Actors, NEW g \in Handlers PROVE FenceInv(b, g)'
  <2>1. /\ pc'[b] \in Reconciling => pc[b] \in Reconciling
        /\ pc'[g] \in Started => pc[g] \in Started
    BY <1>1 DEF Actors, Reconciling, Started, TypeOK, RunnerType, End
  <2> QED BY <1>1, <2>1, FenceKept DEF HoldsLease
<1>7. CASE AppendFrame(a, Slot(a), "unsafe")
  <2>1. /\ AppendFrame(a, <<att[a], seq[a] + 1>>, "unsafe")
        /\ "unsafe" \in FrameKinds /\ "unsafe" \in Terminal
    BY <1>7 DEF Slot, FrameKinds, Terminal
  <2>2. ~(att[a] > attempt) /\ (att[a] = attempt => seq[a] + 1 <= committed + 1)
    BY <1>2 DEF Attempts
  <2>3. StoreType' /\ CommittedPrefix' /\ CompletedIsTerminated' /\ StoreInv'
    BY <1>1, <1>2, <2>1, <2>2, AppendStore
  <2>4. ASSUME NEW g \in Actors, g # a PROVE RunnerInv(g)'
    BY <1>1, <1>2, <1>3, <2>1, <2>4, AppendKept DEF Slots
  <2>5. attempt = att[a] /\ seq[a] > 0
          => frame'[<<attempt, seq[a]>>] = frame[<<attempt, seq[a]>>]
    BY <1>2, <2>1 DEF AppendFrame, TypeOK, StoreType, Slots, Seqs
  <2>6. UNCHANGED sealed
    BY <2>1 DEF AppendFrame
  <2> QED BY <1>4, <1>5, <1>6, <2>3, <2>4, <2>5, <2>6 DEF TypeOK
<1>8. CASE UNCHANGED redis
  <2>1. CommittedPrefix' /\ CompletedIsTerminated' /\ StoreInv' /\ StoreType'
    BY <1>1, <1>8, StoreKept DEF StoreInv, TypeOK, StoreType
  <2>2. ASSUME NEW g \in Actors, g # a PROVE RunnerInv(g)'
    BY <1>1, <1>3, <1>8, <2>2, RowKept DEF NotClaimed, HoldsLease
  <2> QED BY <1>4, <1>5, <1>6, <1>8, <2>1, <2>2 DEF TypeOK
<1> QED BY <1>7, <1>8 DEF AppendUnsafe

LEMMA CheckFinishStep ==
    ASSUME TypeOK, ExecutionInv, NEW a \in Actors, CheckFinish(a)
    PROVE  TypeOK' /\ ExecutionInv'
<1> USE BoundsAssumption, NoneAssumption DEF ExecutionInv, CheckFinish,
    OwnsReconciliation, Goto, TerminalSeq, End, Fault, row, redis, writer
<1>1. TypeOK'
  <2>1. RowType'
    BY DEF TypeOK, RowType, StoreType, RunnerType, SetsType, Statuses, Actors,
        Slots, FrameKinds, PCs, Terminal, MaxTries, Attempts, Active, Final, Seqs
  <2>2. StoreType'
    BY DEF TypeOK, RowType, StoreType, RunnerType, SetsType, Statuses, Actors,
        Slots, FrameKinds, PCs, Terminal, MaxTries, Attempts, Active, Final, Seqs
  <2>3. RunnerType'
    BY DEF TypeOK, RowType, StoreType, RunnerType, SetsType, Statuses, Actors,
        Slots, FrameKinds, PCs, Terminal, MaxTries, Attempts, Active, Final, Seqs
  <2>4. SetsType'
    BY DEF TypeOK, RowType, StoreType, RunnerType, SetsType, Statuses, Actors,
        Slots, FrameKinds, PCs, Terminal, MaxTries, Attempts, Active, Final, Seqs
  <2> QED BY <2>1, <2>2, <2>3, <2>4 DEF TypeOK
<1>2. ASSUME NEW g \in Actors, g # a PROVE Same(g) /\ NotClaimed(g)
  BY <1>2 DEF Same, NotClaimed, HoldsLease, StoreInv, TypeOK, RowType, StoreType,
      RunnerType, Active
<1>3. CommittedPrefix' /\ CompletedIsTerminated' /\ StoreInv'
  BY StoreKept DEF StoreInv, TypeOK, RowType, StoreType, RunnerType, Active, Final,
      HoldsLease
<1>4. RunnerInv(a)'
  <2>1. PositionInv(a)'
    BY DEF RunnerInv, TypeOK, RowType, StoreType, RunnerType, PositionInv, Engaged,
        Started, Reconciling, Actors
  <2>2. ReconcilerInv(a)'
    BY DEF RunnerInv, TypeOK, RowType, StoreType, RunnerType, ReconcilerInv,
        PositionInv, Reconciling, Active, Terminal, Final, Engaged, Started, Actors
  <2>3. ASSUME a \in Handlers PROVE ProgressInv(a)'
    BY <2>3 DEF RunnerInv, TypeOK, RowType, StoreType, RunnerType, ProgressInv,
        PositionInv, FrameKinds, Terminal, Engaged, Started, Reconciling, Actors
  <2>4. ASSUME a \in Handlers PROVE HolderInv(a)'
    BY <2>4 DEF RunnerInv, TypeOK, RowType, StoreType, RunnerType, HolderInv,
        PositionInv, HoldsLease, Started, Terminal, Slot, Engaged, Active,
        Reconciling, Actors
  <2>5. ASSUME a \in Handlers PROVE RollbackInv(a)'
    BY <2>5 DEF RunnerInv, TypeOK, RowType, StoreType, RunnerType, RollbackInv,
        PositionInv, Slot, Engaged, Started, Reconciling, Actors
  <2> QED BY <2>1, <2>2, <2>3, <2>4, <2>5 DEF RunnerInv
<1>5. ASSUME NEW g \in Actors, g # a PROVE RunnerInv(g)'
  BY <1>2, <1>5, RowKept
<1>6. ASSUME NEW b \in Actors, NEW g \in Handlers PROVE FenceInv(b, g)'
  BY FenceKept DEF Actors, TypeOK, RowType, RunnerType, Started, Reconciling,
      HoldsLease, StoreInv
<1> QED BY <1>1, <1>3, <1>4, <1>5, <1>6

LEMMA SealFrameStep ==
    ASSUME TypeOK, ExecutionInv, NEW a \in Actors, SealFrame(a)
    PROVE  TypeOK' /\ ExecutionInv'
<1> USE BoundsAssumption, NoneAssumption DEF ExecutionInv, SealFrame, TerminalSeq,
    Goto, End, Fault, row, writer
<1>0. /\ RunnerInv(a) /\ PositionInv(a) /\ ReconcilerInv(a) /\ pc[a] = "r_seal"
      /\ <<att[a], TerminalSeq(a)>> \in Slots
  BY DEF RunnerInv, PositionInv, ReconcilerInv, Engaged, Reconciling, TypeOK, RunnerType, Slots,
     Attempts, Seqs
<1>1. TypeOK'
  <2>1. RowType'
    BY DEF TypeOK, Terminal, RowType, StoreType, RunnerType, SetsType, Statuses,
        Actors, Slots, FrameKinds, PCs, MaxTries, Attempts, Active, Final, Seqs
  <2>2. StoreType'
    BY <1>0 DEF TypeOK, StoreType
  <2>3. RunnerType'
    BY DEF TypeOK, Terminal, RowType, StoreType, RunnerType, SetsType, Statuses,
        Actors, Slots, FrameKinds, PCs, MaxTries, Attempts, Active, Final, Seqs
  <2>4. SetsType'
    BY DEF TypeOK, Terminal, RowType, StoreType, RunnerType, SetsType, Statuses,
        Actors, Slots, FrameKinds, PCs, MaxTries, Attempts, Active, Final, Seqs
  <2> QED BY <2>1, <2>2, <2>3, <2>4 DEF TypeOK
<1>2. ASSUME NEW g \in Actors, g # a PROVE Same(g) /\ NotClaimed(g)
  BY <1>2 DEF Same, NotClaimed, HoldsLease, StoreInv, TypeOK, RowType, StoreType,
      RunnerType, Active
<1>3. CommittedPrefix' /\ CompletedIsTerminated' /\ StoreInv'
  <2>1. \A slot \in sealed' : frame'[slot] \in Terminal
    BY DEF StoreInv
  <2> QED BY <2>1 DEF CommittedPrefix, CompletedIsTerminated, StoreInv
<1>4. RunnerInv(a)'
  <2>1. UNCHANGED <<row, frame, owner, att, seq, hand, term>> /\ sealed \subseteq sealed'
    OBVIOUS
  <2>2. CASE pc'[a] = End(a)
    BY <2>2 DEF RunnerInv, PositionInv, ReconcilerInv, ProgressInv, HolderInv, RollbackInv,
       Engaged, Started, Reconciling
  <2>3. CASE pc'[a] = "r_finish" /\ <<att[a], TerminalSeq(a)>> \in sealed'
    <3> HIDE DEF SealFrame, TerminalSeq
    <3>1. TerminalSeq(a)' = TerminalSeq(a)
      BY <2>1 DEF TerminalSeq
    <3>2. PositionInv(a)' /\ ReconcilerInv(a)'
      BY <1>0, <2>1, <2>3, <3>1 DEF PositionInv, ReconcilerInv, Reconciling, Engaged
    <3>3. a \in Handlers => ProgressInv(a)' /\ HolderInv(a)' /\ RollbackInv(a)'
      BY <2>3 DEF ProgressInv, HolderInv, RollbackInv, Started
    <3> QED BY <3>2, <3>3 DEF RunnerInv
  <2> QED BY <2>2, <2>3 DEF TypeOK, RunnerType
<1>5. ASSUME NEW g \in Actors, g # a PROVE RunnerInv(g)'
  <2>1. UNCHANGED <<row, frame, owner>> /\ sealed \subseteq sealed'
    OBVIOUS
  <2> QED BY <1>2, <1>5, <2>1, SealKept
<1>6. ASSUME NEW b \in Actors, NEW g \in Handlers PROVE FenceInv(b, g)'
  BY FenceKept DEF Actors, TypeOK, RowType, RunnerType, Started, Reconciling,
      HoldsLease, StoreInv
<1> QED BY <1>1, <1>3, <1>4, <1>5, <1>6

LEMMA FinishReconciliationStep ==
    ASSUME TypeOK, ExecutionInv, NEW a \in Actors, FinishReconciliation(a)
    PROVE  TypeOK' /\ ExecutionInv'
<1> USE BoundsAssumption, NoneAssumption DEF ExecutionInv, FinishReconciliation,
    OwnsReconciliation, TerminalSeq, row, Fault, Goto, End, redis, writer
<1>0. /\ RunnerInv(a) /\ pc[a] = "r_finish" /\ hand[a] \in Final
      /\ att[a] \in Attempts /\ TerminalSeq(a) \in 0..MaxFrames /\ seq[a] \in Nat
      /\ TerminalSeq(a) > 0 => <<att[a], TerminalSeq(a)>> \in sealed
      /\ hand[a] = "completed" => TerminalSeq(a) > 0
      /\ TerminalSeq(a) = seq[a] \/ (TerminalSeq(a) = seq[a] + 1 /\ term[a] = "next")
      /\ att[a] = attempt /\ term[a] = "next" /\ seq[a] > 0
           => frame[<<attempt, seq[a]>>] \notin Terminal
  BY DEF RunnerInv, PositionInv, ReconcilerInv, Engaged, Reconciling, TypeOK, RunnerType, Attempts
<1>1. TypeOK'
  <2>1. RowType'
    BY <1>0 DEF TypeOK, RowType, Statuses
  <2>2. StoreType'
    BY DEF TypeOK, RowType, StoreType, RunnerType, SetsType, Statuses, Actors,
        Slots, FrameKinds, PCs, Terminal, MaxTries, Attempts, Active, Final, Seqs
  <2>3. RunnerType'
    BY DEF TypeOK, RowType, StoreType, RunnerType, SetsType, Statuses, Actors,
        Slots, FrameKinds, PCs, Terminal, MaxTries, Attempts, Active, Final, Seqs
  <2>4. SetsType'
    BY <1>0 DEF TypeOK, SetsType
  <2> QED BY <2>1, <2>2, <2>3, <2>4 DEF TypeOK
<1>2. ASSUME NEW g \in Actors, g # a PROVE Same(g) /\ NotClaimed(g)
  BY <1>2 DEF Same, NotClaimed, HoldsLease, StoreInv, TypeOK, RowType, StoreType,
      RunnerType, Active
<1>3. CommittedPrefix' /\ CompletedIsTerminated' /\ StoreInv'
  <2>1. CASE UNCHANGED row
    BY <2>1, StoreKept DEF StoreInv
  <2>2. CASE OwnsReconciliation(a) /\ status' = hand[a] /\ committed' = TerminalSeq(a)
             /\ lease' = FALSE /\ UNCHANGED <<attempt, redis>>
    <3> HIDE DEF FinishReconciliation, TerminalSeq
    <3>1. /\ attempt = att[a] /\ committed = seq[a] /\ committed' \in Nat /\ committed \in Nat
          /\ committed' = committed \/ (committed' = committed + 1 /\ term[a] = "next")
          /\ committed' > 0 => frame[<<attempt, committed'>>] \in Terminal
      BY <1>0, <2>2 DEF StoreInv
    <3>2. ASSUME NEW s \in 1..committed'
          PROVE  /\ frame[<<attempt, s>>] # None
                 /\ s < committed' => frame[<<attempt, s>>] \notin Terminal
      <4>1. CASE s = committed'
        BY <3>1, <4>1 DEF Terminal, None
      <4>2. CASE s < committed' /\ s < committed
        BY <3>1, <4>2 DEF CommittedPrefix
      <4>3. CASE s < committed' /\ s = committed
        BY <1>0, <3>1, <4>3 DEF CommittedPrefix
      <4> QED BY <3>1, <4>1, <4>2, <4>3
    <3>3. CommittedPrefix'
      BY <2>2, <3>1, <3>2 DEF CommittedPrefix, Seqs
    <3>4. CompletedIsTerminated'
      BY <1>0, <2>2, <3>1 DEF CompletedIsTerminated
    <3>5. StoreInv'
      BY <1>0, <2>2, <3>1 DEF StoreInv, Final, Attempts
    <3> QED BY <3>3, <3>4, <3>5
  <2> QED BY <2>1, <2>2
<1>4. RunnerInv(a)'
  BY DEF RunnerInv, TypeOK, PositionInv, ReconcilerInv, ProgressInv, HolderInv,
      RollbackInv, RowType, StoreType, RunnerType, SetsType, Engaged, Reconciling,
      Active, Terminal, Final, FrameKinds, HoldsLease, Started, Slot, Statuses,
      Actors, Slots, PCs, MaxTries, Attempts, Seqs
<1>5. ASSUME NEW g \in Actors, g # a PROVE RunnerInv(g)'
  <2>1. CASE UNCHANGED row
    BY <1>2, <1>5, <2>1, RowKept
  <2>2. CASE OwnsReconciliation(a) /\ status' = hand[a] /\ committed' = TerminalSeq(a)
             /\ lease' = FALSE /\ UNCHANGED <<attempt, redis>>
    <3> HIDE DEF FinishReconciliation, TerminalSeq, OwnsReconciliation
    <3> QED BY <1>0, <1>2, <1>5, <2>2, FinishKept
  <2> QED BY <2>1, <2>2
<1>6. ASSUME NEW b \in Actors, NEW g \in Handlers PROVE FenceInv(b, g)'
  BY FenceKept DEF Actors, TypeOK, RowType, RunnerType, Started, Reconciling,
      HoldsLease, StoreInv
<1> QED BY <1>1, <1>3, <1>4, <1>5, <1>6

LEMMA CrashStep ==
    ASSUME TypeOK, ExecutionInv, NEW a \in Actors, Crash(a)
    PROVE  TypeOK' /\ ExecutionInv'
<1> USE BoundsAssumption, NoneAssumption DEF ExecutionInv, Crash, Fault, Goto, row,
    redis, writer
<1>1. TypeOK'
  <2>1. RowType'
    BY DEF TypeOK, RowType, StoreType, RunnerType, SetsType, Statuses, Actors,
        Slots, FrameKinds, PCs, Terminal, MaxTries, Attempts, Active, Final, Seqs
  <2>2. StoreType'
    BY DEF TypeOK, RowType, StoreType, RunnerType, SetsType, Statuses, Actors,
        Slots, FrameKinds, PCs, Terminal, MaxTries, Attempts, Active, Final, Seqs
  <2>3. RunnerType'
    BY DEF TypeOK, RowType, StoreType, RunnerType, SetsType, Statuses, Actors,
        Slots, FrameKinds, PCs, Terminal, MaxTries, Attempts, Active, Final, Seqs
  <2>4. SetsType'
    BY DEF TypeOK, RowType, StoreType, RunnerType, SetsType, Statuses, Actors,
        Slots, FrameKinds, PCs, Terminal, MaxTries, Attempts, Active, Final, Seqs
  <2> QED BY <2>1, <2>2, <2>3, <2>4 DEF TypeOK
<1>2. ASSUME NEW g \in Actors, g # a PROVE Same(g) /\ NotClaimed(g)
  BY <1>2 DEF Same, NotClaimed, HoldsLease, StoreInv, TypeOK, RowType, StoreType,
      RunnerType, Active
<1>3. CommittedPrefix' /\ CompletedIsTerminated' /\ StoreInv'
  BY StoreKept DEF StoreInv, TypeOK, RowType, StoreType, RunnerType, Active, Final,
      HoldsLease
<1>4. RunnerInv(a)'
  BY DEF RunnerInv, TypeOK, PositionInv, ReconcilerInv, ProgressInv, HolderInv,
      RollbackInv, RowType, StoreType, RunnerType, SetsType, Engaged, Reconciling,
      Active, Terminal, Final, TerminalSeq, FrameKinds, HoldsLease, Started, Slot,
      Statuses, Actors, Slots, PCs, MaxTries, Attempts, Seqs
<1>5. ASSUME NEW g \in Actors, g # a PROVE RunnerInv(g)'
  BY <1>2, <1>5, RowKept
<1>6. ASSUME NEW b \in Actors, NEW g \in Handlers PROVE FenceInv(b, g)'
  BY FenceKept DEF Actors, TypeOK, RowType, RunnerType, Started, Reconciling,
      HoldsLease, StoreInv
<1> QED BY <1>1, <1>3, <1>4, <1>5, <1>6

LEMMA CancelStep ==
    ASSUME TypeOK, ExecutionInv, Cancel
    PROVE  TypeOK' /\ ExecutionInv'
<1> USE BoundsAssumption, NoneAssumption DEF ExecutionInv, Cancel, redis, runner,
    aux
<1>1. TypeOK'
  <2>1. RowType'
    BY DEF TypeOK, Active, RowType, StoreType, RunnerType, SetsType, Statuses,
        Actors, Slots, FrameKinds, PCs, Terminal, MaxTries, Attempts, Final, Seqs
  <2>2. StoreType'
    BY DEF TypeOK, Active, RowType, StoreType, RunnerType, SetsType, Statuses,
        Actors, Slots, FrameKinds, PCs, Terminal, MaxTries, Attempts, Final, Seqs
  <2>3. RunnerType'
    BY DEF TypeOK, Active, RowType, StoreType, RunnerType, SetsType, Statuses,
        Actors, Slots, FrameKinds, PCs, Terminal, MaxTries, Attempts, Final, Seqs
  <2>4. SetsType'
    BY DEF TypeOK, Active, RowType, StoreType, RunnerType, SetsType, Statuses,
        Actors, Slots, FrameKinds, PCs, Terminal, MaxTries, Attempts, Final, Seqs
  <2> QED BY <2>1, <2>2, <2>3, <2>4 DEF TypeOK
<1>2. ASSUME NEW g \in Actors PROVE Same(g) /\ NotClaimed(g)
  BY <1>2 DEF Same, NotClaimed, HoldsLease, StoreInv, TypeOK, RowType, StoreType,
      RunnerType, Active
<1>3. CommittedPrefix' /\ CompletedIsTerminated' /\ StoreInv'
  BY StoreKept DEF StoreInv, TypeOK, RowType, StoreType, RunnerType, Active, Final,
      HoldsLease
<1>5. ASSUME NEW g \in Actors PROVE RunnerInv(g)'
  BY <1>2, <1>5, RowKept
<1>6. ASSUME NEW b \in Actors, NEW g \in Handlers PROVE FenceInv(b, g)'
  BY FenceKept DEF Actors, TypeOK, RowType, RunnerType, Started, Reconciling,
      HoldsLease, StoreInv
<1> QED BY <1>1, <1>3, <1>5, <1>6

LEMMA ExpireLeaseStep ==
    ASSUME TypeOK, ExecutionInv, ExpireLease
    PROVE  TypeOK' /\ ExecutionInv'
<1> USE BoundsAssumption, NoneAssumption DEF ExecutionInv, ExpireLease, redis,
    runner, aux
<1>1. TypeOK'
  <2>1. RowType'
    BY DEF TypeOK, RowType, StoreType, RunnerType, SetsType, Statuses, Actors,
        Slots, FrameKinds, PCs, Terminal, MaxTries, Attempts, Active, Final, Seqs
  <2>2. StoreType'
    BY DEF TypeOK, RowType, StoreType, RunnerType, SetsType, Statuses, Actors,
        Slots, FrameKinds, PCs, Terminal, MaxTries, Attempts, Active, Final, Seqs
  <2>3. RunnerType'
    BY DEF TypeOK, RowType, StoreType, RunnerType, SetsType, Statuses, Actors,
        Slots, FrameKinds, PCs, Terminal, MaxTries, Attempts, Active, Final, Seqs
  <2>4. SetsType'
    BY DEF TypeOK, RowType, StoreType, RunnerType, SetsType, Statuses, Actors,
        Slots, FrameKinds, PCs, Terminal, MaxTries, Attempts, Active, Final, Seqs
  <2> QED BY <2>1, <2>2, <2>3, <2>4 DEF TypeOK
<1>2. ASSUME NEW g \in Actors PROVE Same(g) /\ NotClaimed(g)
  BY <1>2 DEF Same, NotClaimed, HoldsLease, StoreInv, TypeOK, RowType, StoreType,
      RunnerType, Active
<1>3. CommittedPrefix' /\ CompletedIsTerminated' /\ StoreInv'
  BY StoreKept DEF StoreInv, TypeOK, RowType, StoreType, RunnerType, Active, Final,
      HoldsLease
<1>5. ASSUME NEW g \in Actors PROVE RunnerInv(g)'
  BY <1>2, <1>5, RowKept
<1>6. ASSUME NEW b \in Actors, NEW g \in Handlers PROVE FenceInv(b, g)'
  BY FenceKept DEF Actors, TypeOK, RowType, RunnerType, Started, Reconciling,
      HoldsLease, StoreInv
<1> QED BY <1>1, <1>3, <1>5, <1>6

LEMMA DeleteExpiredStep ==
    ASSUME TypeOK, ExecutionInv, DeleteExpired
    PROVE  TypeOK' /\ ExecutionInv'
<1> USE BoundsAssumption, NoneAssumption DEF ExecutionInv, DeleteExpired, redis,
    runner, aux
<1>1. TypeOK'
  <2>1. RowType'
    BY DEF TypeOK, Active, Final, RowType, StoreType, RunnerType, SetsType,
        Statuses, Actors, Slots, FrameKinds, PCs, Terminal, MaxTries, Attempts, Seqs
  <2>2. StoreType'
    BY DEF TypeOK, Active, Final, RowType, StoreType, RunnerType, SetsType,
        Statuses, Actors, Slots, FrameKinds, PCs, Terminal, MaxTries, Attempts, Seqs
  <2>3. RunnerType'
    BY DEF TypeOK, Active, Final, RowType, StoreType, RunnerType, SetsType,
        Statuses, Actors, Slots, FrameKinds, PCs, Terminal, MaxTries, Attempts, Seqs
  <2>4. SetsType'
    BY DEF TypeOK, Active, Final, RowType, StoreType, RunnerType, SetsType,
        Statuses, Actors, Slots, FrameKinds, PCs, Terminal, MaxTries, Attempts, Seqs
  <2> QED BY <2>1, <2>2, <2>3, <2>4 DEF TypeOK
<1>2. ASSUME NEW g \in Actors PROVE Same(g) /\ NotClaimed(g)
  BY <1>2 DEF Same, NotClaimed, HoldsLease, StoreInv, TypeOK, RowType, StoreType,
      RunnerType, Active
<1>3. CommittedPrefix' /\ CompletedIsTerminated' /\ StoreInv'
  BY StoreKept DEF StoreInv, TypeOK, RowType, StoreType, RunnerType, Active, Final,
      HoldsLease
<1>5. ASSUME NEW g \in Actors PROVE RunnerInv(g)'
  BY <1>2, <1>5, RowKept
<1>6. ASSUME NEW b \in Actors, NEW g \in Handlers PROVE FenceInv(b, g)'
  BY FenceKept DEF Actors, TypeOK, RowType, RunnerType, Started, Reconciling,
      HoldsLease, StoreInv
<1> QED BY <1>1, <1>3, <1>5, <1>6

-----------------------------------------------------------------------------
(* The theorems.                                                           *)

LEMMA InitInv == Init => TypeOK /\ ExecutionInv
<1> SUFFICES ASSUME Init PROVE TypeOK /\ ExecutionInv
  OBVIOUS
<1> USE BoundsAssumption DEF Init
<1>1. TypeOK
  <2>1. RowType /\ SetsType
    <3>1. 0 \in 0..AttemptBound /\ 0 \in 0..MaxFrames /\ 0 \in 0..MaxFaults
      OBVIOUS
    <3> QED BY <3>1 DEF RowType, SetsType, Statuses
  <2>2. StoreType
    BY DEF StoreType
  <2>3. RunnerType
    BY DEF RunnerType, PCs, MaxTries
  <2> QED BY <2>1, <2>2, <2>3 DEF TypeOK
<1>2. \A n \in Attempts, s \in Seqs : frame[<<n, s>>] = None
  BY DEF Slots
<1>3. CommittedPrefix /\ CompletedIsTerminated
  BY DEF CommittedPrefix, CompletedIsTerminated
<1>4. StoreInv
  BY <1>2 DEF StoreInv, Seqs
<1>5. ASSUME NEW a \in Actors PROVE RunnerInv(a)
  BY DEF RunnerInv, PositionInv, ReconcilerInv, ProgressInv, HolderInv, RollbackInv, HoldsLease,
     Engaged, Started, Reconciling
<1>6. ASSUME NEW a \in Actors, NEW h \in Handlers PROVE FenceInv(a, h)
  BY DEF FenceInv, HoldsLease
<1> QED BY <1>1, <1>3, <1>4, <1>5, <1>6 DEF ExecutionInv

LEMMA StutterInv ==
    ASSUME TypeOK, ExecutionInv, UNCHANGED vars PROVE TypeOK' /\ ExecutionInv'
<1> USE DEF vars, row, redis, runner, aux
<1>1. TypeOK'
  BY DEF TypeOK, RowType, StoreType, RunnerType, SetsType
<1>2. CommittedPrefix' /\ CompletedIsTerminated' /\ StoreInv'
  BY StoreKept DEF ExecutionInv, StoreInv
<1>3. ASSUME NEW g \in Actors PROVE RunnerInv(g)'
  BY RowKept DEF ExecutionInv, Same, NotClaimed, HoldsLease
<1>4. ASSUME NEW a \in Actors, NEW h \in Handlers PROVE FenceInv(a, h)'
  BY FenceKept DEF ExecutionInv, HoldsLease
<1> QED BY <1>1, <1>2, <1>3, <1>4 DEF ExecutionInv

LEMMA NextInv ==
    ASSUME TypeOK, ExecutionInv, [Next]_vars PROVE TypeOK' /\ ExecutionInv'
<1>1. CASE \E h \in Handlers : Lookup(h) \/ Worker(h) \/ Heartbeat(h)
  <2> PICK h \in Handlers : Lookup(h) \/ Worker(h) \/ Heartbeat(h)
    BY <1>1
  <2>1. CASE \/ Lookup(h) \/ Heartbeat(h) \/ Ensure(h) \/ Claim(h) \/ SaveRequest(h)
             \/ StartAttempt(h)
    BY <2>1, LookupStep, HeartbeatStep, EnsureStep, ClaimStep, SaveRequestStep, StartAttemptStep
  <2>2. CASE PublishAttempt(h) \/ WriteError(h) \/ CommitFrame(h) \/ RollbackRejected(h)
    BY <2>2, PublishAttemptStep, WriteErrorStep, CommitFrameStep, RollbackRejectedStep
  <2>3. CASE Retry(h) \/ FinishWorker(h)
    BY <2>3, RetryStep, FinishWorkerStep
  <2>4. CASE \E k \in Upstream : WriteFrame(h, k)
    BY <2>4, WriteFrameStep
  <2> QED BY <2>1, <2>2, <2>3, <2>4 DEF Worker
<1>2. CASE \E r \in Reconcilers : FindRecoverable(r)
  BY <1>2, FindRecoverableStep
<1>3. CASE \E a \in Actors : Reconcile(a) \/ Crash(a)
  <2> PICK a \in Actors : Reconcile(a) \/ Crash(a)
    BY <1>3
  <2>1. CASE \/ ClaimExpired(a) \/ ReadTail(a) \/ ScanFrame(a) \/ CheckRollback(a)
             \/ RollbackUncommitted(a)
    BY <2>1, ClaimExpiredStep, ReadTailStep, ScanFrameStep, CheckRollbackStep,
       RollbackUncommittedStep
  <2>2. CASE \/ AppendUnsafe(a) \/ CheckFinish(a) \/ SealFrame(a) \/ FinishReconciliation(a)
             \/ Crash(a)
    BY <2>2, AppendUnsafeStep, CheckFinishStep, SealFrameStep, FinishReconciliationStep, CrashStep
  <2> QED BY <2>1, <2>2 DEF Reconcile
<1>4. CASE Cancel \/ ExpireLease \/ DeleteExpired
  BY <1>4, CancelStep, ExpireLeaseStep, DeleteExpiredStep
<1>5. CASE UNCHANGED vars
  BY <1>5, StutterInv
<1> QED BY <1>1, <1>2, <1>3, <1>4, <1>5 DEF Next

\* The row, the Redis frames and every worker and reconciler keep their types,
\* and the inductive invariant holds, for any number of requests, reconcile
\* jobs, attempts, frames and failures.
THEOREM ExecutionInvariant == Spec => [](TypeOK /\ ExecutionInv)
<1>1. Init => TypeOK /\ ExecutionInv
  BY InitInv
<1>2. TypeOK /\ ExecutionInv /\ [Next]_vars => (TypeOK /\ ExecutionInv)'
  BY NextInv
<1> QED BY <1>1, <1>2, PTL DEF Spec

\* Committed frames form a prefix with at most one terminal event, its last,
\* and at most one frame lies beyond it, whoever commits, adopts or withdraws
\* frames (flushLocked, reconcileExpiredStreamExecution).
THEOREM CommittedPrefixTheorem == Spec => []CommittedPrefix
<1>1. TypeOK /\ ExecutionInv => CommittedPrefix
  BY DEF ExecutionInv
<1> QED BY <1>1, ExecutionInvariant, PTL

\* An execution is reported completed only with its terminal event committed
\* (runStreamRecoveryWorker, finishReconciledStreamExecution).
THEOREM CompletedTheorem == Spec => []CompletedIsTerminated
<1>1. TypeOK /\ ExecutionInv => CompletedIsTerminated
  BY DEF ExecutionInv
<1> QED BY <1>1, ExecutionInvariant, PTL

\* What a step may do to the committed frames and to a final status.
Permanent ==
    /\ \A s \in 1..committed :
         attempt' = attempt => /\ committed' >= s
                               /\ frame'[<<attempt, s>>] = frame[<<attempt, s>>]
    /\ status \in Final => status' \in {status, "deleted"}

\* The row's progress and the frames stay.
LEMMA PermanentKept ==
    ASSUME TypeOK, UNCHANGED <<committed, frame>>, status' = status \/ status \notin Final
    PROVE  Permanent
BY DEF Permanent, TypeOK, RowType

LEMMA PermanentStep ==
    ASSUME TypeOK, ExecutionInv, [Next]_vars PROVE Permanent
<1> USE BoundsAssumption DEF row, redis, writer, aux
<1>1. CASE \E h \in Handlers : Lookup(h) \/ Worker(h) \/ Heartbeat(h)
  <2> PICK h \in Handlers : Lookup(h) \/ Worker(h) \/ Heartbeat(h)
    BY <1>1
  <2> h \in Actors /\ RunnerInv(h)
    BY DEF Actors, ExecutionInv
  <2>1. CASE Lookup(h)
    BY <2>1, PermanentKept DEF Lookup, Final
  <2>2. CASE Heartbeat(h) \/ Ensure(h) \/ Retry(h)
    BY <2>2, PermanentKept DEF Heartbeat, Ensure, Retry
  <2>3. CASE Claim(h) \/ SaveRequest(h) \/ PublishAttempt(h) \/ FinishWorker(h)
    BY <2>3, PermanentKept DEF Claim, SaveRequest, PublishAttempt, FinishWorker, FinishRow,
       HoldsLease, Active, Final
  <2>4. CASE StartAttempt(h)
    <3>1. CASE UNCHANGED row
      BY <2>4, <3>1, PermanentKept DEF StartAttempt
    <3>2. CASE pc[h] \in {"begin", "restart"} /\ MayStartAttempt(h) /\ attempt' = att[h]
      <4>1. attempt = att[h] - 1 /\ status \notin Final
        BY <3>2 DEF RunnerInv, HolderInv, MayStartAttempt, HoldsLease, Active, Final
      <4>2. attempt' # attempt
        BY <3>2, <4>1 DEF TypeOK, RowType, RunnerType
      <4> QED BY <4>1, <4>2 DEF Permanent
    <3> QED BY <2>4, <3>1, <3>2 DEF StartAttempt
  <2>5. CASE WriteError(h) \/ \E k \in Upstream : WriteFrame(h, k)
    <3>1. UNCHANGED row /\ (UNCHANGED frame \/ \E k : AppendFrame(h, Slot(h), k))
      BY <2>5 DEF WriteError, WriteFrame, Append
    <3>2. ASSUME NEW s \in 1..committed
          PROVE  frame'[<<attempt, s>>] = frame[<<attempt, s>>]
      <4>1. <<attempt, s>> \in Slots /\ frame[<<attempt, s>>] # None
        BY CommittedSlots DEF CommittedPrefix, ExecutionInv
      <4> QED BY <3>1, <4>1 DEF AppendFrame, TypeOK, StoreType
    <3> QED BY <3>1, <3>2 DEF Permanent, TypeOK, RowType
  <2>6. CASE CommitFrame(h)
    <3>1. CASE UNCHANGED row
      BY <2>6, <3>1, PermanentKept DEF CommitFrame
    <3>2. CASE MayCommit(h) /\ CommitSequence(h)
      BY <2>6, <3>2 DEF CommitFrame, MayCommit, CommitSequence, HoldsLease, Active, Final, Permanent,
         TypeOK, RowType
    <3> QED BY <2>6, <3>1, <3>2 DEF CommitFrame
  <2>7. CASE RollbackRejected(h)
    <3>1. CASE UNCHANGED redis
      BY <2>7, <3>1, PermanentKept DEF RollbackRejected
    <3>2. CASE MayRollback(Slot(h), h) /\ RollbackFrame(Slot(h))
      <4>1. UNCHANGED row /\ pc[h] = "rollback"
        BY <2>7 DEF RollbackRejected
      <4>2. ASSUME NEW s \in 1..committed
            PROVE  frame'[<<attempt, s>>] = frame[<<attempt, s>>]
        <5>1. <<attempt, s>> # Slot(h)
          BY <3>2, <4>1 DEF RunnerInv, RollbackInv, MayRollback, Slot, TypeOK, RowType, RunnerType
        <5> QED BY <3>2, <5>1, CommittedSlots DEF RollbackFrame, TypeOK, StoreType, ExecutionInv
      <4> QED BY <4>1, <4>2 DEF Permanent, TypeOK, RowType
    <3> QED BY <2>7, <3>1, <3>2 DEF RollbackRejected
  <2> QED BY <2>1, <2>2, <2>3, <2>4, <2>5, <2>6, <2>7 DEF Worker
<1>2. CASE \E r \in Reconcilers : FindRecoverable(r)
  BY <1>2, PermanentKept DEF FindRecoverable
<1>3. CASE \E a \in Actors : Reconcile(a) \/ Crash(a)
  <2> PICK a \in Actors : Reconcile(a) \/ Crash(a)
    BY <1>3
  <2> RunnerInv(a)
    BY DEF ExecutionInv
  <2>1. CASE \/ ReadTail(a) \/ ScanFrame(a) \/ CheckRollback(a) \/ CheckFinish(a)
             \/ SealFrame(a) \/ Crash(a)
    BY <2>1, PermanentKept DEF ReadTail, ScanFrame, CheckRollback, CheckFinish, SealFrame, Crash
  <2>2. CASE ClaimExpired(a)
    BY <2>2, PermanentKept DEF ClaimExpired, MayReconcile, Active, Final
  <2>3. CASE RollbackUncommitted(a)
    <3>1. CASE UNCHANGED redis
      BY <2>3, <3>1, PermanentKept DEF RollbackUncommitted
    <3>2. CASE MayRollback(Slot(a), hand[a]) /\ RollbackFrame(Slot(a))
      <4>1. UNCHANGED row /\ pc[a] = "r_rollback"
        BY <2>3 DEF RollbackUncommitted
      <4>2. ASSUME NEW s \in 1..committed
            PROVE  frame'[<<attempt, s>>] = frame[<<attempt, s>>]
        <5>1. <<attempt, s>> # Slot(a)
          BY <3>2, <4>1 DEF RunnerInv, ReconcilerInv, Reconciling, MayRollback, Slot, TypeOK,
             RowType, RunnerType
        <5> QED BY <3>2, <5>1, CommittedSlots DEF RollbackFrame, TypeOK, StoreType, ExecutionInv
      <4> QED BY <4>1, <4>2 DEF Permanent, TypeOK, RowType
    <3> QED BY <2>3, <3>1, <3>2 DEF RollbackUncommitted
  <2>4. CASE AppendUnsafe(a)
    <3>1. UNCHANGED row /\ (UNCHANGED frame \/ AppendFrame(a, Slot(a), "unsafe"))
      BY <2>4 DEF AppendUnsafe
    <3>2. ASSUME NEW s \in 1..committed
          PROVE  frame'[<<attempt, s>>] = frame[<<attempt, s>>]
      <4>1. <<attempt, s>> \in Slots /\ frame[<<attempt, s>>] # None
        BY CommittedSlots DEF CommittedPrefix, ExecutionInv
      <4> QED BY <3>1, <4>1 DEF AppendFrame, TypeOK, StoreType
    <3> QED BY <3>1, <3>2 DEF Permanent, TypeOK, RowType
  <2>5. CASE FinishReconciliation(a)
    <3>1. CASE UNCHANGED row
      BY <2>5, <3>1, PermanentKept DEF FinishReconciliation
    <3>2. CASE OwnsReconciliation(a) /\ committed' = TerminalSeq(a) /\ UNCHANGED <<attempt, redis>>
      BY <3>2 DEF OwnsReconciliation, TerminalSeq, Permanent, Final, TypeOK, RowType, RunnerType
    <3> QED BY <2>5, <3>1, <3>2 DEF FinishReconciliation
  <2> QED BY <2>1, <2>2, <2>3, <2>4, <2>5 DEF Reconcile
<1>4. CASE Cancel \/ ExpireLease \/ DeleteExpired
  BY <1>4 DEF Cancel, ExpireLease, DeleteExpired, Active, Final, Permanent, TypeOK, RowType
<1>5. CASE UNCHANGED vars
  BY <1>5, PermanentKept DEF vars
<1> QED BY <1>1, <1>2, <1>3, <1>4, <1>5 DEF Next

\* No rollback, by its writer or by a reconciler, withdraws or replaces a frame
\* once it is committed, and a final status is left only by deletion.
THEOREM CommittedForever == Spec => CommittedIsForever
<1>1. TypeOK /\ ExecutionInv /\ [Next]_vars => [Permanent]_vars
  BY PermanentStep
<1> QED BY <1>1, ExecutionInvariant, PTL DEF Spec, CommittedIsForever, Permanent

-----------------------------------------------------------------------------
(* A single request.                                                       *)

LEMMA OutputKept ==
    ASSUME OutputInv, UNCHANGED <<attempt, outputs>>, business \subseteq business',
           status \in Final \cup {"deleted"} => status' \in Final \cup {"deleted"},
           \A h \in Handlers :
             pc'[h] \in {"start", "ensure", "claim", "save", "begin", "restart"} =>
               h \notin business'
    PROVE  OutputInv'
BY DEF OutputInv, NoGenerationAfterOutput

LEMMA OutputStep ==
    ASSUME \A g, h \in Handlers : g = h, TypeOK, ExecutionInv, OutputInv, [Next]_vars
    PROVE  OutputInv'
<1> USE DEF row, redis, runner, writer, aux, Goto, Fault, End, OutputInv, TypeOK, RunnerType
<1>1. CASE \E h \in Handlers : Lookup(h) \/ Worker(h) \/ Heartbeat(h)
  <2> PICK h \in Handlers : Lookup(h) \/ Worker(h) \/ Heartbeat(h)
    BY <1>1
  <2> h \in Actors /\ RunnerInv(h)
    BY DEF Actors, ExecutionInv
  <2>1. CASE Lookup(h) \/ Heartbeat(h) \/ Ensure(h) \/ Retry(h)
    BY <2>1, OutputKept DEF Lookup, Heartbeat, Ensure, ReadClock, Retry, MayRetry, Final
  <2>2. CASE Claim(h) \/ SaveRequest(h)
    BY <2>2, OutputKept DEF Claim, SaveRequest, FinishRow, HoldsLease, Active, Final
  <2>3. CASE PublishAttempt(h) \/ FinishWorker(h) \/ RollbackRejected(h)
    BY <2>3, OutputKept DEF PublishAttempt, FinishWorker, RollbackRejected, FinishRow, HoldsLease,
       Active, Final
  <2>4. CASE StartAttempt(h)
    <3>1. CASE UNCHANGED row
      BY <2>4, <3>1, OutputKept DEF StartAttempt
    <3>2. CASE pc[h] \in {"begin", "restart"} /\ MayStartAttempt(h)
               /\ pc'[h] \in {"publish", "republish"}
      <4>1. status \notin Final \cup {"deleted"} /\ h \notin business
        BY <3>2 DEF MayStartAttempt, HoldsLease, Active, Final
      <4>2. outputs = {}
        BY <4>1 DEF SetsType
      <4> QED BY <2>4, <3>2, <4>2 DEF StartAttempt, NoGenerationAfterOutput
    <3> QED BY <2>4, <3>1, <3>2 DEF StartAttempt
  <2>5. CASE WriteError(h) \/ \E k \in Upstream : WriteFrame(h, k)
    BY <2>5, OutputKept DEF WriteError, WriteFrame, Append
  <2>6. CASE CommitFrame(h)
    <3>1. pc'[h] \in {"relay", "rollback"} /\ business \subseteq business'
      BY <2>6 DEF CommitFrame, Accepted
    <3>2. CASE UNCHANGED <<row, outputs>>
      BY <3>1, <3>2, OutputKept
    <3>3. CASE MayCommit(h) /\ CommitSequence(h)
      <4>1. outputs' = outputs \/ (outputs' = outputs \cup {attempt} /\ h \in business')
        BY <2>6, <3>3 DEF CommitFrame, Accepted, MayCommit, CommitSequence
      <4> QED BY <3>1, <3>3, <4>1 DEF CommitSequence, NoGenerationAfterOutput
    <3> QED BY <2>6, <3>2, <3>3 DEF CommitFrame
  <2> QED BY <2>1, <2>2, <2>3, <2>4, <2>5, <2>6 DEF Worker
<1>2. CASE \E r \in Reconcilers : FindRecoverable(r)
  BY <1>2, OutputKept DEF FindRecoverable, Actors
<1>3. CASE \E a \in Actors : Reconcile(a) \/ Crash(a)
  <2> PICK a \in Actors : Reconcile(a) \/ Crash(a)
    BY <1>3
  <2>1. \A h \in Handlers :
          pc'[h] \in {"start", "ensure", "claim", "save", "begin", "restart"} => pc'[h] = pc[h]
    BY DEF Reconcile, Crash, ClaimExpired, ReadTail, GiveUp, ScanFrame, CheckRollback,
       RollbackUncommitted, AppendUnsafe, CheckFinish, SealFrame, FinishReconciliation, Actors
  <2>2. UNCHANGED business
    BY DEF Reconcile, Crash, ClaimExpired, ReadTail, ScanFrame, CheckRollback,
       RollbackUncommitted, AppendUnsafe, CheckFinish, SealFrame, FinishReconciliation
  <2>3. CASE UNCHANGED <<status, attempt, outputs>>
    BY <2>1, <2>2, <2>3, OutputKept
  <2>4. CASE ClaimExpired(a)
    BY <2>1, <2>2, <2>4, OutputKept DEF ClaimExpired, MayReconcile, Active, Final
  <2>5. CASE FinishReconciliation(a) /\ ~UNCHANGED <<status, attempt, outputs>>
    <3>1. /\ status' = hand[a] /\ UNCHANGED attempt
          /\ outputs' = outputs \/ outputs' = outputs \cup {attempt}
      BY <2>5 DEF FinishReconciliation, OwnsReconciliation
    <3>2. hand[a] \in Final
      BY <2>5 DEF FinishReconciliation, ExecutionInv, RunnerInv, ReconcilerInv, Reconciling
    <3> QED BY <2>1, <2>2, <3>1, <3>2 DEF NoGenerationAfterOutput
  <2> QED
    BY <2>3, <2>4, <2>5 DEF Reconcile, Crash, ReadTail, ScanFrame, CheckRollback,
       RollbackUncommitted, AppendUnsafe, CheckFinish, SealFrame
<1>4. CASE Cancel \/ ExpireLease \/ DeleteExpired
  BY <1>4, OutputKept DEF Cancel, ExpireLease, DeleteExpired, Active, Final
<1>5. CASE UNCHANGED vars
  BY <1>5, OutputKept DEF vars
<1> QED BY <1>1, <1>2, <1>3, <1>4, <1>5 DEF Next

LEMMA OutputInvariant ==
    ASSUME \A g, h \in Handlers : g = h
    PROVE  Spec => []OutputInv
<1>1. Init => OutputInv
  BY DEF Init, OutputInv, NoGenerationAfterOutput
<1>2. TypeOK /\ ExecutionInv /\ OutputInv /\ [Next]_vars => OutputInv'
  BY OutputStep
<1> QED BY <1>1, <1>2, ExecutionInvariant, PTL DEF Spec

\* A single request never starts a new generation once business output is
\* committed, through every retry, lost answer, crash and reconciliation
\* (retryDecision, StartStreamExecutionAttempt).
THEOREM NoGenerationTheorem ==
    ASSUME \A g, h \in Handlers : g = h
    PROVE  Spec => []NoGenerationAfterOutput
<1>1. OutputInv => NoGenerationAfterOutput
  BY DEF OutputInv
<1> QED BY <1>1, OutputInvariant, PTL

\* The row's progress and its committed frames stay, and nobody reports a failure.
LEMMA SuccessKept ==
    ASSUME TypeOK, SuccessIsKept, Permanent, UNCHANGED <<attempt, committed>>,
           status' = "failed" => status = "failed"
    PROVE  SuccessIsKept'
BY DEF SuccessIsKept, Permanent, TypeOK, RowType

LEMMA SoloStoreKept ==
    ASSUME SoloStoreInv, UNCHANGED <<attempt, frame>>, leaving' = {} => leaving = {}
    PROVE  SoloStoreInv'
BY DEF SoloStoreInv

\* The row's progress stays and the worker makes no step, or is over; the frame
\* it may write next is taken by a reconciler at most.
LEMMA SoloWorkerKept ==
    ASSUME TypeOK, NEW h \in Handlers, SoloWorkerInv(h), RunnerInv(h), Permanent,
           Same(h) \/ pc'[h] \in {"done", "crashed", "idle"} \cup Reconciling,
           UNCHANGED <<attempt, committed>>,
           Slot(h) \in Slots => frame'[Slot(h)] \in {frame[Slot(h)], None, "unsafe"},
           status' \in Active => status \in Active \/ attempt = 0
    PROVE  SoloWorkerInv(h)'
<1>1. committed > 0 => frame'[<<attempt, committed>>] = frame[<<attempt, committed>>]
  BY DEF Permanent, TypeOK, RowType
<1>2. MayWrite(h) => Slot(h) \in Slots
  <2> SUFFICES ASSUME MayWrite(h) PROVE Slot(h) \in Slots
    OBVIOUS
  <2>1. pc[h] \in Started /\ att[h] \in Nat /\ seq[h] \in Nat
    BY DEF MayWrite, Started, TypeOK, RunnerType, Actors
  <2>2. att[h] \in Attempts
    BY <2>1 DEF RunnerInv, PositionInv, Engaged, Started, Attempts, TypeOK, RunnerType, Actors
  <2>3. seq[h] + 1 \in Seqs
    BY <2>1, BoundsAssumption DEF MayWrite, RunnerInv, ProgressInv, Seqs
  <2> QED BY <2>2, <2>3 DEF Slot, Slots
<1> QED BY <1>1, <1>2 DEF SoloWorkerInv, RunnerInv, MayWrite, Same, PositionInv, Engaged,
  Started, Reconciling, Slot

\* The attempt stays, b makes no step that matters, the frame it has seen does not
\* become a success and no worker becomes able to write.
LEMMA SoloReconcilerKept ==
    ASSUME TypeOK, NEW b \in Actors, SoloReconcilerInv(b), RunnerInv(b), UNCHANGED attempt,
           status' \in Active => status \in Active \/ attempt = 0,
           <<attempt, TerminalSeq(b)>> \in Slots =>
             frame'[<<attempt, TerminalSeq(b)>>] \in
               {frame[<<attempt, TerminalSeq(b)>>], None, "unsafe"},
           pc'[b] \in {"r_own", "r_seal", "r_finish"} =>
             /\ pc[b] \in {"r_own", "r_seal", "r_finish"} /\ hand'[b] = hand[b]
             /\ att'[b] = att[b] /\ seq'[b] = seq[b] /\ term'[b] = term[b],
           \A h \in Handlers : MayWrite(h)' /\ att'[h] = attempt => MayWrite(h) /\ att[h] = attempt
    PROVE  SoloReconcilerInv(b)'
<1>1. pc'[b] \in {"r_own", "r_seal", "r_finish"} => TerminalSeq(b)' = TerminalSeq(b)
  BY DEF TerminalSeq
<1>2. ASSUME pc[b] \in {"r_own", "r_seal", "r_finish"}, att[b] = attempt, TerminalSeq(b) > 0
      PROVE  <<attempt, TerminalSeq(b)>> \in Slots
  BY <1>2, BoundsAssumption DEF RunnerInv, ReconcilerInv, PositionInv, Engaged, Reconciling, TypeOK,
     RunnerType, TerminalSeq, Slots, Attempts, Seqs
<1> QED BY <1>1, <1>2 DEF SoloReconcilerInv, RunnerInv, PositionInv, Engaged, Reconciling, None

LEMMA LookupSolo ==
    ASSUME \A g, h \in Handlers : g = h, TypeOK, ExecutionInv, SoloInv, Permanent,
           NEW h \in Handlers, Lookup(h)
    PROVE  SoloInv'
<1> h \in Actors
  BY DEF Actors
<1> USE DEF SoloInv, TypeOK, RunnerType, Lookup, Goto, redis, aux
<1>1. SuccessIsKept'
  BY SuccessKept
<1>2. SoloStoreInv'
  BY SoloStoreKept
<1>3. ASSUME NEW g \in Handlers PROVE SoloWorkerInv(g)'
  BY <1>3 DEF SoloWorkerInv, MayWrite, Started, ExecutionInv, RunnerInv,
      ProgressInv, HolderInv, PositionInv, Engaged, RowType, Active, None
<1>4. ASSUME NEW b \in Actors PROVE SoloReconcilerInv(b)'
  BY <1>4, SoloReconcilerKept DEF MayWrite, Active, Final, ExecutionInv, RunnerInv,
      StoreInv, Actors, None
<1> QED BY <1>1, <1>2, <1>3, <1>4

LEMMA EnsureSolo ==
    ASSUME \A g, h \in Handlers : g = h, TypeOK, ExecutionInv, SoloInv, Permanent,
           NEW h \in Handlers, Ensure(h)
    PROVE  SoloInv'
<1> h \in Actors
  BY DEF Actors
<1> USE DEF SoloInv, TypeOK, RunnerType, Ensure, Goto, ReadClock, row, redis, aux
<1>1. SuccessIsKept'
  BY SuccessKept
<1>2. SoloStoreInv'
  BY SoloStoreKept
<1>3. ASSUME NEW g \in Handlers PROVE SoloWorkerInv(g)'
  BY <1>3 DEF SoloWorkerInv, MayWrite, Started, ExecutionInv, RunnerInv,
      ProgressInv, HolderInv, PositionInv, Engaged, RowType, Active, None
<1>4. ASSUME NEW b \in Actors PROVE SoloReconcilerInv(b)'
  BY <1>4, SoloReconcilerKept DEF MayWrite, Active, Final, ExecutionInv, RunnerInv,
      StoreInv, Actors, None
<1> QED BY <1>1, <1>2, <1>3, <1>4

LEMMA ClaimSolo ==
    ASSUME \A g, h \in Handlers : g = h, TypeOK, ExecutionInv, SoloInv, Permanent,
           NEW h \in Handlers, Claim(h)
    PROVE  SoloInv'
<1> h \in Actors
  BY DEF Actors
<1> USE DEF SoloInv, TypeOK, RunnerType, Claim, Goto, row, redis, aux
<1>1. SuccessIsKept'
  BY SuccessKept
<1>2. SoloStoreInv'
  BY SoloStoreKept
<1>3. ASSUME NEW g \in Handlers PROVE SoloWorkerInv(g)'
  BY <1>3 DEF SoloWorkerInv, MayWrite, Started, ExecutionInv, RunnerInv,
      ProgressInv, HolderInv, PositionInv, Engaged, RowType, Active, None
<1>4. ASSUME NEW b \in Actors PROVE SoloReconcilerInv(b)'
  BY <1>4, SoloReconcilerKept DEF MayWrite, Active, Final, ExecutionInv, RunnerInv,
      StoreInv, Actors, None
<1> QED BY <1>1, <1>2, <1>3, <1>4

LEMMA SaveRequestSolo ==
    ASSUME \A g, h \in Handlers : g = h, TypeOK, ExecutionInv, SoloInv, Permanent,
           NEW h \in Handlers, SaveRequest(h)
    PROVE  SoloInv'
<1> h \in Actors
  BY DEF Actors
<1> USE DEF SoloInv, TypeOK, RunnerType, SaveRequest, Goto, row, Fault, FinishRow,
    redis, HoldsLease
<1>1. SuccessIsKept'
  BY SuccessKept DEF SoloWorkerInv, ExecutionInv, StoreInv, SuccessIsKept
<1>2. SoloStoreInv'
  BY SoloStoreKept
<1>3. ASSUME NEW g \in Handlers PROVE SoloWorkerInv(g)'
  BY <1>3 DEF SoloWorkerInv, MayWrite, Started, ExecutionInv, RunnerInv,
      ProgressInv, HolderInv, PositionInv, Engaged, RowType, Active, None
<1>4. ASSUME NEW b \in Actors PROVE SoloReconcilerInv(b)'
  BY <1>4, SoloReconcilerKept DEF MayWrite, Active, Final, ExecutionInv, RunnerInv,
      StoreInv, Actors, None
<1> QED BY <1>1, <1>2, <1>3, <1>4

LEMMA StartAttemptSolo ==
    ASSUME \A g, h \in Handlers : g = h, TypeOK, ExecutionInv, SoloInv, Permanent,
           NEW h \in Handlers, StartAttempt(h)
    PROVE  SoloInv'
<1> h \in Actors
  BY DEF Actors
<1> USE DEF SoloInv, TypeOK, RunnerType, StartAttempt, MayStartAttempt, Goto, Fault,
    row, redis, HoldsLease
<1>0. /\ pc[h] \in {"begin", "restart"} /\ att[h] = attempt + 1 /\ h \notin leaving
      /\ seq[h] = 0 /\ term[h] = None /\ werr[h] = None /\ att[h] \in Attempts
      /\ attempt \in Nat /\ leaving = {}
  BY DEF SoloWorkerInv, ExecutionInv, RunnerInv, ProgressInv, PositionInv, Engaged, RowType,
     SetsType, Attempts
<1>1. SuccessIsKept'
  BY SuccessKept DEF SuccessIsKept
<1>2. SoloStoreInv'
  BY <1>0 DEF SoloStoreInv, Attempts
<1>3. ASSUME NEW g \in Handlers PROVE SoloWorkerInv(g)'
  <2>1. g = h
    OBVIOUS
  <2>2. CASE pc'[h] = "done"
    BY <2>1, <2>2 DEF SoloWorkerInv, Started
  <2>3. CASE pc'[h] = "relay" /\ h \in leaving' /\ UNCHANGED <<row, att, term, werr>>
    <3> HIDE DEF StartAttempt
    <3> QED BY <1>0, <2>1, <2>3 DEF SoloWorkerInv, row
  <2>4. CASE /\ pc'[h] \in {"publish", "republish"} /\ attempt' = att[h] /\ committed' = 0
             /\ UNCHANGED <<frame, att, seq, term, werr>>
    <3> HIDE DEF StartAttempt
    <3>1. frame[<<att[h], 1>>] = None
      BY <1>0, BoundsAssumption DEF SoloStoreInv, Seqs
    <3>2. Slot(h)' = <<att[h], 1>>
      BY <1>0, <2>4 DEF Slot
    <3> QED BY <1>0, <2>1, <2>4, <3>1, <3>2 DEF SoloWorkerInv, None
  <2> QED BY <2>2, <2>3, <2>4
<1>4. ASSUME NEW b \in Actors PROVE SoloReconcilerInv(b)'
  <2>1. CASE UNCHANGED row
    BY <1>0, <2>1, SoloReconcilerKept DEF MayWrite, ExecutionInv, RunnerInv, Actors
  <2>2. CASE attempt' = att[h] /\ (b = h => pc'[h] \in {"publish", "republish"})
             /\ (b # h => pc'[b] = pc[b]) /\ UNCHANGED att
    <3> HIDE DEF StartAttempt
    <3>1. pc[b] \in Reconciling => att[b] <= attempt
      BY DEF ExecutionInv, RunnerInv, ReconcilerInv
    <3>2. att[b] \in Nat
      BY DEF TypeOK, RunnerType
    <3> QED BY <1>0, <2>2, <3>1, <3>2 DEF SoloReconcilerInv, Reconciling
  <2> QED BY <2>1, <2>2
<1> QED BY <1>1, <1>2, <1>3, <1>4

LEMMA PublishAttemptSolo ==
    ASSUME \A g, h \in Handlers : g = h, TypeOK, ExecutionInv, SoloInv, Permanent,
           NEW h \in Handlers, PublishAttempt(h)
    PROVE  SoloInv'
<1> h \in Actors
  BY DEF Actors
<1> USE DEF SoloInv, TypeOK, RunnerType, PublishAttempt, Goto, row, Fault,
    FinishRow, HoldsLease
<1>1. SuccessIsKept'
  <2>1. CASE status' = "failed" => status = "failed"
    BY <2>1, SuccessKept
  <2>2. CASE pc[h] = "publish" /\ HoldsLease(h) /\ UNCHANGED committed
    <3>1. committed = 0
      BY <2>2 DEF ExecutionInv, RunnerInv, HolderInv
    <3> QED BY <2>2, <3>1 DEF SuccessIsKept
  <2> QED BY <2>1, <2>2
<1>2. SoloStoreInv'
  BY SoloStoreKept
<1>3. ASSUME NEW g \in Handlers PROVE SoloWorkerInv(g)'
  <2>1. g = h /\ SoloWorkerInv(h) /\ ProgressInv(h) /\ pc[h] \in {"publish", "republish"}
    BY DEF ExecutionInv, RunnerInv
  <2>2. CASE pc'[h] = "done"
    BY <2>1, <2>2 DEF SoloWorkerInv, Started
  <2>3. CASE /\ pc'[h] = "relay" /\ leaving \subseteq leaving'
             /\ UNCHANGED <<row, frame, att, seq, term, werr>>
    <3> HIDE DEF PublishAttempt
    <3> QED BY <2>1, <2>3 DEF SoloWorkerInv, ProgressInv, MayWrite, Started, Slot, None, row
  <2> QED BY <2>2, <2>3
<1>4. ASSUME NEW b \in Actors PROVE SoloReconcilerInv(b)'
  BY <1>4, SoloReconcilerKept DEF MayWrite, Active, Final, ExecutionInv, RunnerInv,
      StoreInv, Actors, None
<1> QED BY <1>1, <1>2, <1>3, <1>4

LEMMA AppendSolo ==
    ASSUME \A g, h \in Handlers : g = h, TypeOK, ExecutionInv, SoloInv, Permanent,
           NEW h \in Handlers, NEW k \in FrameKinds,
           pc[h] = "relay", term[h] = None, werr[h] = None,
           Append(h, k), leaving \subseteq leaving',
           h \in leaving' => k = "error",
           UNCHANGED <<row, att, seq, term>>
    PROVE  SoloInv'
<1> USE DEF SoloInv, row, redis, Goto, TypeOK, RunnerType
<1> h \in Actors
  BY DEF Actors
<1>1. RunnerInv(h) /\ SoloWorkerInv(h) /\ MayWrite(h)
  BY DEF ExecutionInv, MayWrite
<1>2. Slot(h) = <<att[h], seq[h] + 1>> /\ att[h] \in Attempts /\ seq[h] + 1 \in Seqs
  BY <1>1, BoundsAssumption DEF RunnerInv, ProgressInv, PositionInv, Engaged, Started, Slot,
     Attempts, Seqs
<1>3. \/ frame[Slot(h)] = None /\ frame' = [frame EXCEPT ![Slot(h)] = k]
      \/ UNCHANGED frame
  BY DEF Append, AppendFrame
<1>4. ASSUME NEW t \in Slots, frame[t] # None PROVE frame'[t] = frame[t]
  BY <1>3, <1>4 DEF StoreType
<1>5. /\ \/ pc'[h] = "commit" /\ UNCHANGED werr
         \/ pc'[h] = "relay" /\ werr'[h] = "write"
      /\ \A g \in Actors : g # h => pc'[g] = pc[g]
      /\ UNCHANGED hand \/ hand' = [hand EXCEPT ![h] = k]
  BY DEF Append
<1>6. SuccessIsKept'
  BY SuccessKept
<1>7. SoloStoreInv'
  <2> SUFFICES ASSUME leaving' = {}, NEW n \in Attempts, NEW s \in Seqs, n > attempt
               PROVE  frame'[<<n, s>>] = None
    BY DEF SoloStoreInv
  <2>1. att[h] = attempt /\ frame[<<n, s>>] = None
    BY <1>1 DEF SoloWorkerInv, Started, SoloStoreInv
  <2>2. <<n, s>> # Slot(h)
    BY <1>2, <2>1 DEF Attempts
  <2> QED BY <1>3, <2>1, <2>2 DEF StoreType, Slots
<1>8. ASSUME NEW g \in Handlers PROVE SoloWorkerInv(g)'
  <2>1. g = h
    OBVIOUS
  <2>2. committed > 0 => frame'[<<attempt, committed>>] = frame[<<attempt, committed>>]
    BY DEF Permanent, RowType
  <2> QED BY <1>1, <1>5, <2>1, <2>2 DEF SoloWorkerInv, MayWrite, Started, None
<1>9. ASSUME NEW b \in Actors PROVE SoloReconcilerInv(b)'
  <2> SUFFICES ASSUME pc[b] \in {"r_own", "r_seal", "r_finish"}, pc'[b] = pc[b],
                      hand[b] = "failed", hand'[b] = hand[b], att[b] = attempt, status \in Active
               PROVE  /\ TerminalSeq(b) > 0 /\ frame'[<<attempt, TerminalSeq(b)>>] # "done"
                      /\ term[b] = "next" =>
                           \A g \in Handlers : att[g] = attempt => ~MayWrite(g)'
    BY <1>5 DEF SoloReconcilerInv, TerminalSeq
  <2>1. /\ SoloReconcilerInv(b) /\ PositionInv(b) /\ ReconcilerInv(b)
    BY DEF ExecutionInv, RunnerInv
  <2>2. ASSUME term[b] = "next" PROVE att[h] # attempt
    BY <1>1, <2>1, <2>2 DEF SoloReconcilerInv
  <2>3. ASSUME term[b] = "tail" PROVE TerminalSeq(b) \in 1..committed
    BY <2>1, <2>3 DEF SoloReconcilerInv, TerminalSeq, PositionInv, Engaged, Reconciling, RowType
  <2>4. term[b] \in {"tail", "next"}
    BY <2>1 DEF ReconcilerInv, Reconciling
  <2>5. TerminalSeq(b) > 0 /\ frame[<<attempt, TerminalSeq(b)>>] # "done"
    BY <2>1 DEF SoloReconcilerInv
  <2>6. frame'[<<attempt, TerminalSeq(b)>>] = frame[<<attempt, TerminalSeq(b)>>]
    <3>1. CASE term[b] = "tail"
      BY <2>3, <3>1 DEF Permanent
    <3>2. CASE term[b] = "next"
      <4>1. seq[b] + 1 \in Seqs /\ attempt \in Attempts /\ TerminalSeq(b) = seq[b] + 1
        BY <2>1, <3>2, BoundsAssumption DEF ReconcilerInv, Reconciling, PositionInv, Engaged, Seqs,
           Attempts, TerminalSeq
      <4>2. <<attempt, seq[b] + 1>> \in Slots /\ <<attempt, seq[b] + 1>> # Slot(h)
        BY <1>2, <2>2, <3>2, <4>1 DEF Slots
      <4> QED BY <1>3, <4>1, <4>2 DEF StoreType
    <3> QED BY <2>4, <3>1, <3>2
  <2>7. ASSUME term[b] = "next", NEW g \in Handlers, att[g] = attempt PROVE ~MayWrite(g)'
    BY <2>2, <2>7
  <2> QED BY <2>5, <2>6, <2>7
<1> QED BY <1>6, <1>7, <1>8, <1>9

LEMMA WriteFrameSolo ==
    ASSUME \A g, h \in Handlers : g = h, TypeOK, ExecutionInv, SoloInv, Permanent,
           NEW h \in Handlers, NEW k \in Upstream, WriteFrame(h, k)
    PROVE  SoloInv'
<1>1. k \in FrameKinds
  BY UpstreamAssumption DEF FrameKinds, Terminal
<1> QED BY <1>1, AppendSolo DEF WriteFrame

LEMMA WriteErrorSolo ==
    ASSUME \A g, h \in Handlers : g = h, TypeOK, ExecutionInv, SoloInv, Permanent,
           NEW h \in Handlers, WriteError(h)
    PROVE  SoloInv'
<1>1. "error" \in FrameKinds
  BY DEF FrameKinds, Terminal
<1> QED BY <1>1, AppendSolo DEF WriteError

LEMMA CommitFrameSolo ==
    ASSUME \A g, h \in Handlers : g = h, TypeOK, ExecutionInv, SoloInv, Permanent,
           NEW h \in Handlers, CommitFrame(h)
    PROVE  SoloInv'
<1> USE DEF SoloInv, row, redis, Goto, TypeOK, RunnerType
<1> h \in Actors
  BY DEF Actors
<1>1. /\ pc[h] = "commit" /\ RunnerInv(h) /\ SoloWorkerInv(h)
      /\ UNCHANGED <<redis, att, hand, leaving>>
      /\ \A g \in Actors : g # h => pc'[g] = pc[g] /\ seq'[g] = seq[g] /\ term'[g] = term[g]
  BY DEF CommitFrame, Accepted, ExecutionInv
<1>2. /\ term[h] = None /\ werr[h] = None /\ hand[h] \in FrameKinds
      /\ h \in leaving => hand[h] = "error"
      /\ hand[h] \notin Terminal => seq[h] + 1 < MaxFrames
      /\ seq[h] \in Nat /\ committed \in Nat /\ att[h] \in Attempts
      /\ status \in Active /\ att[h] = attempt => committed = seq[h]
      /\ status \in Active /\ att[h] = attempt /\ committed > 0
           => frame[<<attempt, committed>>] # "done"
      /\ att[h] = attempt \/ (att[h] = attempt + 1 /\ h \in leaving)
  BY <1>1 DEF RunnerInv, ProgressInv, PositionInv, SoloWorkerInv, Engaged, Started, None, RowType,
     Attempts
<1>3. UNCHANGED <<status, attempt, lockedBy, lease>>
  BY DEF CommitFrame, CommitSequence
<1>4. SuccessIsKept'
  <2>1. CASE status # "failed"
    BY <1>3, <2>1 DEF SuccessIsKept
  <2>2. CASE UNCHANGED committed
    BY <1>3, <2>2, SuccessKept
  <2> QED BY <2>1, <2>2 DEF CommitFrame, MayCommit, HoldsLease, Active
<1>5. SoloStoreInv'
  BY <1>1, <1>3, SoloStoreKept
<1>6. CASE MayCommit(h) /\ CommitSequence(h)
  <2>1. /\ committed' = committed + 1 /\ HoldsLease(h) /\ att[h] = attempt /\ committed = seq[h]
        /\ frame[<<attempt, committed + 1>>] = hand[h] /\ status \in Active
    BY <1>1, <1>6, CommitStore DEF MayCommit, HoldsLease
  <2>2. ASSUME NEW g \in Handlers PROVE SoloWorkerInv(g)'
    <3>1. g = h
      OBVIOUS
    <3>2. CASE Accepted(h)
      <4>1. /\ pc'[h] = "relay" /\ seq'[h] = committed + 1 /\ werr'[h] = None
            /\ term'[h] = IF hand[h] \in Terminal THEN hand[h] ELSE None
        BY <1>2, <2>1, <3>2 DEF Accepted
      <4>2. ASSUME term'[h] = None PROVE hand[h] # "done" /\ frame[Slot(h)'] = None
        <5>1. hand[h] \notin Terminal
          BY <4>1, <4>2 DEF Terminal, None
        <5>2. committed + 2 \in Seqs /\ committed + 2 > committed + 1 /\ attempt > 0
          BY <1>2, <2>1, <5>1, BoundsAssumption DEF Seqs, Attempts
        <5>3. frame[<<attempt, committed + 2>>] = None
          BY <5>2 DEF ExecutionInv, CommittedPrefix
        <5>4. Slot(h)' = <<attempt, committed + 2>>
          BY <1>1, <1>2, <2>1, <4>1 DEF Slot
        <5> QED BY <5>1, <5>3, <5>4 DEF Terminal
      <4> QED BY <1>1, <1>2, <1>3, <2>1, <3>1, <4>1, <4>2
           DEF SoloWorkerInv, MayWrite, Started, None
    <3>3. CASE pc'[h] = "relay" /\ werr'[h] = "uncertain" /\ UNCHANGED <<seq, term>>
      BY <1>1, <1>2, <1>3, <2>1, <3>1, <3>3 DEF SoloWorkerInv, MayWrite, Started, None
    <3> QED BY <1>6, <3>2, <3>3 DEF CommitFrame
  <2>3. ASSUME NEW b \in Actors PROVE SoloReconcilerInv(b)'
    <3>1. ~(pc[b] \in Reconciling /\ att[b] = attempt)
      BY <1>1, <2>1 DEF ExecutionInv, FenceInv, Started
    <3>2. pc'[b] \in {"r_own", "r_seal", "r_finish"} => pc'[b] = pc[b]
      BY <1>1 DEF CommitFrame, Accepted
    <3> QED BY <1>1, <1>3, <3>1, <3>2 DEF SoloReconcilerInv, Reconciling
  <2> QED BY <1>4, <1>5, <2>2, <2>3
<1>7. CASE /\ UNCHANGED committed
           /\ \/ /\ attempt = att[h] /\ committed > seq[h] /\ pc'[h] = "relay"
                 /\ werr'[h] = None
              \/ pc'[h] = "rollback" /\ UNCHANGED <<seq, term, werr>>
              \/ pc'[h] = "relay" /\ werr'[h] = "uncertain" /\ UNCHANGED <<seq, term>>
  <2>1. ASSUME NEW g \in Handlers PROVE SoloWorkerInv(g)'
    <3>1. g = h
      OBVIOUS
    <3> QED BY <1>1, <1>2, <1>3, <1>7, <3>1 DEF SoloWorkerInv, MayWrite, Started, None
  <2>2. ASSUME NEW b \in Actors PROVE SoloReconcilerInv(b)'
    <3>1. pc'[b] \in {"r_own", "r_seal", "r_finish"} => b # h
      BY <1>7
    <3>2. status \in Active => (att[h] = attempt => ~MayWrite(h)')
      BY <1>2, <1>3, <1>7 DEF MayWrite, None
    <3>3. PositionInv(b) /\ SoloReconcilerInv(b)
      BY DEF ExecutionInv, RunnerInv
    <3>4. pc'[b] \in {"r_own", "r_seal", "r_finish"} => TerminalSeq(b)' = TerminalSeq(b)
      BY <1>1, <3>1 DEF TerminalSeq
    <3> QED BY <1>1, <1>3, <3>1, <3>2, <3>3, <3>4 DEF SoloReconcilerInv
  <2> QED BY <1>4, <1>5, <2>1, <2>2
<1> QED BY <1>6, <1>7, <1>2 DEF CommitFrame, Accepted

LEMMA RollbackRejectedSolo ==
    ASSUME \A g, h \in Handlers : g = h, TypeOK, ExecutionInv, SoloInv, Permanent,
           NEW h \in Handlers, RollbackRejected(h)
    PROVE  SoloInv'
<1> h \in Actors
  BY DEF Actors
<1> USE DEF SoloInv, TypeOK, RunnerType, RollbackRejected, MayRollback,
    RollbackFrame, Fault, redis, Goto, row
<1>0. /\ pc[h] = "rollback" /\ pc'[h] = "relay" /\ werr'[h] \in {"attempt", "write"}
      /\ term[h] = None /\ werr[h] = None /\ UNCHANGED <<row, att, seq, hand, term, leaving>>
      /\ Slot(h) = <<att[h], seq[h] + 1>> /\ att[h] \in Attempts /\ seq[h] + 1 \in Seqs
      /\ \A g \in Actors : g # h => pc'[g] = pc[g]
      /\ UNCHANGED frame \/ frame' = [frame EXCEPT ![Slot(h)] = None]
  BY BoundsAssumption DEF ExecutionInv, RunnerInv, ProgressInv, PositionInv, Engaged, Started, Slot,
     Attempts, Seqs
<1>9. ASSUME NEW t \in Slots PROVE frame'[t] \in {frame[t], None}
  BY <1>0 DEF StoreType
<1>1. SuccessIsKept'
  BY SuccessKept
<1>2. SoloStoreInv'
  <2>1. ASSUME NEW n \in Attempts, NEW s \in Seqs PROVE frame'[<<n, s>>] \in {frame[<<n, s>>], None}
    BY <1>0 DEF StoreType, Slots
  <2> QED BY <1>0, <2>1 DEF SoloStoreInv
<1>3. ASSUME NEW g \in Handlers PROVE SoloWorkerInv(g)'
  <2>1. g = h
    OBVIOUS
  <2>2. committed > 0 => frame'[<<attempt, committed>>] = frame[<<attempt, committed>>]
    BY DEF Permanent, RowType
  <2> HIDE DEF RollbackRejected
  <2> QED BY <1>0, <2>1, <2>2 DEF SoloWorkerInv, MayWrite, Started, None
<1>4. ASSUME NEW b \in Actors PROVE SoloReconcilerInv(b)'
  <2>1. RunnerInv(b) /\ SoloReconcilerInv(b)
    BY DEF ExecutionInv
  <2>2. \A g \in Handlers : MayWrite(g)' => MayWrite(g)
    BY <1>0 DEF MayWrite, None
  <2>3. <<attempt, TerminalSeq(b)>> \in Slots =>
          frame'[<<attempt, TerminalSeq(b)>>] \in {frame[<<attempt, TerminalSeq(b)>>], None}
    BY <1>9
  <2>4. pc'[b] \in {"r_own", "r_seal", "r_finish"} => pc'[b] = pc[b]
    BY <1>0
  <2> HIDE DEF RollbackRejected
  <2> QED BY <1>0, <2>1, <2>2, <2>3, <2>4, SoloReconcilerKept
<1> QED BY <1>1, <1>2, <1>3, <1>4

LEMMA RetrySolo ==
    ASSUME \A g, h \in Handlers : g = h, TypeOK, ExecutionInv, SoloInv, Permanent,
           NEW h \in Handlers, Retry(h)
    PROVE  SoloInv'
<1> h \in Actors
  BY DEF Actors
<1> USE DEF SoloInv, TypeOK, RunnerType, Retry, MayRetry, Goto, row, redis, aux
<1>1. SuccessIsKept'
  BY SuccessKept
<1>2. SoloStoreInv'
  BY SoloStoreKept
<1>3. ASSUME NEW g \in Handlers PROVE SoloWorkerInv(g)'
  BY <1>3 DEF SoloWorkerInv, MayWrite, Started, ExecutionInv, RunnerInv,
      ProgressInv, HolderInv, PositionInv, Engaged, RowType, Active, None
<1>4. ASSUME NEW b \in Actors PROVE SoloReconcilerInv(b)'
  BY <1>4, SoloReconcilerKept DEF MayWrite, Active, Final, ExecutionInv, RunnerInv,
      StoreInv, Actors, None
<1> QED BY <1>1, <1>2, <1>3, <1>4

LEMMA FinishWorkerSolo ==
    ASSUME \A g, h \in Handlers : g = h, TypeOK, ExecutionInv, SoloInv, Permanent,
           NEW h \in Handlers, FinishWorker(h)
    PROVE  SoloInv'
<1> h \in Actors
  BY DEF Actors
<1> USE DEF SoloInv, TypeOK, RunnerType, FinishWorker, row, FinishRow, Fault, Goto,
    redis, writer, HoldsLease
<1>1. SuccessIsKept'
  <2>1. CASE status' = "failed" => status = "failed"
    BY <2>1, SuccessKept
  <2>2. CASE /\ HoldsLease(h) /\ attempt = att[h] /\ pc[h] = "relay"
             /\ term[h] # None \/ werr[h] # None
             /\ term[h] # "done" \/ werr[h] # None
             /\ werr[h] = "uncertain" => h \in leaving
             /\ UNCHANGED <<attempt, committed, frame>>
    <3> HIDE DEF FinishWorker, FinishRow
    <3>1. HolderInv(h) /\ SoloWorkerInv(h) /\ status \in Active /\ committed \in Nat
      BY <2>2 DEF ExecutionInv, RunnerInv, RowType, HoldsLease
    <3>2. committed > 0 => frame[<<attempt, committed>>] # "done"
      <4>1. CASE term[h] # None
        <5>1. term[h] # "done" /\ committed > 0 /\ frame[<<attempt, committed>>] = term[h]
          BY <2>2, <3>1, <4>1 DEF HolderInv, SoloWorkerInv
        <5> QED BY <5>1
      <4>2. CASE term[h] = None /\ werr[h] # "uncertain"
        BY <2>2, <3>1, <4>2 DEF HolderInv, Terminal
      <4>3. CASE term[h] = None /\ werr[h] = "uncertain"
        BY <2>2, <3>1, <4>3 DEF SoloWorkerInv, Started
      <4> QED BY <4>1, <4>2, <4>3
    <3> QED BY <2>2, <3>2 DEF SuccessIsKept
  <2> QED BY <2>1, <2>2
<1>2. SoloStoreInv'
  BY SoloStoreKept
<1>3. ASSUME NEW g \in Handlers PROVE SoloWorkerInv(g)'
  BY <1>3 DEF SoloWorkerInv, MayWrite, Started, ExecutionInv, RunnerInv,
      ProgressInv, HolderInv, PositionInv, Engaged, RowType, Active, None
<1>4. ASSUME NEW b \in Actors PROVE SoloReconcilerInv(b)'
  BY <1>4, SoloReconcilerKept DEF MayWrite, Active, Final, ExecutionInv, RunnerInv,
      StoreInv, Actors, None
<1> QED BY <1>1, <1>2, <1>3, <1>4

LEMMA HeartbeatSolo ==
    ASSUME \A g, h \in Handlers : g = h, TypeOK, ExecutionInv, SoloInv, Permanent,
           NEW h \in Handlers, Heartbeat(h)
    PROVE  SoloInv'
<1> h \in Actors
  BY DEF Actors
<1> USE DEF SoloInv, TypeOK, RunnerType, Heartbeat, Working, HoldsLease, Fault, row,
    redis
<1>1. SuccessIsKept'
  BY SuccessKept
<1>2. SoloStoreInv'
  BY SoloStoreKept
<1>3. ASSUME NEW g \in Handlers PROVE SoloWorkerInv(g)'
  BY SoloWorkerKept DEF Same, ExecutionInv, RunnerInv
<1>4. ASSUME NEW b \in Actors PROVE SoloReconcilerInv(b)'
  BY <1>4, SoloReconcilerKept DEF MayWrite, Active, Final, ExecutionInv, RunnerInv,
      StoreInv, Actors, None
<1> QED BY <1>1, <1>2, <1>3, <1>4

LEMMA FindRecoverableSolo ==
    ASSUME TypeOK, ExecutionInv, SoloInv, Permanent,
           NEW r \in Reconcilers, FindRecoverable(r)
    PROVE  SoloInv'
<1> r \in Actors
  BY DEF Actors
<1> USE DEF SoloInv, TypeOK, RunnerType, FindRecoverable, Recoverable, ReadClock,
    Goto, row, redis, aux
<1>1. SuccessIsKept'
  BY SuccessKept
<1>2. SoloStoreInv'
  BY SoloStoreKept
<1>3. ASSUME NEW g \in Handlers PROVE SoloWorkerInv(g)'
  <2>1. Same(g)
    BY ActorsAssumption DEF Same, Actors
  <2> QED BY <2>1, SoloWorkerKept DEF ExecutionInv, RunnerInv, Actors
<1>4. ASSUME NEW b \in Actors PROVE SoloReconcilerInv(b)'
  BY <1>4, SoloReconcilerKept DEF MayWrite, Active, Final, ExecutionInv, RunnerInv,
      StoreInv, Actors, None
<1> QED BY <1>1, <1>2, <1>3, <1>4

LEMMA ClaimExpiredSolo ==
    ASSUME TypeOK, ExecutionInv, SoloInv, Permanent,
           NEW a \in Actors, ClaimExpired(a)
    PROVE  SoloInv'
<1> USE DEF SoloInv, TypeOK, RunnerType, ClaimExpired, MayReconcile, Goto, End, row,
    redis, aux
<1>1. SuccessIsKept'
  BY SuccessKept
<1>2. SoloStoreInv'
  BY SoloStoreKept
<1>3. ASSUME NEW g \in Handlers PROVE SoloWorkerInv(g)'
  BY <1>3, SoloWorkerKept DEF Same, Active, Final, ExecutionInv, RunnerInv, Actors,
      Reconciling
<1>4. ASSUME NEW b \in Actors PROVE SoloReconcilerInv(b)'
  BY <1>4, SoloReconcilerKept DEF MayWrite, Active, Final, ExecutionInv, RunnerInv,
      StoreInv, Actors, None
<1> QED BY <1>1, <1>2, <1>3, <1>4

LEMMA ReadTailSolo ==
    ASSUME TypeOK, ExecutionInv, SoloInv, Permanent,
           NEW a \in Actors, ReadTail(a)
    PROVE  SoloInv'
<1> USE DEF SoloInv, TypeOK, RunnerType, ReadTail, CommittedTail, Goto, FinalOf,
    GiveUp, Fault, row, redis, End
<1>1. SuccessIsKept'
  BY SuccessKept
<1>2. SoloStoreInv'
  BY SoloStoreKept
<1>3. ASSUME NEW g \in Handlers PROVE SoloWorkerInv(g)'
  BY <1>3, SoloWorkerKept DEF Same, Active, Final, ExecutionInv, RunnerInv, Actors,
      Reconciling
<1>4. ASSUME NEW b \in Actors PROVE SoloReconcilerInv(b)'
  <2>1. CASE pc'[b] # "r_own" \/ pc[b] = "r_own"
    BY <2>1, <1>4, SoloReconcilerKept DEF MayWrite, ExecutionInv, RunnerInv, Actors
  <2>2. CASE /\ b = a /\ pc[a] = "r_tail" /\ CommittedTail(a) \in Terminal /\ term'[a] = "tail"
             /\ hand'[a] = FinalOf(CommittedTail(a)) /\ UNCHANGED <<row, redis, att, seq>>
    <3> HIDE DEF ReadTail
    <3>1. TerminalSeq(a)' = seq[a]
      BY <2>2 DEF TerminalSeq
    <3>2. seq[a] > 0 /\ hand'[a] = FinalOf(frame[<<att[a], seq[a]>>])
      BY <2>2 DEF Terminal, None
    <3> QED BY <2>2, <3>1, <3>2 DEF SoloReconcilerInv
  <2> QED BY <2>1, <2>2
<1> QED BY <1>1, <1>2, <1>3, <1>4

LEMMA ScanFrameSolo ==
    ASSUME TypeOK, ExecutionInv, SoloInv, Permanent,
           NEW a \in Actors, ScanFrame(a)
    PROVE  SoloInv'
<1> USE DEF SoloInv, TypeOK, RunnerType, ScanFrame, Goto, MaxTries, Conflict,
    FinalOf, Fault, GiveUp, row, redis, End
<1>1. SuccessIsKept'
  BY SuccessKept
<1>2. SoloStoreInv'
  BY SoloStoreKept
<1>3. ASSUME NEW g \in Handlers PROVE SoloWorkerInv(g)'
  BY <1>3, SoloWorkerKept DEF Same, Active, Final, ExecutionInv, RunnerInv, Actors,
      Reconciling
<1>4. ASSUME NEW b \in Actors PROVE SoloReconcilerInv(b)'
  <2>0. /\ pc[a] = "r_scan" /\ UNCHANGED <<row, redis, att, seq>>
        /\ \A g \in Actors : g # a => Same(g)
        /\ pc'[a] \in {"r_own", "r_append", "r_check", End(a)}
        /\ \/ pc'[a] # "r_own" \/ hand'[a] # "failed"
           \/ hand'[a] = FinalOf(frame[Slot(a)]) /\ term'[a] = "next" /\ frame[Slot(a)] \in Terminal
    BY DEF Same, Reconciling
  <2> HIDE DEF ScanFrame
  <2>1. \A g \in Handlers : MayWrite(g)' => MayWrite(g)
    BY <2>0 DEF MayWrite, Same, Reconciling, Actors
  <2>2. CASE b # a
    BY <2>0, <2>1, <2>2, SoloReconcilerKept DEF Same, ExecutionInv, Actors
  <2>3. CASE b = a
    <3> SUFFICES ASSUME pc'[a] \in {"r_own", "r_seal", "r_finish"}, hand'[a] = "failed",
                        att[a] = attempt, status \in Active
                 PROVE  /\ TerminalSeq(a)' > 0 /\ frame[<<attempt, TerminalSeq(a)'>>] # "done"
                        /\ \A g \in Handlers : att[g] = attempt => ~MayWrite(g)'
      BY <2>0, <2>3 DEF SoloReconcilerInv
    <3>1. term'[a] = "next" /\ frame[Slot(a)] = "error"
      BY <2>0 DEF Reconciling, Terminal
    <3>2. TerminalSeq(a)' = seq[a] + 1 /\ seq[a] \in Nat
      BY <2>0, <3>1 DEF TerminalSeq
    <3>3. committed = seq[a]
      BY <2>0 DEF ExecutionInv, RunnerInv, ReconcilerInv, Reconciling
    <3>4. ASSUME NEW g \in Handlers, att[g] = attempt, MayWrite(g) PROVE FALSE
      <4>1. pc[g] \in Started /\ werr[g] # "uncertain"
        BY <3>4 DEF MayWrite, Started, ExecutionInv, RunnerInv, ProgressInv, Actors, None
      <4>2. Slot(g) = Slot(a)
        BY <3>3, <3>4, <4>1 DEF SoloWorkerInv, Slot
      <4>3. frame[Slot(g)] \in {None, "unsafe"}
        BY <3>4, <4>1 DEF SoloWorkerInv
      <4> QED BY <3>1, <4>2, <4>3 DEF None
    <3> QED BY <2>1, <3>1, <3>2, <3>4 DEF Slot
  <2> QED BY <2>2, <2>3
<1> QED BY <1>1, <1>2, <1>3, <1>4

LEMMA CheckRollbackSolo ==
    ASSUME TypeOK, ExecutionInv, SoloInv, Permanent,
           NEW a \in Actors, CheckRollback(a)
    PROVE  SoloInv'
<1> USE DEF SoloInv, TypeOK, RunnerType, CheckRollback, OwnsReconciliation, Goto,
    End, Fault, row, redis, writer
<1>1. SuccessIsKept'
  BY SuccessKept
<1>2. SoloStoreInv'
  BY SoloStoreKept
<1>3. ASSUME NEW g \in Handlers PROVE SoloWorkerInv(g)'
  BY <1>3, SoloWorkerKept DEF Same, Active, Final, ExecutionInv, RunnerInv, Actors,
      Reconciling
<1>4. ASSUME NEW b \in Actors PROVE SoloReconcilerInv(b)'
  BY <1>4, SoloReconcilerKept DEF MayWrite, Active, Final, ExecutionInv, RunnerInv,
      StoreInv, Actors, None
<1> QED BY <1>1, <1>2, <1>3, <1>4

LEMMA RollbackUncommittedSolo ==
    ASSUME TypeOK, ExecutionInv, SoloInv, Permanent,
           NEW a \in Actors, RollbackUncommitted(a)
    PROVE  SoloInv'
<1> USE DEF SoloInv, TypeOK, RunnerType, RollbackUncommitted, MayRollback,
    RollbackFrame, redis, Goto, Fault, End, row, writer
<1>0. /\ pc[a] = "r_rollback" /\ pc'[a] \in {"r_scan", End(a)}
      /\ UNCHANGED <<row, writer>> /\ \A g \in Actors : g # a => pc'[g] = pc[g]
      /\ UNCHANGED frame \/ frame' = [frame EXCEPT ![Slot(a)] = None]
  OBVIOUS
<1>9. ASSUME NEW t \in Slots PROVE frame'[t] \in {frame[t], None}
  BY <1>0 DEF StoreType
<1>1. SuccessIsKept'
  BY SuccessKept
<1>2. SoloStoreInv'
  <2>1. ASSUME NEW n \in Attempts, NEW s \in Seqs PROVE frame'[<<n, s>>] \in {frame[<<n, s>>], None}
    BY <1>9 DEF Slots
  <2> QED BY <1>0, <2>1 DEF SoloStoreInv
<1>3. ASSUME NEW g \in Handlers PROVE SoloWorkerInv(g)'
  <2>1. Same(g) \/ pc'[g] \in {"done", "idle"} \cup Reconciling
    BY <1>0 DEF Same, Reconciling, Actors
  <2>2. RunnerInv(g) /\ (Slot(g) \in Slots => frame'[Slot(g)] \in {frame[Slot(g)], None})
    BY <1>9 DEF ExecutionInv, Actors
  <2> QED BY <1>0, <2>1, <2>2, SoloWorkerKept
<1>4. ASSUME NEW b \in Actors PROVE SoloReconcilerInv(b)'
  <2>1. /\ RunnerInv(b)
        /\ <<attempt, TerminalSeq(b)>> \in Slots =>
             frame'[<<attempt, TerminalSeq(b)>>] \in {frame[<<attempt, TerminalSeq(b)>>], None}
    BY <1>9 DEF ExecutionInv
  <2>2. \A g \in Handlers : MayWrite(g)' => MayWrite(g)
    BY <1>0 DEF MayWrite, Actors
  <2>3. pc'[b] \in {"r_own", "r_seal", "r_finish"} => pc'[b] = pc[b]
    BY <1>0
  <2> HIDE DEF RollbackUncommitted
  <2> QED BY <1>0, <2>1, <2>2, <2>3, SoloReconcilerKept
<1> QED BY <1>1, <1>2, <1>3, <1>4

LEMMA AppendUnsafeSolo ==
    ASSUME TypeOK, ExecutionInv, SoloInv, Permanent,
           NEW a \in Actors, AppendUnsafe(a)
    PROVE  SoloInv'
<1> USE DEF SoloInv, TypeOK, RunnerType, AppendUnsafe, AppendFrame, Goto, End,
    redis, Fault, row, writer
<1>0. /\ pc[a] = "r_append" /\ pc'[a] \in {"r_own", End(a)} /\ hand[a] = "unsafe"
      /\ UNCHANGED <<row, writer>> /\ \A g \in Actors : g # a => pc'[g] = pc[g]
      /\ UNCHANGED frame \/ frame' = [frame EXCEPT ![Slot(a)] = "unsafe"]
      /\ Slot(a) = <<att[a], seq[a] + 1>> /\ att[a] \in Nat /\ att[a] <= attempt
  <2>1. /\ pc[a] = "r_append" /\ pc'[a] \in {"r_own", End(a)}
        /\ UNCHANGED <<row, writer>> /\ \A g \in Actors : g # a => pc'[g] = pc[g]
        /\ UNCHANGED frame \/ frame' = [frame EXCEPT ![Slot(a)] = "unsafe"]
    OBVIOUS
  <2> HIDE DEF AppendUnsafe
  <2>2. hand[a] = "unsafe" /\ att[a] <= attempt
    BY <2>1 DEF ExecutionInv, RunnerInv, ReconcilerInv, Reconciling
  <2> QED BY <2>1, <2>2 DEF Slot
<1>9. ASSUME NEW t \in Slots PROVE frame'[t] \in {frame[t], "unsafe"}
  BY <1>0 DEF StoreType
<1>1. SuccessIsKept'
  BY SuccessKept
<1>2. SoloStoreInv'
  <2>1. ASSUME NEW n \in Attempts, NEW s \in Seqs, n > attempt PROVE frame'[<<n, s>>] = frame[<<n, s>>]
    <3>1. <<n, s>> # Slot(a) /\ <<n, s>> \in Slots
      BY <1>0, <2>1 DEF Attempts, RowType, Slots
    <3> QED BY <1>0, <3>1 DEF StoreType
  <2> QED BY <1>0, <2>1 DEF SoloStoreInv
<1>3. ASSUME NEW g \in Handlers PROVE SoloWorkerInv(g)'
  <2>1. Same(g) \/ pc'[g] \in {"done", "idle"} \cup Reconciling
    BY <1>0 DEF Same, Reconciling, Actors
  <2>2. RunnerInv(g) /\ (Slot(g) \in Slots => frame'[Slot(g)] \in {frame[Slot(g)], "unsafe"})
    BY <1>9 DEF ExecutionInv, Actors
  <2> QED BY <1>0, <2>1, <2>2, SoloWorkerKept
<1>4. ASSUME NEW b \in Actors PROVE SoloReconcilerInv(b)'
  <2>1. CASE b = a
    BY <1>0, <2>1 DEF SoloReconcilerInv
  <2>2. CASE b # a
    <3>1. /\ RunnerInv(b)
          /\ <<attempt, TerminalSeq(b)>> \in Slots =>
               frame'[<<attempt, TerminalSeq(b)>>] \in {frame[<<attempt, TerminalSeq(b)>>], "unsafe"}
      BY <1>9 DEF ExecutionInv
    <3>2. \A g \in Handlers : MayWrite(g)' => MayWrite(g)
      BY <1>0 DEF MayWrite, Actors
    <3> HIDE DEF AppendUnsafe
    <3> QED BY <1>0, <2>2, <3>1, <3>2, SoloReconcilerKept
  <2> QED BY <2>1, <2>2
<1> QED BY <1>1, <1>2, <1>3, <1>4

LEMMA CheckFinishSolo ==
    ASSUME TypeOK, ExecutionInv, SoloInv, Permanent,
           NEW a \in Actors, CheckFinish(a)
    PROVE  SoloInv'
<1> USE DEF SoloInv, TypeOK, RunnerType, CheckFinish, OwnsReconciliation, Goto, End,
    Fault, row, redis, writer
<1>1. SuccessIsKept'
  BY SuccessKept
<1>2. SoloStoreInv'
  BY SoloStoreKept
<1>3. ASSUME NEW g \in Handlers PROVE SoloWorkerInv(g)'
  BY <1>3, SoloWorkerKept DEF Same, Active, Final, ExecutionInv, RunnerInv, Actors,
      Reconciling
<1>4. ASSUME NEW b \in Actors PROVE SoloReconcilerInv(b)'
  BY <1>4, SoloReconcilerKept DEF MayWrite, Active, Final, ExecutionInv, RunnerInv,
      StoreInv, Actors, None
<1> QED BY <1>1, <1>2, <1>3, <1>4

LEMMA SealFrameSolo ==
    ASSUME TypeOK, ExecutionInv, SoloInv, Permanent,
           NEW a \in Actors, SealFrame(a)
    PROVE  SoloInv'
<1> USE DEF SoloInv, TypeOK, RunnerType, SealFrame, Goto, End, Fault, row, writer
<1>1. SuccessIsKept'
  BY SuccessKept
<1>2. SoloStoreInv'
  BY SoloStoreKept
<1>3. ASSUME NEW g \in Handlers PROVE SoloWorkerInv(g)'
  BY <1>3, SoloWorkerKept DEF Same, Active, Final, ExecutionInv, RunnerInv, Actors,
      Reconciling
<1>4. ASSUME NEW b \in Actors PROVE SoloReconcilerInv(b)'
  BY <1>4, SoloReconcilerKept DEF MayWrite, Active, Final, ExecutionInv, RunnerInv,
      StoreInv, Actors, None
<1> QED BY <1>1, <1>2, <1>3, <1>4

LEMMA FinishReconciliationSolo ==
    ASSUME TypeOK, ExecutionInv, SoloInv, Permanent,
           NEW a \in Actors, FinishReconciliation(a)
    PROVE  SoloInv'
<1> USE DEF SoloInv, TypeOK, RunnerType, FinishReconciliation, OwnsReconciliation,
    row, Fault, Goto, End, redis, writer
<1>0. /\ pc[a] = "r_finish" /\ pc'[a] = End(a) /\ UNCHANGED <<redis, writer, attempt>>
      /\ \A g \in Actors : g # a => pc'[g] = pc[g]
      /\ \/ UNCHANGED row
         \/ /\ status' = hand[a] /\ committed' = TerminalSeq(a) /\ status \in Active
            /\ att[a] = attempt /\ hand[a] \in Final
  BY DEF ExecutionInv, RunnerInv, ReconcilerInv, Reconciling, Active
<1>1. SuccessIsKept'
  BY <1>0, SuccessKept DEF SuccessIsKept, SoloReconcilerInv
<1>2. SoloStoreInv'
  BY SoloStoreKept
<1>3. ASSUME NEW g \in Handlers PROVE SoloWorkerInv(g)'
  <2>1. CASE UNCHANGED row
    BY <1>0, <2>1, SoloWorkerKept DEF Same, ExecutionInv, RunnerInv, Actors
  <2>2. CASE status' \notin Active
    BY <1>0, <2>2 DEF SoloWorkerInv, Started, Actors
  <2> QED BY <1>0, <2>1, <2>2 DEF Active, Final
<1>4. ASSUME NEW b \in Actors PROVE SoloReconcilerInv(b)'
  <2>1. CASE UNCHANGED row
    BY <1>0, <2>1, SoloReconcilerKept DEF MayWrite, ExecutionInv, RunnerInv, Actors
  <2>2. CASE status' \notin Active
    BY <2>2 DEF SoloReconcilerInv
  <2> QED BY <1>0, <2>1, <2>2 DEF Active, Final
<1> QED BY <1>1, <1>2, <1>3, <1>4

LEMMA CrashSolo ==
    ASSUME TypeOK, ExecutionInv, SoloInv, Permanent,
           NEW a \in Actors, Crash(a)
    PROVE  SoloInv'
<1> USE DEF SoloInv, TypeOK, RunnerType, Crash, Fault, Goto, row, redis, writer
<1>1. SuccessIsKept'
  BY SuccessKept
<1>2. SoloStoreInv'
  BY SoloStoreKept
<1>3. ASSUME NEW g \in Handlers PROVE SoloWorkerInv(g)'
  BY <1>3, SoloWorkerKept DEF Same, Active, Final, ExecutionInv, RunnerInv, Actors,
      Reconciling
<1>4. ASSUME NEW b \in Actors PROVE SoloReconcilerInv(b)'
  BY <1>4, SoloReconcilerKept DEF MayWrite, Active, Final, ExecutionInv, RunnerInv,
      StoreInv, Actors, None
<1> QED BY <1>1, <1>2, <1>3, <1>4

LEMMA CancelSolo ==
    ASSUME TypeOK, ExecutionInv, SoloInv, Permanent,
           Cancel
    PROVE  SoloInv'
<1> USE DEF SoloInv, TypeOK, RunnerType, Cancel, redis, runner, aux
<1>1. SuccessIsKept'
  BY SuccessKept
<1>2. SoloStoreInv'
  BY SoloStoreKept
<1>3. ASSUME NEW g \in Handlers PROVE SoloWorkerInv(g)'
  BY <1>3, SoloWorkerKept DEF Same, Active, Final, ExecutionInv, RunnerInv, Actors,
      Reconciling
<1>4. ASSUME NEW b \in Actors PROVE SoloReconcilerInv(b)'
  BY <1>4, SoloReconcilerKept DEF MayWrite, Active, Final, ExecutionInv, RunnerInv,
      StoreInv, Actors, None
<1> QED BY <1>1, <1>2, <1>3, <1>4

LEMMA ExpireLeaseSolo ==
    ASSUME TypeOK, ExecutionInv, SoloInv, Permanent,
           ExpireLease
    PROVE  SoloInv'
<1> USE DEF SoloInv, TypeOK, RunnerType, ExpireLease, redis, runner, aux
<1>1. SuccessIsKept'
  BY SuccessKept
<1>2. SoloStoreInv'
  BY SoloStoreKept
<1>3. ASSUME NEW g \in Handlers PROVE SoloWorkerInv(g)'
  BY <1>3, SoloWorkerKept DEF Same, Active, Final, ExecutionInv, RunnerInv, Actors,
      Reconciling
<1>4. ASSUME NEW b \in Actors PROVE SoloReconcilerInv(b)'
  BY <1>4, SoloReconcilerKept DEF MayWrite, Active, Final, ExecutionInv, RunnerInv,
      StoreInv, Actors, None
<1> QED BY <1>1, <1>2, <1>3, <1>4

LEMMA DeleteExpiredSolo ==
    ASSUME TypeOK, ExecutionInv, SoloInv, Permanent,
           DeleteExpired
    PROVE  SoloInv'
<1> USE DEF SoloInv, TypeOK, RunnerType, DeleteExpired, redis, runner, aux
<1>1. SuccessIsKept'
  BY SuccessKept
<1>2. SoloStoreInv'
  BY SoloStoreKept
<1>3. ASSUME NEW g \in Handlers PROVE SoloWorkerInv(g)'
  BY <1>3, SoloWorkerKept DEF Same, Active, Final, ExecutionInv, RunnerInv, Actors,
      Reconciling
<1>4. ASSUME NEW b \in Actors PROVE SoloReconcilerInv(b)'
  BY <1>4, SoloReconcilerKept DEF MayWrite, Active, Final, ExecutionInv, RunnerInv,
      StoreInv, Actors, None
<1> QED BY <1>1, <1>2, <1>3, <1>4

LEMMA SoloStep ==
    ASSUME \A g, h \in Handlers : g = h, TypeOK, ExecutionInv, SoloInv, [Next]_vars
    PROVE  SoloInv'
<1> Permanent
  BY PermanentStep
<1>1. CASE \E h \in Handlers : Lookup(h) \/ Worker(h) \/ Heartbeat(h)
  <2> PICK h \in Handlers : Lookup(h) \/ Worker(h) \/ Heartbeat(h)
    BY <1>1
  <2>1. CASE \/ Lookup(h) \/ Heartbeat(h) \/ Ensure(h) \/ Claim(h) \/ SaveRequest(h)
             \/ StartAttempt(h)
    BY <2>1, LookupSolo, HeartbeatSolo, EnsureSolo, ClaimSolo, SaveRequestSolo, StartAttemptSolo
  <2>2. CASE PublishAttempt(h) \/ WriteError(h) \/ CommitFrame(h) \/ RollbackRejected(h)
    BY <2>2, PublishAttemptSolo, WriteErrorSolo, CommitFrameSolo, RollbackRejectedSolo
  <2>3. CASE Retry(h) \/ FinishWorker(h)
    BY <2>3, RetrySolo, FinishWorkerSolo
  <2>4. CASE \E k \in Upstream : WriteFrame(h, k)
    BY <2>4, WriteFrameSolo
  <2> QED BY <2>1, <2>2, <2>3, <2>4 DEF Worker
<1>2. CASE \E r \in Reconcilers : FindRecoverable(r)
  BY <1>2, FindRecoverableSolo
<1>3. CASE \E a \in Actors : Reconcile(a) \/ Crash(a)
  <2> PICK a \in Actors : Reconcile(a) \/ Crash(a)
    BY <1>3
  <2>1. CASE \/ ClaimExpired(a) \/ ReadTail(a) \/ ScanFrame(a) \/ CheckRollback(a)
             \/ RollbackUncommitted(a)
    BY <2>1, ClaimExpiredSolo, ReadTailSolo, ScanFrameSolo, CheckRollbackSolo,
       RollbackUncommittedSolo
  <2>2. CASE \/ AppendUnsafe(a) \/ CheckFinish(a) \/ SealFrame(a) \/ FinishReconciliation(a)
             \/ Crash(a)
    BY <2>2, AppendUnsafeSolo, CheckFinishSolo, SealFrameSolo, FinishReconciliationSolo, CrashSolo
  <2> QED BY <2>1, <2>2 DEF Reconcile
<1>4. CASE Cancel \/ ExpireLease \/ DeleteExpired
  BY <1>4, CancelSolo, ExpireLeaseSolo, DeleteExpiredSolo
<1>5. CASE UNCHANGED vars
  <2> USE DEF vars, row, redis, runner, aux, SoloInv
  <2>1. SuccessIsKept' /\ SoloStoreInv'
    BY <1>5, SuccessKept, SoloStoreKept
  <2>2. ASSUME NEW h \in Handlers PROVE SoloWorkerInv(h)'
    BY <1>5, SoloWorkerKept DEF Same, ExecutionInv, Actors
  <2>3. ASSUME NEW b \in Actors PROVE SoloReconcilerInv(b)'
    BY <1>5, SoloReconcilerKept DEF ExecutionInv, MayWrite
  <2> QED BY <2>1, <2>2, <2>3
<1> QED BY <1>1, <1>2, <1>3, <1>4, <1>5 DEF Next

LEMMA SoloInvariant ==
    ASSUME \A g, h \in Handlers : g = h
    PROVE  Spec => []SoloInv
<1>1. Init => SoloInv
  <2> SUFFICES ASSUME Init PROVE SoloInv
    OBVIOUS
  <2>1. SuccessIsKept /\ SoloStoreInv
    BY DEF Init, SuccessIsKept, SoloStoreInv, Slots
  <2>2. ASSUME NEW h \in Handlers PROVE SoloWorkerInv(h)
    BY DEF Init, SoloWorkerInv, MayWrite, Started, Actors
  <2>3. ASSUME NEW b \in Actors PROVE SoloReconcilerInv(b)
    BY DEF Init, SoloReconcilerInv
  <2> QED BY <2>1, <2>2, <2>3 DEF SoloInv
<1>2. TypeOK /\ ExecutionInv /\ SoloInv /\ [Next]_vars => SoloInv'
  BY SoloStep
<1> QED BY <1>1, <1>2, ExecutionInvariant, PTL DEF Spec

\* A single request's execution is never reported failed once its success event
\* is committed, whoever reports it (runStreamRecoveryWorker after a lost commit
\* answer, reconcileExpiredStreamExecution from the tail or the frame after it).
THEOREM SuccessTheorem ==
    ASSUME \A g, h \in Handlers : g = h
    PROVE  Spec => []SuccessIsKept
<1>1. SoloInv => SuccessIsKept
  BY DEF SoloInv
<1> QED BY <1>1, SoloInvariant, PTL
=============================================================================
