------------------------ MODULE StreamReplay_proofs ------------------------
(***************************************************************************)
(* Proofs about StreamReplay, on top of those about StreamExecution: a     *)
(* subscriber's steps leave the execution alone, so its invariants hold    *)
(* here too, and of the execution's steps replay needs to know only that   *)
(* attempts and committed sequences grow.                                  *)
(***************************************************************************)
EXTENDS StreamReplay, StreamExecution_proofs

-----------------------------------------------------------------------------
(* The execution under replay.                                             *)

LEMMA StepIsExecution ==
    ASSUME [ReplayNext]_rvars PROVE [Next]_vars
BY DEF ReplayNext, rvars, Subscriber, Connect, WaitFrames, Deliver

LEMMA ReplayRefinesExecution == ReplaySpec => Spec
<1>1. ReplayInit => Init
  BY DEF ReplayInit
<1>2. [ReplayNext]_rvars => [Next]_vars
  BY StepIsExecution
<1> QED BY <1>1, <1>2, PTL DEF ReplaySpec, Spec

\* The row's attempt stays and nobody comes to publish one.
LEMMA PublishedKept ==
    ASSUME TypeOK, PublishedInv, UNCHANGED <<attempt, published>>,
           \A h \in Handlers : pc'[h] \in {"publish", "republish"} =>
                                 pc'[h] = pc[h] /\ att'[h] = att[h]
    PROVE  PublishedInv' /\ attempt' >= attempt
BY DEF PublishedInv, TypeOK, RowType

\* Attempts are started before they are published, and only grow.
LEMMA PublishedStep ==
    ASSUME TypeOK, PublishedInv, [Next]_vars
    PROVE  PublishedInv' /\ attempt' >= attempt
<1> USE DEF row, redis, runner, writer, Goto, TypeOK, RunnerType, Actors
<1>1. CASE \E h \in Handlers : Lookup(h) \/ Worker(h) \/ Heartbeat(h)
  <2> PICK h \in Handlers : Lookup(h) \/ Worker(h) \/ Heartbeat(h)
    BY <1>1
  <2>1. CASE Lookup(h) \/ Heartbeat(h) \/ Ensure(h) \/ Claim(h) \/ Retry(h) \/ FinishWorker(h)
    BY <2>1, PublishedKept DEF Lookup, Heartbeat, Ensure, Claim, Retry, FinishWorker, FinishRow
  <2>2. CASE SaveRequest(h) \/ CommitFrame(h) \/ RollbackRejected(h)
    BY <2>2, PublishedKept DEF SaveRequest, FinishRow, CommitFrame, CommitSequence, Accepted,
       RollbackRejected, RollbackFrame
  <2>3. CASE WriteError(h) \/ \E k \in Upstream : WriteFrame(h, k)
    BY <2>3, PublishedKept DEF WriteError, WriteFrame, Append, AppendFrame
  <2>4. CASE StartAttempt(h)
    <3>1. CASE UNCHANGED row /\ pc'[h] \in {"done", "relay"}
      BY <2>4, <3>1, PublishedKept DEF StartAttempt
    <3>2. CASE /\ attempt' = att[h] /\ MayStartAttempt(h) /\ UNCHANGED <<published, att>>
               /\ \A g \in Handlers : g # h => pc'[g] = pc[g]
      <4>1. attempt' >= attempt /\ attempt \in Nat /\ attempt' \in Nat /\ published \in Nat
        BY <3>2 DEF MayStartAttempt, RowType, StoreType
      <4>2. \A g \in Handlers : att[g] \in Nat
        OBVIOUS
      <4> QED BY <3>2, <4>1, <4>2 DEF PublishedInv
    <3> QED BY <2>4, <3>1, <3>2 DEF StartAttempt
  <2>5. CASE PublishAttempt(h)
    <3>1. CASE UNCHANGED published
      BY <2>5, <3>1, PublishedKept DEF PublishAttempt, FinishRow
    <3>2. CASE pc[h] \in {"publish", "republish"} /\ published' = att[h] /\ UNCHANGED row
      BY <2>5, <3>2 DEF PublishAttempt, PublishedInv, RowType
    <3> QED BY <2>5, <3>1, <3>2 DEF PublishAttempt
  <2> QED BY <2>1, <2>2, <2>3, <2>4, <2>5 DEF Worker
<1>2. CASE \E r \in Reconcilers : FindRecoverable(r)
  BY <1>2, PublishedKept DEF FindRecoverable
<1>3. CASE \E a \in Actors : Reconcile(a) \/ Crash(a)
  BY <1>3, PublishedKept DEF Reconcile, Crash, ClaimExpired, ReadTail, GiveUp, ScanFrame,
     CheckRollback, RollbackUncommitted, RollbackFrame, AppendUnsafe, AppendFrame, CheckFinish,
     SealFrame, FinishReconciliation, End
<1>4. CASE Cancel \/ ExpireLease \/ DeleteExpired
  BY <1>4, PublishedKept DEF Cancel, ExpireLease, DeleteExpired
<1>5. CASE UNCHANGED vars
  BY <1>5, PublishedKept DEF vars
<1> QED BY <1>1, <1>2, <1>3, <1>4, <1>5 DEF Next

-----------------------------------------------------------------------------
(* The types of a connection.                                              *)

LEMMA ReplayTypeInit == ReplayInit => ReplayTypeOK
BY BoundsAssumption DEF ReplayInit, ReplayTypeOK, NoFrames, None, FrameKinds

\* Places of the subscriber's attempt.
LEMMA ReadSlots ==
    ASSUME ReplayTypeOK, NEW c \in Clients, catt[c] > 0, NEW s \in Seqs
    PROVE  <<catt[c], s>> \in Slots
BY DEF ReplayTypeOK, Slots, Attempts

LEMMA ResumeType ==
    ASSUME ReplayTypeOK, NEW c \in Clients, NEW a
    PROVE  ResumeSequence(c, a) \in 0..MaxFrames
BY BoundsAssumption DEF ReplayTypeOK, ResumeSequence

LEMMA ReplayTypeStep ==
    ASSUME TypeOK, PublishedInv, ReplayTypeOK, \A c \in Clients : SubscriberInv(c),
           [ReplayNext]_rvars
    PROVE  ReplayTypeOK'
<1> USE DEF ReplayTypeOK
<1>1. CASE UNCHANGED sub
  BY <1>1 DEF sub
<1>2. ASSUME NEW c \in Clients, Connect(c) PROVE ReplayTypeOK'
  <2>1. \A a \in PublicAttempts : a \in 0..AttemptBound
    BY DEF PublicAttempts, TypeOK, RowType, StoreType
  <2>2. catt' \in [Clients -> 0..AttemptBound]
    BY <1>2, <2>1 DEF Connect
  <2>3. cseq' \in [Clients -> 0..MaxFrames]
    BY <1>2, ResumeType DEF Connect
  <2> QED BY <1>2, <2>2, <2>3 DEF Connect, Ends
<1>3. ASSUME NEW c \in Clients, WaitFrames(c) PROVE ReplayTypeOK'
  <2>1. \A s \in Seqs : frame[<<catt[c], s>>] \in FrameKinds \cup {None}
    BY <1>3, ReadSlots DEF WaitFrames, SubscriberInv, TypeOK, StoreType
  <2>2. [s \in Seqs |-> IF s > cseq[c] THEN frame[<<catt[c], s>>] ELSE None]
          \in [Seqs -> FrameKinds \cup {None}]
    BY <2>1
  <2> QED BY <1>3, <2>2 DEF WaitFrames
<1>4. ASSUME NEW c \in Clients, Deliver(c) PROVE ReplayTypeOK'
  <2>1. got' \in [Clients -> [Seqs -> FrameKinds \cup {None}]]
    BY <1>4 DEF Deliver, NoFrames
  <2>2. CASE status = "deleted" \/ attempt # catt[c]
    <3>1. cseq' \in [Clients -> 0..MaxFrames]
      BY <1>4, <2>2, ResumeType DEF Deliver
    <3>2. catt' \in [Clients -> 0..AttemptBound]
      BY <1>4, <2>2 DEF Deliver, TypeOK, RowType
    <3>3. cpc' \in [Clients -> {"closed", "wait", "read"} \cup Ends]
      BY <1>4, <2>2 DEF Deliver, Ends
    <3> QED BY <1>4, <2>1, <2>2, <3>1, <3>2, <3>3 DEF Deliver
  <2>3. CASE Forward(c) /\ UNCHANGED catt
    <3> PICK last \in {cseq[c]} \cup Deliverable(c) :
          /\ cseq' = [cseq EXCEPT ![c] = last]
          /\ out' = [out EXCEPT ![c] =
                       [t \in Slots |-> IF t[1] = catt[c] /\ t[2] \in cseq[c] + 1..last
                                        THEN got[c][t[2]] ELSE out[c][t]]]
          /\ seen' \in {seen, seen \cup {c}}
          /\ cpc' = [cpc EXCEPT ![c] = AfterDelivery(c, last)]
      BY <2>3 DEF Forward
    <3>1. last \in 0..MaxFrames
      BY DEF Deliverable, Seqs
    <3>2. AfterDelivery(c, last) \in {"wait"} \cup Ends
      BY DEF AfterDelivery, Ends
    <3>3. [t \in Slots |-> IF t[1] = catt[c] /\ t[2] \in cseq[c] + 1..last
                           THEN got[c][t[2]] ELSE out[c][t]] \in [Slots -> FrameKinds \cup {None}]
      BY DEF Slots
    <3> QED BY <2>1, <2>3, <3>1, <3>2, <3>3
  <2> QED BY <1>4, <2>2, <2>3 DEF Deliver
<1> QED BY <1>1, <1>2, <1>3, <1>4 DEF ReplayNext, rvars, Subscriber

-----------------------------------------------------------------------------
(* No gaps.                                                                *)

LEMMA CommittedGrows ==
    ASSUME TypeOK, TypeOK', Permanent, attempt' = attempt PROVE committed' >= committed
<1>1. CASE committed = 0
  BY <1>1 DEF TypeOK, RowType
<1>2. CASE committed > 0
  <2>1. committed \in 1..committed
    BY <1>2 DEF TypeOK, RowType
  <2> QED BY <2>1 DEF Permanent
<1> QED BY <1>1, <1>2 DEF TypeOK, RowType

\* Another client's step, and a step of the execution.
LEMMA SubscriberKept ==
    ASSUME TypeOK, TypeOK', ReplayTypeOK, NEW c \in Clients, SubscriberInv(c), attempt' >= attempt,
           cpc'[c] = cpc[c], catt'[c] = catt[c], cseq'[c] = cseq[c], got'[c] = got[c],
           out'[c] = out[c]
    PROVE  SubscriberInv(c)'
<1>1. /\ attempt \in Nat /\ attempt' \in Nat /\ catt[c] \in Nat
      /\ \A t \in Slots : t[1] \in Nat
  BY DEF TypeOK, RowType, ReplayTypeOK, Slots, Attempts
<1>2. catt[c] <= attempt' /\ (catt[c] = attempt' => attempt' = attempt)
  BY <1>1 DEF SubscriberInv
<1>3. \A t \in Slots : out'[c][t] # None => t[1] <= attempt'
  BY <1>1 DEF SubscriberInv
<1> QED BY <1>2, <1>3 DEF SubscriberInv

LEMMA ExecutionGapFree ==
    ASSUME TypeOK, TypeOK', ReplayTypeOK, ReplayInv, Permanent, attempt' >= attempt, UNCHANGED sub
    PROVE  GapFree' /\ \A c \in Clients : SubscriberInv(c)'
<1>1. \A c \in Clients : SubscriberInv(c)'
  BY SubscriberKept DEF ReplayInv, sub
<1>2. ASSUME NEW c \in Clients, NEW t \in Slots, out[c][t] # None, t[1] = attempt'
      PROVE  t[2] <= committed'
  <2>1. t[1] <= attempt /\ attempt \in Nat /\ attempt' \in Nat
    BY <1>2 DEF ReplayInv, SubscriberInv, TypeOK, RowType
  <2>2. attempt' = attempt
    BY <1>2, <2>1
  <2>3. t[2] <= committed /\ committed <= committed' /\ t[2] \in Nat
    BY <1>2, <2>2, CommittedGrows DEF ReplayInv, GapFree, Slots, Seqs
  <2> QED BY <2>3 DEF TypeOK, RowType
<1> QED BY <1>1, <1>2 DEF ReplayInv, GapFree, sub

LEMMA ConnectGapFree ==
    ASSUME TypeOK, ReplayTypeOK, ReplayInv, NEW c \in Clients, Connect(c)
    PROVE  GapFree' /\ \A d \in Clients : SubscriberInv(d)'
<1> USE DEF ReplayInv
<1>1. UNCHANGED <<vars, got, out>>
  BY DEF Connect
<1>2. GapFree'
  BY <1>1 DEF GapFree, vars, row
<1>3. ASSUME NEW d \in Clients, d # c PROVE SubscriberInv(d)'
  BY <1>1, <1>3 DEF Connect, ReplayTypeOK, SubscriberInv, vars, row
<1>4. SubscriberInv(c)'
  <2>1. cpc[c] # "terminal" /\ cpc'[c] \in {"wait", "refused"}
    BY DEF Connect, ReplayTypeOK
  <2>2. \/ catt'[c] = catt[c] /\ cseq'[c] = cseq[c]
        \/ cseq'[c] = 0
    BY DEF Connect, ReplayTypeOK, ResumeSequence
  <2>3. /\ catt'[c] <= attempt
        /\ cpc'[c] = "wait" => catt'[c] > 0
    <3>1. \A a \in PublicAttempts : a <= attempt /\ a > 0
      BY DEF PublicAttempts, PublishedInv, TypeOK, RowType, StoreType
    <3> QED BY <3>1 DEF Connect, ReplayTypeOK, SubscriberInv
  <2>4. \A s \in 1..cseq'[c] : out[c][<<catt'[c], s>>] \in FrameKinds \ Terminal
    BY <2>1, <2>2 DEF SubscriberInv
  <2> QED BY <1>1, <2>1, <2>3, <2>4 DEF SubscriberInv, vars, row
<1> QED BY <1>2, <1>3, <1>4

LEMMA WaitFramesGapFree ==
    ASSUME TypeOK, CommittedPrefix, ReplayTypeOK, ReplayInv, NEW c \in Clients, WaitFrames(c)
    PROVE  GapFree' /\ \A d \in Clients : SubscriberInv(d)'
<1> USE DEF ReplayInv
<1>1. UNCHANGED <<vars, catt, cseq, out>>
  BY DEF WaitFrames
<1>2. GapFree'
  BY <1>1 DEF GapFree, vars, row
<1>3. ASSUME NEW d \in Clients, d # c PROVE SubscriberInv(d)'
  BY <1>1, <1>3 DEF WaitFrames, ReplayTypeOK, SubscriberInv, vars, row
<1>4. ASSUME catt[c] = attempt, NEW s \in Seqs, s + 1 \in Seqs,
             out[c][<<attempt, s + 1>>] # None
      PROVE  got'[c][s] \notin Terminal
  <2>1. <<attempt, s + 1>> \in Slots
    BY <1>4, ReadSlots DEF WaitFrames, SubscriberInv
  <2>2. s + 1 <= committed
    BY <1>4, <2>1 DEF GapFree
  <2>3. frame[<<attempt, s>>] \notin Terminal
    BY <2>2 DEF CommittedPrefix, Seqs, TypeOK, RowType
  <2> QED BY <1>4, <2>3 DEF WaitFrames, ReplayTypeOK, Terminal, None
<1>5. SubscriberInv(c)'
  BY <1>1, <1>4 DEF WaitFrames, ReplayTypeOK, SubscriberInv, vars, row
<1> QED BY <1>2, <1>3, <1>5

\* What Forward sends, and what it leaves.
LEMMA ForwardOut ==
    ASSUME ReplayTypeOK, NEW c \in Clients, Forward(c)
    PROVE  \E last \in 0..MaxFrames :
             /\ last >= cseq[c] /\ cseq'[c] = last
             /\ last = cseq[c] \/ last \in Deliverable(c)
             /\ cpc'[c] = AfterDelivery(c, last)
             /\ \A t \in Slots : out'[c][t] =
                  IF t[1] = catt[c] /\ t[2] \in cseq[c] + 1..last THEN got[c][t[2]] ELSE out[c][t]
             /\ \A d \in Clients : d # c =>
                  cpc'[d] = cpc[d] /\ cseq'[d] = cseq[d] /\ out'[d] = out[d]
<1> PICK last \in {cseq[c]} \cup Deliverable(c) :
      /\ \A n \in {cseq[c]} \cup Deliverable(c) : n <= last
      /\ cseq' = [cseq EXCEPT ![c] = last]
      /\ out' = [out EXCEPT ![c] =
                   [t \in Slots |-> IF t[1] = catt[c] /\ t[2] \in cseq[c] + 1..last
                                    THEN got[c][t[2]] ELSE out[c][t]]]
      /\ cpc' = [cpc EXCEPT ![c] = AfterDelivery(c, last)]
  BY DEF Forward
<1>1. last \in 0..MaxFrames /\ last >= cseq[c]
  BY DEF ReplayTypeOK, Deliverable, Seqs
<1>2. \A t \in Slots : out'[c][t] =
        IF t[1] = catt[c] /\ t[2] \in cseq[c] + 1..last THEN got[c][t[2]] ELSE out[c][t]
  BY DEF ReplayTypeOK
<1>3. cseq'[c] = last /\ cpc'[c] = AfterDelivery(c, last)
  BY DEF ReplayTypeOK
<1>4. \A d \in Clients : d # c =>
        cpc'[d] = cpc[d] /\ cseq'[d] = cseq[d] /\ out'[d] = out[d]
  BY DEF ReplayTypeOK
<1> QED BY <1>1, <1>2, <1>3, <1>4

LEMMA ForwardGapFree ==
    ASSUME TypeOK, ReplayTypeOK, ReplayTypeOK', ReplayInv, NEW c \in Clients, cpc[c] = "read",
           attempt = catt[c], Forward(c), got'[c] = NoFrames,
           \A d \in Clients : d # c => got'[d] = got[d], UNCHANGED <<vars, catt>>
    PROVE  GapFree' /\ \A d \in Clients : SubscriberInv(d)'
<1> USE DEF ReplayInv
<1> PICK last \in 0..MaxFrames :
      /\ last >= cseq[c] /\ cseq'[c] = last
      /\ last = cseq[c] \/ last \in Deliverable(c)
      /\ cpc'[c] = AfterDelivery(c, last)
      /\ \A t \in Slots : out'[c][t] =
           IF t[1] = catt[c] /\ t[2] \in cseq[c] + 1..last THEN got[c][t[2]] ELSE out[c][t]
      /\ \A d \in Clients : d # c =>
           cpc'[d] = cpc[d] /\ cseq'[d] = cseq[d] /\ out'[d] = out[d]
  BY ForwardOut
<1>1. /\ cseq[c] \in Nat /\ committed \in Nat /\ attempt \in Attempts
      /\ UNCHANGED <<attempt, committed>>
  BY DEF ReplayTypeOK, TypeOK, RowType, SubscriberInv, vars, row, Attempts
<1>2. \A s \in cseq[c] + 1..last : /\ s <= committed /\ got[c][s] \in FrameKinds
                                   /\ s < last => got[c][s] \notin Terminal
  <2> TAKE s \in cseq[c] + 1..last
  <2>1. s \in Seqs /\ s \in Nat /\ last \in Deliverable(c)
    BY <1>1, BoundsAssumption DEF Seqs
  <2>2. last <= committed /\ got[c][s] # None /\ (s < last => got[c][s] \notin Terminal)
    BY <2>1 DEF Deliverable
  <2>3. got[c][s] \in FrameKinds \cup {None}
    BY <2>1 DEF ReplayTypeOK
  <2> QED BY <1>1, <2>1, <2>2, <2>3
<1>3. \A s \in 1..cseq[c] : out'[c][<<attempt, s>>] = out[c][<<attempt, s>>]
                            /\ out[c][<<attempt, s>>] \in FrameKinds \ Terminal
  <2> TAKE s \in 1..cseq[c]
  <2>1. <<attempt, s>> \in Slots /\ s \notin cseq[c] + 1..last
    BY <1>1, BoundsAssumption DEF ReplayTypeOK, Slots, Seqs
  <2> QED BY <1>1, <2>1 DEF SubscriberInv
<1>4. \A s \in cseq[c] + 1..last : out'[c][<<attempt, s>>] = got[c][s]
  <2> TAKE s \in cseq[c] + 1..last
  <2>1. <<attempt, s>> \in Slots
    BY <1>1, BoundsAssumption DEF ReplayTypeOK, Slots, Seqs
  <2> QED BY <2>1
<1>5. \A d \in Clients : d # c => SubscriberInv(d)'
  BY <1>1 DEF SubscriberInv
<1>6. SubscriberInv(c)'
  <2>1. ASSUME cpc'[c] # "terminal", NEW s \in 1..last
        PROVE  out'[c][<<attempt, s>>] \in FrameKinds \ Terminal
    <3>1. CASE s <= cseq[c]
      BY <1>1, <1>3, <3>1
    <3>2. CASE s > cseq[c]
      <4>1. s \in cseq[c] + 1..last /\ last > cseq[c]
        BY <1>1, <3>2
      <4>2. got[c][last] \notin Terminal
        BY <2>1, <4>1 DEF AfterDelivery
      <4> QED BY <1>2, <1>4, <4>1, <4>2
    <3> QED BY <1>1, <3>1, <3>2
  <2>2. \A t \in Slots : out'[c][t] # None => t[1] <= attempt
    BY <1>1 DEF SubscriberInv, Attempts
  <2>3. cpc'[c] \in Ends \cup {"wait"} /\ cpc'[c] # "read"
    BY DEF AfterDelivery, Ends
  <2> QED BY <1>1, <2>1, <2>2, <2>3 DEF SubscriberInv, Attempts
<1>7. ASSUME NEW t \in Slots, out'[c][t] # None
      PROVE  /\ t[1] = attempt => t[2] <= committed
             /\ \A s \in 1..t[2] - 1 : out'[c][<<t[1], s>>] \in FrameKinds \ Terminal
  <2>1. t = <<t[1], t[2]>> /\ t[1] \in Attempts /\ t[2] \in Seqs
    BY DEF Slots
  <2>2. CASE t[1] # attempt
    <3>1. out[c][t] # None
      BY <1>7, <2>2
    <3>2. ASSUME NEW s \in 1..t[2] - 1 PROVE out'[c][<<t[1], s>>] = out[c][<<t[1], s>>]
      <4>1. <<t[1], s>> \in Slots
        BY <2>1, BoundsAssumption DEF Slots, Seqs
      <4> QED BY <2>2, <4>1
    <3> QED BY <2>2, <3>1, <3>2 DEF GapFree
  <2>3. CASE t[1] = attempt
    <3>1. t[2] <= committed
      BY <1>1, <1>2, <1>7, <2>1, <2>3 DEF GapFree
    <3>2. ASSUME NEW s \in 1..t[2] - 1
          PROVE  out'[c][<<attempt, s>>] \in FrameKinds \ Terminal
      <4>0. s \in Nat /\ s < t[2] /\ t[2] \in Nat /\ <<attempt, s>> \in Slots
        BY <1>1, <2>1, BoundsAssumption DEF Slots, Seqs
      <4>1. CASE s <= cseq[c]
        BY <1>1, <1>3, <4>0, <4>1
      <4>2. CASE s \in cseq[c] + 1..last /\ s < last
        BY <1>2, <1>4, <4>2
      <4>3. CASE s \in cseq[c] + 1..last /\ s = last
        <5>1. t[2] \notin cseq[c] + 1..last
          BY <4>0, <4>3, <1>1
        <5>2. out[c][t] # None
          BY <1>7, <5>1
        <5>3. out[c][<<attempt, s + 1>>] # None
          <6>1. s + 1 \in Seqs /\ s + 1 <= t[2]
            BY <2>1, <4>0, BoundsAssumption DEF Seqs
          <6>2. CASE s + 1 = t[2]
            BY <2>1, <2>3, <5>2, <6>2
          <6>3. CASE s + 1 < t[2]
            <7>1. s + 1 \in 1..t[2] - 1
              BY <4>0, <6>3
            <7> QED BY <2>3, <5>2, <7>1 DEF GapFree, FrameKinds, Terminal, None
          <6> QED BY <4>0, <6>1, <6>2, <6>3
        <5>4. got[c][s] \notin Terminal
          BY <2>1, <4>0, <5>3, BoundsAssumption DEF SubscriberInv, Seqs
        <5> QED BY <1>2, <1>4, <4>3, <5>4
      <4>4. CASE s > last
        <5>1. t[2] \notin cseq[c] + 1..last /\ s \notin cseq[c] + 1..last
          BY <4>0, <4>4, <1>1
        <5>2. out[c][t] # None /\ out'[c][<<attempt, s>>] = out[c][<<attempt, s>>]
          BY <1>7, <4>0, <5>1
        <5> QED BY <2>3, <5>2 DEF GapFree
      <4> QED BY <1>1, <4>0, <4>1, <4>2, <4>3, <4>4
    <3> QED BY <2>3, <3>1, <3>2
  <2> QED BY <2>2, <2>3
<1>8. GapFree'
  BY <1>1, <1>7 DEF GapFree
<1> QED BY <1>5, <1>6, <1>8

LEMMA DeliverGapFree ==
    ASSUME TypeOK, ReplayTypeOK, ReplayTypeOK', ReplayInv, NEW c \in Clients, Deliver(c)
    PROVE  GapFree' /\ \A d \in Clients : SubscriberInv(d)'
<1> USE DEF ReplayInv
<1>1. /\ UNCHANGED vars /\ cpc[c] = "read" /\ got'[c] = NoFrames
      /\ \A d \in Clients : d # c => got'[d] = got[d]
  BY DEF Deliver, ReplayTypeOK
<1>2. CASE status = "deleted" \/ attempt # catt[c]
  <2>1. UNCHANGED out /\ cpc'[c] \in {"wait", "ended"}
        /\ \A d \in Clients : d # c => cpc'[d] = cpc[d] /\ catt'[d] = catt[d] /\ cseq'[d] = cseq[d]
    BY <1>2 DEF Deliver, ReplayTypeOK
  <2>2. GapFree'
    BY <1>1, <2>1 DEF GapFree, vars, row
  <2>3. \A d \in Clients : d # c => SubscriberInv(d)'
    BY <1>1, <2>1 DEF SubscriberInv, vars, row
  <2>4. \/ catt'[c] = catt[c] /\ cseq'[c] = cseq[c]
        \/ catt'[c] = attempt /\ cseq'[c] = 0
    BY <1>2 DEF Deliver, ReplayTypeOK, ResumeSequence
  <2>5. catt'[c] > 0 /\ catt'[c] <= attempt
    BY <1>1, <2>4 DEF SubscriberInv, TypeOK, RowType, ReplayTypeOK
  <2>6. \A s \in 1..cseq'[c] : out[c][<<catt'[c], s>>] \in FrameKinds \ Terminal
    BY <1>1, <2>4 DEF SubscriberInv
  <2>7. SubscriberInv(c)'
    BY <1>1, <2>1, <2>5, <2>6 DEF SubscriberInv, vars, row
  <2> QED BY <2>2, <2>3, <2>7
<1>3. CASE attempt = catt[c] /\ Forward(c) /\ UNCHANGED catt
  BY <1>1, <1>3, ForwardGapFree
<1> QED BY <1>2, <1>3 DEF Deliver

LEMMA ReplayStep ==
    ASSUME TypeOK, TypeOK', ExecutionInv, ReplayTypeOK, ReplayInv, [ReplayNext]_rvars
    PROVE  ReplayTypeOK' /\ ReplayInv'
<1>1. [Next]_vars
  BY StepIsExecution
<1>2. PublishedInv' /\ attempt' >= attempt
  BY <1>1, PublishedStep DEF ReplayInv
<1>3. ReplayTypeOK'
  BY ReplayTypeStep DEF ReplayInv
<1>4. CASE UNCHANGED sub
  BY <1>1, <1>2, <1>3, <1>4, PermanentStep, ExecutionGapFree DEF ReplayInv
<1>5. CASE \E c \in Clients : Subscriber(c)
  BY <1>2, <1>3, <1>5, ConnectGapFree, WaitFramesGapFree, DeliverGapFree
     DEF Subscriber, ReplayInv, ExecutionInv
<1> QED BY <1>4, <1>5 DEF ReplayNext, rvars

LEMMA ReplayInitInv == ReplayInit => ReplayTypeOK /\ ReplayInv
<1> SUFFICES ASSUME ReplayInit PROVE ReplayTypeOK /\ ReplayInv
  OBVIOUS
<1>1. GapFree /\ PublishedInv
  BY DEF ReplayInit, Init, GapFree, PublishedInv, Actors
<1>2. ASSUME NEW c \in Clients PROVE SubscriberInv(c)
  BY DEF ReplayInit, Init, SubscriberInv
<1> QED BY <1>1, <1>2, ReplayTypeInit DEF ReplayInv

LEMMA ReplayInvariant == ReplaySpec => [](TypeOK /\ ExecutionInv /\ ReplayTypeOK /\ ReplayInv)
<1>1. TypeOK /\ ExecutionInv /\ ReplayTypeOK /\ ReplayInv /\ TypeOK' /\ [ReplayNext]_rvars
        => (ReplayTypeOK /\ ReplayInv)'
  BY ReplayStep
<1> QED BY <1>1, ReplayInitInv, ReplayRefinesExecution, ExecutionInvariant, PTL DEF ReplaySpec

\* What a client is sent of an attempt, over all its connections, is committed,
\* starts at the first frame, has no gap and nothing after its terminal event,
\* however the frames and the row change between the subscriber's two reads
\* (subscribeStreamRecovery), for any number of clients and requests.
THEOREM GapFreeTheorem == ReplaySpec => []GapFree
<1>1. ReplayInv => GapFree
  BY DEF ReplayInv
<1> QED BY <1>1, ReplayInvariant, PTL

-----------------------------------------------------------------------------
(* One generation, for a single request.                                   *)

\* Once the attempt is decided, no other is started.
LEMMA DecidedStays ==
    ASSUME \A g, h \in Handlers : g = h, TypeOK, OutputInv, Decided, [Next]_vars
    PROVE  Decided' /\ attempt' = attempt
<1> USE DEF Decided, row, redis, runner, writer
<1>1. CASE \E h \in Handlers : Lookup(h) \/ Worker(h) \/ Heartbeat(h)
  <2> PICK h \in Handlers : Lookup(h) \/ Worker(h) \/ Heartbeat(h)
    BY <1>1
  <2>1. CASE Lookup(h) \/ Heartbeat(h) \/ Ensure(h) \/ Claim(h) \/ Retry(h) \/ FinishWorker(h)
    BY <2>1 DEF Lookup, Heartbeat, Ensure, Claim, Retry, FinishWorker, FinishRow, HoldsLease,
       Active, Final
  <2>2. CASE SaveRequest(h) \/ PublishAttempt(h) \/ RollbackRejected(h)
    BY <2>2 DEF SaveRequest, PublishAttempt, RollbackRejected, FinishRow, HoldsLease, Active, Final
  <2>3. CASE WriteError(h) \/ \E k \in Upstream : WriteFrame(h, k)
    BY <2>3 DEF WriteError, WriteFrame, Append
  <2>4. CASE CommitFrame(h)
    BY <2>4 DEF CommitFrame, CommitSequence, Accepted
  <2>5. CASE StartAttempt(h)
    <3>1. pc[h] \in {"begin", "restart"} /\ MayStartAttempt(h) => FALSE
      <4> SUFFICES ASSUME pc[h] \in {"begin", "restart"}, MayStartAttempt(h) PROVE FALSE
        OBVIOUS
      <4>1. h \notin business /\ status \notin Final \cup {"deleted"}
        BY DEF OutputInv, MayStartAttempt, HoldsLease, Active, Final
      <4> QED BY <4>1 DEF TypeOK, SetsType
    <3> QED BY <2>5, <3>1 DEF StartAttempt
  <2> QED BY <2>1, <2>2, <2>3, <2>4, <2>5 DEF Worker
<1>2. CASE \E r \in Reconcilers : FindRecoverable(r)
  BY <1>2 DEF FindRecoverable
<1>3. CASE \E a \in Actors : Reconcile(a) \/ Crash(a)
  <2> PICK a \in Actors : Reconcile(a) \/ Crash(a)
    BY <1>3
  <2>1. CASE ClaimExpired(a)
    BY <2>1 DEF ClaimExpired, MayReconcile, Active, Final
  <2>2. CASE FinishReconciliation(a)
    BY <2>2 DEF FinishReconciliation, OwnsReconciliation, Final
  <2> QED
    BY <2>1, <2>2 DEF Reconcile, Crash, ReadTail, ScanFrame, CheckRollback, RollbackUncommitted,
       AppendUnsafe, CheckFinish, SealFrame
<1>4. CASE Cancel \/ ExpireLease \/ DeleteExpired
  BY <1>4 DEF Cancel, ExpireLease, DeleteExpired, Active, Final
<1>5. CASE UNCHANGED vars
  BY <1>5 DEF vars
<1> QED BY <1>1, <1>2, <1>3, <1>4, <1>5 DEF Next

\* A worker that makes no step, or is over, keeps its place before the commit.
LEMMA BusinessKept ==
    ASSUME TypeOK, NEW h \in Handlers, CommitsBusiness(h), UNCHANGED attempt,
           HoldsLease(h)' => HoldsLease(h),
           \/ pc'[h] \notin {"publish", "republish", "relay", "commit"}
           \/ /\ pc'[h] = pc[h] /\ att'[h] = att[h] /\ hand'[h] = hand[h]
              /\ term'[h] = term[h] /\ werr'[h] = werr[h]
           \/ pc'[h] = "relay" /\ werr'[h] # None
    PROVE  CommitsBusiness(h)'
BY DEF CommitsBusiness, MayWrite

\* While the next commit is due to be output, it is, and that decides the attempt.
LEMMA CommitDecides ==
    ASSUME \A g, h \in Handlers : g = h, TypeOK, ExecutionInv, SoloInv, [Next]_vars,
           \A h \in Handlers : CommitsBusiness(h), attempt' = attempt
    PROVE  Decided' \/ (committed' = committed /\ \A h \in Handlers : CommitsBusiness(h)')
<1> USE DEF row, redis, runner, writer, Goto, TypeOK, RunnerType
<1> \A h \in Handlers : h \in Actors
  BY DEF Actors
<1>1. CASE \E h \in Handlers : Lookup(h) \/ Worker(h) \/ Heartbeat(h)
  <2> PICK h \in Handlers : Lookup(h) \/ Worker(h) \/ Heartbeat(h)
    BY <1>1
  <2>0. /\ h \in Actors /\ ProgressInv(h) /\ HolderInv(h) /\ SoloWorkerInv(h)
        /\ \A g \in Handlers : g = h
    BY DEF ExecutionInv, RunnerInv, SoloInv
  <2>1. CASE Lookup(h) \/ Ensure(h) \/ Claim(h) \/ SaveRequest(h)
    <3>1. committed' = committed /\ pc'[h] \notin {"publish", "republish", "relay", "commit"}
      BY <2>0, <2>1 DEF Lookup, Ensure, Claim, SaveRequest, FinishRow
    <3> QED BY <2>0, <3>1 DEF CommitsBusiness, MayWrite
  <2>2. CASE Heartbeat(h)
    BY <2>0, <2>2, BusinessKept DEF Heartbeat, HoldsLease
  <2>3. CASE Retry(h) \/ FinishWorker(h)
    <3>1. committed' = committed /\ pc'[h] \in {"restart", "done"}
      BY <2>0, <2>3 DEF Retry, FinishWorker, FinishRow
    <3> QED BY <2>0, <3>1 DEF CommitsBusiness, MayWrite
  <2>4. CASE StartAttempt(h)
    <3>1. pc[h] \in {"begin", "restart"} /\ att[h] = attempt + 1
      BY <2>0, <2>4 DEF StartAttempt, SoloWorkerInv
    <3>2. UNCHANGED row /\ pc'[h] \in {"done", "relay"} /\ att'[h] # attempt'
      BY <2>0, <2>4, <3>1 DEF StartAttempt, RowType
    <3> QED BY <2>0, <3>2 DEF CommitsBusiness
  <2>5. CASE PublishAttempt(h)
    <3>1. /\ pc[h] \in {"publish", "republish"} /\ committed' = committed
          /\ att'[h] = att[h]
          /\ HoldsLease(h)' => HoldsLease(h)
      BY <2>0, <2>5 DEF PublishAttempt, FinishRow, HoldsLease, Active
    <3> QED BY <2>0, <3>1 DEF CommitsBusiness, MayWrite
  <2>6. CASE WriteError(h) \/ \E k \in Upstream : WriteFrame(h, k)
    <3>1. MayWrite(h) /\ UNCHANGED <<row, att>>
      BY <2>6 DEF WriteError, WriteFrame, MayWrite
    <3> QED BY <2>0, <3>1 DEF CommitsBusiness, HoldsLease
  <2>7. CASE CommitFrame(h)
    <3>1. CASE h \in business'
      BY <3>1 DEF Decided
    <3>2. CASE MayCommit(h)
      <4>1. hand[h] \in Business
        BY <2>0, <2>7, <3>2 DEF CommitsBusiness, CommitFrame, MayCommit
      <4>2. h \in business'
        BY <2>7, <3>2, <4>1 DEF CommitFrame, Accepted, Business
      <4> QED BY <4>2 DEF Decided
    <3>3. CASE ~MayCommit(h) /\ UNCHANGED row /\ pc'[h] = "rollback"
      BY <2>0, <3>3 DEF CommitsBusiness, MayWrite
    <3>4. CASE ~MayCommit(h) /\ UNCHANGED <<row, att>> /\ attempt = att[h] /\ committed > seq[h]
      <4>1. ~HoldsLease(h)
        BY <2>0, <2>7, <3>4 DEF HolderInv, ProgressInv, CommitFrame, None, RowType
      <4> QED BY <2>0, <3>4, <4>1 DEF CommitsBusiness, HoldsLease
    <3> QED BY <2>7, <3>1, <3>2, <3>3, <3>4 DEF CommitFrame
  <2>8. CASE RollbackRejected(h)
    <3>1. UNCHANGED row /\ pc'[h] = "relay" /\ werr'[h] # None
      BY <2>0, <2>8 DEF RollbackRejected, None
    <3> QED BY <2>0, <3>1, BusinessKept DEF HoldsLease
  <2> QED BY <2>1, <2>2, <2>3, <2>4, <2>5, <2>6, <2>7, <2>8 DEF Worker
<1>2. CASE \E r \in Reconcilers : FindRecoverable(r)
  BY <1>2, BusinessKept, ActorsAssumption DEF FindRecoverable, HoldsLease
<1>3. CASE \E a \in Actors : Reconcile(a) \/ Crash(a)
  <2> PICK a \in Actors : Reconcile(a) \/ Crash(a)
    BY <1>3
  <2>1. CASE FinishReconciliation(a) /\ ~UNCHANGED row
    <3>1. status' = hand[a] /\ hand[a] \in Final
      BY <2>1 DEF FinishReconciliation, ExecutionInv, RunnerInv, ReconcilerInv, Reconciling
    <3> QED BY <3>1 DEF Decided
  <2>2. \A h \in Handlers : h # a =>
          /\ pc'[h] = pc[h] /\ att'[h] = att[h] /\ hand'[h] = hand[h]
          /\ term'[h] = term[h] /\ werr'[h] = werr[h]
    BY DEF Reconcile, Crash, ClaimExpired, ReadTail, GiveUp, ScanFrame, CheckRollback,
       RollbackUncommitted, AppendUnsafe, CheckFinish, SealFrame, FinishReconciliation
  <2>3. pc'[a] \notin {"publish", "republish", "relay", "commit"}
    BY DEF Reconcile, Crash, ClaimExpired, ReadTail, GiveUp, ScanFrame, CheckRollback, End,
       RollbackUncommitted, AppendUnsafe, CheckFinish, SealFrame, FinishReconciliation
  <2>4. CASE UNCHANGED row
    BY <2>2, <2>3, <2>4, BusinessKept DEF HoldsLease
  <2>5. CASE ClaimExpired(a)
    <3>1. \A h \in Handlers : h # a /\ HoldsLease(h)' => HoldsLease(h)
      BY <2>5 DEF ClaimExpired, HoldsLease
    <3> QED BY <2>2, <2>3, <2>5, <3>1, BusinessKept DEF ClaimExpired, CommitsBusiness, MayWrite
  <2> QED BY <2>1, <2>4, <2>5 DEF Reconcile, Crash, ReadTail, ScanFrame, CheckRollback,
             RollbackUncommitted, AppendUnsafe, CheckFinish, SealFrame
<1>4. CASE Cancel \/ ExpireLease \/ DeleteExpired
  BY <1>4, BusinessKept DEF Cancel, ExpireLease, DeleteExpired, Decided, Final, HoldsLease
<1>5. CASE UNCHANGED vars
  BY <1>5, BusinessKept DEF vars, HoldsLease
<1> QED BY <1>1, <1>2, <1>3, <1>4, <1>5 DEF Next

\* A commit of output decides the attempt, whoever makes it.
LEMMA CommittedDecides ==
    ASSUME TypeOK, TypeOK', ExecutionInv, [Next]_vars, Permanent,
           \A s \in 1..committed : frame[<<attempt, s>>] \in Business => Decided,
           Decided => Decided'
    PROVE  \A s \in 1..committed' : frame'[<<attempt', s>>] \in Business => Decided'
<1> USE DEF row, redis, runner, writer
<1>0. committed \in Nat /\ attempt \in Nat
  BY DEF TypeOK, RowType
<1>1. CASE UNCHANGED <<attempt, committed>>
  BY <1>1 DEF Permanent
<1>2. CASE committed' = 0
  BY <1>2
<1>3. ASSUME NEW h \in Handlers, CommitFrame(h), MayCommit(h), CommitSequence(h)
      PROVE  \A s \in 1..committed' : frame'[<<attempt', s>>] \in Business => Decided'
  <2>1. h \in Actors /\ HolderInv(h) /\ ProgressInv(h)
    BY DEF Actors, ExecutionInv, RunnerInv
  <2>2. /\ committed' = committed + 1 /\ UNCHANGED <<attempt, frame>>
        /\ frame[<<attempt, committed'>>] = hand[h]
    BY <1>3, <2>1 DEF CommitFrame, MayCommit, CommitSequence, HolderInv, Slot
  <2>3. hand[h] \in Business => h \in business'
    BY <1>3 DEF CommitFrame, Accepted, Business
  <2> QED BY <1>0, <2>2, <2>3 DEF Decided
<1>4. ASSUME NEW a \in Actors, FinishReconciliation(a), ~UNCHANGED row PROVE Decided'
  BY <1>4 DEF FinishReconciliation, ExecutionInv, RunnerInv, ReconcilerInv, Reconciling, Decided
<1>5. CASE \E h \in Handlers : Lookup(h) \/ Worker(h) \/ Heartbeat(h)
  <2> PICK h \in Handlers : Lookup(h) \/ Worker(h) \/ Heartbeat(h)
    BY <1>5
  <2>1. CASE CommitFrame(h)
    BY <1>1, <1>3, <2>1 DEF CommitFrame
  <2>2. CASE StartAttempt(h)
    BY <1>1, <1>2, <2>2 DEF StartAttempt
  <2> QED
    BY <1>1, <1>5, <2>1, <2>2 DEF Lookup, Worker, Heartbeat, Ensure, Claim, SaveRequest, FinishRow,
       PublishAttempt, WriteFrame, WriteError, RollbackRejected, Retry, FinishWorker
<1>6. CASE \E a \in Actors : Reconcile(a) \/ Crash(a)
  BY <1>1, <1>4, <1>6 DEF Reconcile, Crash, ClaimExpired, ReadTail, ScanFrame, CheckRollback,
     RollbackUncommitted, AppendUnsafe, CheckFinish, SealFrame
<1> QED BY <1>1, <1>5, <1>6 DEF Next, FindRecoverable, Cancel, ExpireLease, DeleteExpired, vars

\* A step of the execution.
LEMMA ExecutionOutput ==
    ASSUME \A g, h \in Handlers : g = h, TypeOK, TypeOK', ExecutionInv, SoloInv, OutputInv,
           ReplayTypeOK, ReplayInv, SoloReplayInv, [Next]_vars, attempt' >= attempt, UNCHANGED sub
    PROVE  SoloReplayInv'
<1> USE DEF SoloReplayInv, sub
<1>1. Decided => Decided' /\ attempt' = attempt
  BY DecidedStays
<1>2. \A s \in 1..committed' : frame'[<<attempt', s>>] \in Business => Decided'
  BY <1>1, CommittedDecides, PermanentStep
<1>3. ASSUME NEW c \in Clients PROVE OutputDecides(c)'
  <2>1. \A t \in Slots : out'[c][t] \in Business => t[1] = attempt' /\ Decided'
    BY <1>1 DEF OutputDecides
  <2>2. ASSUME cpc[c] = "read", catt[c] = attempt', NEW s \in Seqs, got[c][s] \in Business
        PROVE  Decided' \/ (s = committed' + 1 /\ \A h \in Handlers : CommitsBusiness(h)')
    <3>1. attempt' = attempt
      BY <2>2 DEF ReplayInv, SubscriberInv, TypeOK, RowType
    <3>2. CASE Decided
      BY <1>1, <3>2
    <3>3. CASE s = committed + 1 /\ \A h \in Handlers : CommitsBusiness(h)
      BY <3>1, <3>3, CommitDecides
    <3> QED BY <2>2, <3>1, <3>2, <3>3 DEF OutputDecides
  <2> QED BY <2>1, <2>2 DEF OutputDecides
<1> QED BY <1>2, <1>3

\* Output beyond the committed sequence is what its worker is committing.
LEMMA ReadOutput ==
    ASSUME TypeOK, ExecutionInv, SoloInv, NEW h \in Handlers, attempt > 0,
           frame[<<attempt, committed + 1>>] \in Business
    PROVE  CommitsBusiness(h)
<1> SUFFICES ASSUME HoldsLease(h), att[h] = attempt
             PROVE  ~MayWrite(h) /\ (pc[h] = "commit" => hand[h] \in Business)
  BY DEF CommitsBusiness
<1>1. h \in Actors /\ HolderInv(h) /\ ProgressInv(h) /\ SoloWorkerInv(h) /\ status \in Active
  BY DEF Actors, ExecutionInv, RunnerInv, SoloInv, HoldsLease
<1>2. ASSUME MayWrite(h) PROVE FALSE
  <2>1. committed = seq[h] /\ frame[Slot(h)] \in {None, "unsafe"}
    BY <1>1, <1>2 DEF SoloWorkerInv, MayWrite, ProgressInv, Started, None
  <2> QED BY <2>1 DEF Slot, Business, None
<1>3. ASSUME pc[h] = "commit" PROVE hand[h] \in Business
  BY <1>1, <1>3 DEF HolderInv, ProgressInv, Slot, None
<1> QED BY <1>2, <1>3

\* A step of a subscriber: only Deliver adds to what a client has.
LEMMA SubscriberOutput ==
    ASSUME TypeOK, ExecutionInv, SoloInv, ReplayTypeOK, ReplayInv, SoloReplayInv,
           NEW c \in Clients, Subscriber(c)
    PROVE  SoloReplayInv'
<1> USE DEF SoloReplayInv
<1>1. UNCHANGED vars
  BY DEF Subscriber, Connect, WaitFrames, Deliver
<1>2. (\A s \in 1..committed' : frame'[<<attempt', s>>] \in Business => Decided')
      /\ attempt' = attempt /\ committed' = committed /\ (Decided' <=> Decided)
      /\ \A h \in Handlers : CommitsBusiness(h)' <=> CommitsBusiness(h)
  BY <1>1 DEF vars, row, redis, runner, Decided, CommitsBusiness, HoldsLease, MayWrite
<1>3. ASSUME NEW d \in Clients, d # c PROVE OutputDecides(d)'
  <2>1. cpc'[d] = cpc[d] /\ catt'[d] = catt[d] /\ got'[d] = got[d] /\ out'[d] = out[d]
    BY <1>3 DEF Subscriber, Connect, WaitFrames, Deliver, Forward, ReplayTypeOK
  <2> QED BY <1>2, <2>1 DEF OutputDecides
<1>4. CASE Connect(c)
  <2>1. cpc'[c] # "read" /\ UNCHANGED out
    BY <1>4 DEF Connect, ReplayTypeOK
  <2> QED BY <1>2, <1>3, <2>1 DEF OutputDecides
<1>5. CASE WaitFrames(c)
  <2>1. ASSUME catt[c] = attempt, NEW s \in Seqs, got'[c][s] \in Business
        PROVE  Decided \/ (s = committed + 1 /\ \A h \in Handlers : CommitsBusiness(h))
    <3>1. frame[<<attempt, s>>] \in Business /\ attempt > 0
      BY <1>5, <2>1 DEF WaitFrames, ReplayTypeOK, ReplayInv, SubscriberInv, Business, None
    <3>2. s <= committed + 1
      BY <3>1 DEF ExecutionInv, CommittedPrefix, Business, None, Seqs, TypeOK, RowType
    <3>3. CASE s <= committed
      BY <3>1, <3>3 DEF Seqs, TypeOK, RowType
    <3>4. CASE s = committed + 1
      BY <3>1, <3>4, ReadOutput
    <3> QED BY <3>2, <3>3, <3>4 DEF Seqs, TypeOK, RowType
  <2>2. UNCHANGED <<out, catt>>
    BY <1>5 DEF WaitFrames
  <2> QED BY <1>2, <1>3, <2>1, <2>2 DEF OutputDecides
<1>6. CASE Deliver(c)
  <2>1. cpc'[c] # "read"
    BY <1>6, ForwardOut DEF Deliver, AfterDelivery, ReplayTypeOK
  <2>2. CASE UNCHANGED out
    BY <1>2, <1>3, <2>1, <2>2 DEF OutputDecides
  <2>3. CASE catt[c] = attempt /\ cpc[c] = "read" /\ Forward(c)
    <3> PICK last \in 0..MaxFrames :
          /\ last = cseq[c] \/ last \in Deliverable(c)
          /\ \A t \in Slots : out'[c][t] =
               IF t[1] = catt[c] /\ t[2] \in cseq[c] + 1..last THEN got[c][t[2]] ELSE out[c][t]
      BY <2>3, ForwardOut
    <3>1. ASSUME NEW s \in Seqs, s \in cseq[c] + 1..last, got[c][s] \in Business PROVE Decided
      <4>1. s <= committed
        BY <3>1 DEF Deliverable, Seqs, ReplayTypeOK, TypeOK, RowType
      <4> QED BY <2>3, <3>1, <4>1 DEF OutputDecides, Seqs, TypeOK, RowType
    <3>2. \A t \in Slots : out'[c][t] \in Business => t[1] = attempt /\ Decided
      BY <2>3, <3>1 DEF OutputDecides, Slots
    <3> QED BY <1>2, <1>3, <2>1, <3>2 DEF OutputDecides
  <2> QED BY <1>6, <2>2, <2>3 DEF Deliver
<1> QED BY <1>4, <1>5, <1>6 DEF Subscriber

\* A client of a single request is sent the output of one generation only, over
\* all its connections and every retry, crash and reconciliation of the worker,
\* although it may be sent a frame that its commit replaced (retryDecision,
\* streamRecoveryResumeSequence, subscribeStreamRecovery).
THEOREM OneGenerationTheorem ==
    ASSUME \A g, h \in Handlers : g = h
    PROVE  ReplaySpec => []OneGeneration
<1>1. ReplayInit => SoloReplayInv
  <2> SUFFICES ASSUME ReplayInit PROVE SoloReplayInv
    OBVIOUS
  <2>1. ASSUME NEW c \in Clients PROVE OutputDecides(c)
    BY DEF ReplayInit, OutputDecides, Business, None
  <2> QED BY <2>1 DEF ReplayInit, Init, SoloReplayInv
<1>2. /\ TypeOK /\ TypeOK' /\ ExecutionInv /\ SoloInv /\ OutputInv /\ ReplayTypeOK /\ ReplayInv
      /\ SoloReplayInv /\ [ReplayNext]_rvars
      => SoloReplayInv'
  <2> SUFFICES ASSUME TypeOK, TypeOK', ExecutionInv, SoloInv, OutputInv, ReplayTypeOK, ReplayInv,
                      SoloReplayInv, [ReplayNext]_rvars
               PROVE  SoloReplayInv'
    OBVIOUS
  <2>1. [Next]_vars
    BY StepIsExecution
  <2>2. attempt' >= attempt
    BY <2>1, PublishedStep DEF ReplayInv
  <2>3. CASE UNCHANGED sub
    BY <2>1, <2>2, <2>3, ExecutionOutput
  <2>4. CASE \E c \in Clients : Subscriber(c)
    BY <2>4, SubscriberOutput
  <2> QED BY <2>3, <2>4 DEF ReplayNext, rvars
<1>3. SoloReplayInv => OneGeneration
  BY DEF SoloReplayInv, OutputDecides, OneGeneration
<1> QED BY <1>1, <1>2, <1>3, ReplayInvariant, ReplayRefinesExecution, SoloInvariant,
           OutputInvariant, PTL DEF ReplaySpec
=============================================================================
