------------------------ MODULE StreamBilling_proofs ------------------------
(***************************************************************************)
(* Proofs about StreamBilling, for any number of workers, any quotas and   *)
(* any number of faults.                                                   *)
(***************************************************************************)
EXTENDS StreamBilling, TLAPS

USE QuotaAssumption

-----------------------------------------------------------------------------
(* Types.                                                                  *)

LEMMA InitTypes == Init => TypeOK
<1> SUFFICES ASSUME Init PROVE TypeOK
    OBVIOUS
<1> USE DEF Init
<1>1. status \in Statuses /\ lease \in BOOLEAN /\ holder \in Workers
    BY DEF Statuses
<1>2. bill \in BillStates /\ snap \in {0, Estimate, Raised}
    BY DEF BillStates
<1>3. pc \in [Workers -> PCs] /\ pre \in [Workers -> {0, Estimate, Raised}]
    BY DEF PCs
<1>4. job \in [Workers -> Jobs] /\ done \subseteq Workers /\ output \subseteq Workers
    BY DEF Jobs
<1>5. debit \in Int /\ charged \subseteq Workers /\ repaid \subseteq Workers
    OBVIOUS
<1>6. actual \in Actuals \cup {0} /\ faults \in 0..MaxFaults
    BY QuotaAssumption
<1> QED
    BY <1>1, <1>2, <1>3, <1>4, <1>5, <1>6 DEF TypeOK

LEMMA NextTypes == TypeOK /\ [Next]_vars => TypeOK'
<1> SUFFICES ASSUME TypeOK, [Next]_vars PROVE TypeOK'
    OBVIOUS
<1> USE DEF TypeOK, Statuses, BillStates, Unresolved, PCs, Jobs, row, session, ledger, Goto, Fault
<1>1. ASSUME NEW w \in Workers, Claim(w) PROVE TypeOK'
    BY <1>1 DEF Claim
<1>2. ASSUME NEW w \in Workers, Crash(w) PROVE TypeOK'
    BY <1>2 DEF Crash
<1>3. ASSUME NEW w \in Workers, ReadBill(w) PROVE TypeOK'
    BY <1>3 DEF ReadBill, Restore
<1>4. ASSUME NEW w \in Workers, BeginReservation(w) PROVE TypeOK'
    BY <1>4 DEF BeginReservation, Restore, Moved, NotMoved, MoveFails, MayMove, NeedsLiveRow
<1>5. ASSUME NEW w \in Workers, Charge(w) PROVE TypeOK'
    BY <1>5 DEF Charge
<1>6. ASSUME NEW w \in Workers, ReleaseReservation(w) PROVE TypeOK'
    BY <1>6 DEF ReleaseReservation, Moved, NotMoved, MoveFails, MayMove
<1>7. ASSUME NEW w \in Workers, PersistReservation(w) PROVE TypeOK'
    BY <1>7 DEF PersistReservation, Saved, SaveRefused, SaveFails, Moved, MayMove
<1>8. ASSUME NEW w \in Workers, MarkReservation(w) PROVE TypeOK'
    BY <1>8 DEF MarkReservation, Moved, NotMoved, MoveFails, MayMove
<1>9. ASSUME NEW w \in Workers, Produce(w) PROVE TypeOK'
    BY <1>9 DEF Produce
<1>10. ASSUME NEW w \in Workers, Reserve(w) PROVE TypeOK'
    BY <1>10 DEF Reserve
<1>11. ASSUME NEW w \in Workers, PersistRaise(w) PROVE TypeOK'
    BY <1>11 DEF PersistRaise, Saved, SaveRefused, SaveFails, Moved, MayMove
<1>12. ASSUME NEW w \in Workers, Fail(w) PROVE TypeOK'
    BY <1>12 DEF Fail
<1>13. ASSUME NEW w \in Workers, BeginSettle(w) PROVE TypeOK'
    BY <1>13 DEF BeginSettle, Moved, NotMoved, MoveFails, MayMove, SettleFrom
<1>14. ASSUME NEW w \in Workers, SettleLedger(w) PROVE TypeOK'
    BY <1>14 DEF SettleLedger
<1>15. ASSUME NEW w \in Workers, RecordSettle(w) PROVE TypeOK'
    BY <1>15 DEF RecordSettle, Moved, NotMoved, MoveFails, MayMove
<1>16. ASSUME NEW w \in Workers, BeginRefund(w) PROVE TypeOK'
    BY <1>16 DEF BeginRefund, Moved, NotMoved, MoveFails, MayMove, RefundFrom
<1>17. ASSUME NEW w \in Workers, Repay(w) PROVE TypeOK'
    BY <1>17 DEF Repay
<1>18. ASSUME NEW w \in Workers, RecordRefund(w) PROVE TypeOK'
    BY <1>18 DEF RecordRefund, Moved, NotMoved, MoveFails, MayMove, RefundResult
<1>19. ASSUME NEW w \in Workers, MarkStopped(w) PROVE TypeOK'
    BY <1>19 DEF MarkStopped, Moved, NotMoved, MoveFails, MayMove, Unresolved
<1>20. ASSUME NEW w \in Workers, FinishWorker(w) PROVE TypeOK'
    BY <1>20 DEF FinishWorker
<1>21. CASE ExpireLease
    BY <1>21 DEF ExpireLease
<1>22. CASE ClaimExpired
    BY <1>22 DEF ClaimExpired, Resolved
<1>23. CASE FinishReconciliation
    BY <1>23 DEF FinishReconciliation, Resolved
<1>24. CASE Cancel
    BY <1>24 DEF Cancel
<1>25. CASE DeleteExpired
    BY <1>25 DEF DeleteExpired, Resolved
<1>26. CASE UNCHANGED vars
    BY <1>26 DEF vars
<1> QED
    BY <1>1, <1>2, <1>3, <1>4, <1>5, <1>6, <1>7, <1>8, <1>9, <1>10, <1>11, <1>12, <1>13, <1>14, <1>15, <1>16, <1>17, <1>18, <1>19, <1>20, <1>21, <1>22, <1>23, <1>24, <1>25, <1>26 DEF Next, Worker

\* Every variable of the billing journal keeps its type.
THEOREM TypeCorrect == Spec => []TypeOK
<1>1. Init => TypeOK
    BY InitTypes
<1>2. TypeOK /\ [Next]_vars => TypeOK'
    BY NextTypes
<1> QED
    BY <1>1, <1>2, PTL DEF Spec
-----------------------------------------------------------------------------
(* One outcome.                                                            *)

LEMMA InitMovers == Init => MoverInv
BY DEF Init, MoverInv, Mover, PastHold

\* A step after which nobody is newly about to move money.
LEMMA NoNewMover ==
    ASSUME MoverInv, charged' = charged, repaid' = repaid,
           bill \in PastHold => bill' \in PastHold,
           \A v \in Workers : pc'[v] = "settle" => pc[v] = "settle",
           \A v \in Workers : job'[v] = "repay" => job[v] = "repay"
    PROVE  MoverInv'
<1>1. \A v \in Workers : Mover(v)' => Mover(v)
    BY DEF Mover
<1> QED
    BY <1>1 DEF MoverInv

\* An announcement: the bill was a hold, so nobody else is a mover.
LEMMA OnlyMover ==
    ASSUME MoverInv, NEW w \in Workers,
           charged' = charged, repaid' = repaid,
           bill \notin PastHold, bill' \in PastHold,
           pc'[w] # "settle" \/ job'[w] # "repay",
           \A v \in Workers \ {w} : pc'[v] = pc[v] /\ job'[v] = job[v]
    PROVE  MoverInv'
<1>1. \A v \in Workers : ~Mover(v)
    BY DEF MoverInv
<1>2. \A v \in Workers : Mover(v)' => v = w
    BY <1>1 DEF Mover
<1>3. \A v \in Workers : v \notin charged' \cup repaid'
    BY <1>1 DEF Mover
<1>4. charged' \cap repaid' = {}
    BY DEF MoverInv
<1> QED
    BY <1>1, <1>2, <1>3, <1>4 DEF MoverInv, Mover

LEMMA NextMovers == TypeOK /\ MoverInv /\ [Next]_vars => MoverInv'
<1> SUFFICES ASSUME TypeOK, MoverInv, [Next]_vars PROVE MoverInv'
    OBVIOUS
<1>t. pc \in [Workers -> PCs] /\ job \in [Workers -> Jobs] /\ charged \subseteq Workers /\ repaid \subseteq Workers
    BY DEF TypeOK
<1> USE <1>t DEF row, session, ledger, Goto
<1>1. ASSUME NEW w \in Workers, Claim(w) PROVE MoverInv'
    <2>1. charged' = charged /\ repaid' = repaid
        BY <1>1 DEF Claim
    <2>2. \A v \in Workers : pc'[v] = "settle" => pc[v] = "settle"
        BY <1>1 DEF Claim
    <2>3. \A v \in Workers : job'[v] = "repay" => job[v] = "repay"
        BY <1>1 DEF Claim
    <2>4. bill \in PastHold => bill' \in PastHold
        BY <1>1 DEF Claim, PastHold
    <2> QED
        BY <2>1, <2>2, <2>3, <2>4, NoNewMover
<1>2. ASSUME NEW w \in Workers, Crash(w) PROVE MoverInv'
    <2>1. charged' = charged /\ repaid' = repaid
        BY <1>2 DEF Crash
    <2>2. \A v \in Workers : pc'[v] = "settle" => pc[v] = "settle"
        BY <1>2 DEF Crash
    <2>3. \A v \in Workers : job'[v] = "repay" => job[v] = "repay"
        BY <1>2 DEF Crash
    <2>4. bill \in PastHold => bill' \in PastHold
        BY <1>2 DEF Crash, PastHold
    <2> QED
        BY <2>1, <2>2, <2>3, <2>4, NoNewMover
<1>3. ASSUME NEW w \in Workers, ReadBill(w) PROVE MoverInv'
    <2>1. charged' = charged /\ repaid' = repaid
        BY <1>3 DEF ReadBill
    <2>2. \A v \in Workers : pc'[v] = "settle" => pc[v] = "settle"
        BY <1>3 DEF ReadBill, Restore
    <2>3. \A v \in Workers : job'[v] = "repay" => job[v] = "repay"
        BY <1>3 DEF ReadBill
    <2>4. bill \in PastHold => bill' \in PastHold
        BY <1>3 DEF ReadBill, Restore, PastHold
    <2> QED
        BY <2>1, <2>2, <2>3, <2>4, NoNewMover
<1>4. ASSUME NEW w \in Workers, BeginReservation(w) PROVE MoverInv'
    <2>1. charged' = charged /\ repaid' = repaid
        BY <1>4 DEF BeginReservation
    <2>2. \A v \in Workers : pc'[v] = "settle" => pc[v] = "settle"
        BY <1>4 DEF BeginReservation, Restore
    <2>3. \A v \in Workers : job'[v] = "repay" => job[v] = "repay"
        BY <1>4 DEF BeginReservation
    <2>4. bill \in PastHold => bill' \in PastHold
        BY <1>4 DEF BeginReservation, Restore, Moved, NotMoved, MoveFails, MayMove, PastHold
    <2> QED
        BY <2>1, <2>2, <2>3, <2>4, NoNewMover
<1>5. ASSUME NEW w \in Workers, Charge(w) PROVE MoverInv'
    <2>1. charged' = charged /\ repaid' = repaid
        BY <1>5 DEF Charge
    <2>2. \A v \in Workers : pc'[v] = "settle" => pc[v] = "settle"
        BY <1>5 DEF Charge
    <2>3. \A v \in Workers : job'[v] = "repay" => job[v] = "repay"
        BY <1>5 DEF Charge
    <2>4. bill \in PastHold => bill' \in PastHold
        BY <1>5 DEF Charge, PastHold
    <2> QED
        BY <2>1, <2>2, <2>3, <2>4, NoNewMover
<1>6. ASSUME NEW w \in Workers, ReleaseReservation(w) PROVE MoverInv'
    <2>1. charged' = charged /\ repaid' = repaid
        BY <1>6 DEF ReleaseReservation
    <2>2. \A v \in Workers : pc'[v] = "settle" => pc[v] = "settle"
        BY <1>6 DEF ReleaseReservation
    <2>3. \A v \in Workers : job'[v] = "repay" => job[v] = "repay"
        BY <1>6 DEF ReleaseReservation
    <2>4. bill \in PastHold => bill' \in PastHold
        BY <1>6 DEF ReleaseReservation, Moved, NotMoved, MoveFails, MayMove, PastHold
    <2> QED
        BY <2>1, <2>2, <2>3, <2>4, NoNewMover
<1>7. ASSUME NEW w \in Workers, PersistReservation(w) PROVE MoverInv'
    <2>1. charged' = charged /\ repaid' = repaid
        BY <1>7 DEF PersistReservation
    <2>2. \A v \in Workers : pc'[v] = "settle" => pc[v] = "settle"
        BY <1>7 DEF PersistReservation
    <2>3. \A v \in Workers : job'[v] = "repay" => job[v] = "repay"
        BY <1>7 DEF PersistReservation
    <2>4. bill \in PastHold => bill' \in PastHold
        BY <1>7 DEF PersistReservation, Saved, SaveRefused, SaveFails, Moved, MayMove, PastHold
    <2> QED
        BY <2>1, <2>2, <2>3, <2>4, NoNewMover
<1>8. ASSUME NEW w \in Workers, MarkReservation(w) PROVE MoverInv'
    <2>1. charged' = charged /\ repaid' = repaid
        BY <1>8 DEF MarkReservation
    <2>2. \A v \in Workers : pc'[v] = "settle" => pc[v] = "settle"
        BY <1>8 DEF MarkReservation
    <2>3. \A v \in Workers : job'[v] = "repay" => job[v] = "repay"
        BY <1>8 DEF MarkReservation
    <2>4. bill \in PastHold => bill' \in PastHold
        BY <1>8 DEF MarkReservation, Moved, NotMoved, MoveFails, MayMove, PastHold
    <2> QED
        BY <2>1, <2>2, <2>3, <2>4, NoNewMover
<1>9. ASSUME NEW w \in Workers, Produce(w) PROVE MoverInv'
    <2>1. charged' = charged /\ repaid' = repaid
        BY <1>9 DEF Produce
    <2>2. \A v \in Workers : pc'[v] = "settle" => pc[v] = "settle"
        BY <1>9 DEF Produce
    <2>3. \A v \in Workers : job'[v] = "repay" => job[v] = "repay"
        BY <1>9 DEF Produce
    <2>4. bill \in PastHold => bill' \in PastHold
        BY <1>9 DEF Produce, PastHold
    <2> QED
        BY <2>1, <2>2, <2>3, <2>4, NoNewMover
<1>10. ASSUME NEW w \in Workers, Reserve(w) PROVE MoverInv'
    <2>1. charged' = charged /\ repaid' = repaid
        BY <1>10 DEF Reserve
    <2>2. \A v \in Workers : pc'[v] = "settle" => pc[v] = "settle"
        BY <1>10 DEF Reserve
    <2>3. \A v \in Workers : job'[v] = "repay" => job[v] = "repay"
        BY <1>10 DEF Reserve
    <2>4. bill \in PastHold => bill' \in PastHold
        BY <1>10 DEF Reserve, PastHold
    <2> QED
        BY <2>1, <2>2, <2>3, <2>4, NoNewMover
<1>11. ASSUME NEW w \in Workers, PersistRaise(w) PROVE MoverInv'
    <2>1. charged' = charged /\ repaid' = repaid
        BY <1>11 DEF PersistRaise
    <2>2. \A v \in Workers : pc'[v] = "settle" => pc[v] = "settle"
        BY <1>11 DEF PersistRaise
    <2>3. \A v \in Workers : job'[v] = "repay" => job[v] = "repay"
        BY <1>11 DEF PersistRaise
    <2>4. bill \in PastHold => bill' \in PastHold
        BY <1>11 DEF PersistRaise, Saved, SaveRefused, SaveFails, Moved, MayMove, PastHold
    <2> QED
        BY <2>1, <2>2, <2>3, <2>4, NoNewMover
<1>12. ASSUME NEW w \in Workers, Fail(w) PROVE MoverInv'
    <2>1. charged' = charged /\ repaid' = repaid
        BY <1>12 DEF Fail
    <2>2. \A v \in Workers : pc'[v] = "settle" => pc[v] = "settle"
        BY <1>12 DEF Fail
    <2>3. \A v \in Workers : job'[v] = "repay" => job[v] = "repay"
        BY <1>12 DEF Fail
    <2>4. bill \in PastHold => bill' \in PastHold
        BY <1>12 DEF Fail, PastHold
    <2> QED
        BY <2>1, <2>2, <2>3, <2>4, NoNewMover
<1>13. ASSUME NEW w \in Workers, BeginSettle(w) PROVE MoverInv'
    <2>1. charged' = charged /\ repaid' = repaid
        BY <1>13 DEF BeginSettle
    <2>2. \A v \in Workers \ {w} : pc'[v] = pc[v] /\ job'[v] = job[v]
        BY <1>13 DEF BeginSettle
    <2>3. bill \in PastHold => bill' \in PastHold
        BY <1>13 DEF BeginSettle, Moved, NotMoved, MoveFails, MayMove, SettleFrom, PastHold
    <2>4. \/ pc'[w] = "settle" /\ job' = job /\ bill \notin PastHold /\ bill' \in PastHold
          \/ pc'[w] = "finish" /\ job' = job
        BY <1>13 DEF BeginSettle, Moved, NotMoved, MoveFails, MayMove, SettleFrom, PastHold, NeedsLiveRow
    <2>5. pc'[w] # "settle" \/ job'[w] # "repay"
        BY <1>13, <2>4 DEF BeginSettle, MoverInv, Mover
    <2>6. CASE pc'[w] = "settle" /\ job' = job /\ bill \notin PastHold /\ bill' \in PastHold
        BY <2>1, <2>2, <2>5, <2>6, OnlyMover
    <2>7. CASE pc'[w] = "finish" /\ job' = job
        BY <2>1, <2>2, <2>3, <2>7, NoNewMover
    <2> QED
        BY <2>4, <2>6, <2>7
<1>14. ASSUME NEW w \in Workers, SettleLedger(w) PROVE MoverInv'
    <2>1. pc[w] = "settle" /\ pc'[w] # "settle" /\ bill' = bill /\ job' = job /\ repaid' = repaid
        BY <1>14 DEF SettleLedger
    <2>2. \A v \in Workers \ {w} : pc'[v] = pc[v]
        BY <1>14 DEF SettleLedger
    <2>3. charged' = charged \cup {w} \/ charged' = charged
        BY <1>14 DEF SettleLedger
    <2>4. Mover(w) /\ job[w] # "repay" /\ w \notin repaid
        BY <2>1 DEF Mover, MoverInv
    <2>5. \A v \in Workers : Mover(v)' => v = w
        BY <2>1, <2>2, <2>3, <2>4 DEF Mover, MoverInv
    <2> QED
        BY <2>1, <2>2, <2>3, <2>4, <2>5 DEF MoverInv, Mover
<1>15. ASSUME NEW w \in Workers, RecordSettle(w) PROVE MoverInv'
    <2>1. charged' = charged /\ repaid' = repaid
        BY <1>15 DEF RecordSettle
    <2>2. \A v \in Workers : pc'[v] = "settle" => pc[v] = "settle"
        BY <1>15 DEF RecordSettle
    <2>3. \A v \in Workers : job'[v] = "repay" => job[v] = "repay"
        BY <1>15 DEF RecordSettle
    <2>4. bill \in PastHold => bill' \in PastHold
        BY <1>15 DEF RecordSettle, Moved, NotMoved, MoveFails, MayMove, PastHold
    <2> QED
        BY <2>1, <2>2, <2>3, <2>4, NoNewMover
<1>16. ASSUME NEW w \in Workers, BeginRefund(w) PROVE MoverInv'
    <2>1. charged' = charged /\ repaid' = repaid
        BY <1>16 DEF BeginRefund
    <2>2. \A v \in Workers \ {w} : pc'[v] = pc[v] /\ job'[v] = job[v]
        BY <1>16 DEF BeginRefund
    <2>3. bill \in PastHold => bill' \in PastHold
        BY <1>16 DEF BeginRefund, Moved, NotMoved, MoveFails, MayMove, RefundFrom, PastHold
    <2>4. \/ job'[w] = "repay" /\ pc'[w] = "finish" /\ bill \notin PastHold /\ bill' \in PastHold
          \/ pc'[w] = "finish" /\ job' = job
        BY <1>16 DEF BeginRefund, Moved, NotMoved, MoveFails, MayMove, RefundFrom, PastHold, NeedsLiveRow
    <2>5. pc'[w] # "settle" \/ job'[w] # "repay"
        BY <1>16, <2>4 DEF BeginRefund, MoverInv, Mover
    <2>6. CASE job'[w] = "repay" /\ pc'[w] = "finish" /\ bill \notin PastHold /\ bill' \in PastHold
        BY <2>1, <2>2, <2>5, <2>6, OnlyMover
    <2>7. CASE pc'[w] = "finish" /\ job' = job
        BY <2>1, <2>2, <2>3, <2>7, NoNewMover
    <2> QED
        BY <2>4, <2>6, <2>7
<1>17. ASSUME NEW w \in Workers, Repay(w) PROVE MoverInv'
    <2>1. job[w] = "repay" /\ job'[w] # "repay" /\ bill' = bill /\ pc' = pc /\ charged' = charged
        BY <1>17 DEF Repay
    <2>2. \A v \in Workers \ {w} : job'[v] = job[v]
        BY <1>17 DEF Repay
    <2>3. repaid' = repaid \cup {w}
        BY <1>17 DEF Repay
    <2>4. Mover(w) /\ pc[w] # "settle" /\ w \notin charged
        BY <2>1 DEF Mover, MoverInv
    <2>5. \A v \in Workers : Mover(v)' => v = w
        BY <2>1, <2>2, <2>3, <2>4 DEF Mover, MoverInv
    <2> QED
        BY <2>1, <2>2, <2>3, <2>4, <2>5 DEF MoverInv, Mover
<1>18. ASSUME NEW w \in Workers, RecordRefund(w) PROVE MoverInv'
    <2>1. charged' = charged /\ repaid' = repaid
        BY <1>18 DEF RecordRefund
    <2>2. \A v \in Workers : pc'[v] = "settle" => pc[v] = "settle"
        BY <1>18 DEF RecordRefund
    <2>3. \A v \in Workers : job'[v] = "repay" => job[v] = "repay"
        BY <1>18 DEF RecordRefund
    <2>4. bill \in PastHold => bill' \in PastHold
        BY <1>18 DEF RecordRefund, Moved, NotMoved, MoveFails, MayMove, RefundResult, PastHold
    <2> QED
        BY <2>1, <2>2, <2>3, <2>4, NoNewMover
<1>19. ASSUME NEW w \in Workers, MarkStopped(w) PROVE MoverInv'
    <2>1. charged' = charged /\ repaid' = repaid
        BY <1>19 DEF MarkStopped
    <2>2. \A v \in Workers : pc'[v] = "settle" => pc[v] = "settle"
        BY <1>19 DEF MarkStopped
    <2>3. \A v \in Workers : job'[v] = "repay" => job[v] = "repay"
        BY <1>19 DEF MarkStopped
    <2>4. bill \in PastHold => bill' \in PastHold
        BY <1>19 DEF MarkStopped, Moved, NotMoved, MoveFails, MayMove, Unresolved, PastHold
    <2> QED
        BY <2>1, <2>2, <2>3, <2>4, NoNewMover
<1>20. ASSUME NEW w \in Workers, FinishWorker(w) PROVE MoverInv'
    <2>1. charged' = charged /\ repaid' = repaid
        BY <1>20 DEF FinishWorker
    <2>2. \A v \in Workers : pc'[v] = "settle" => pc[v] = "settle"
        BY <1>20 DEF FinishWorker
    <2>3. \A v \in Workers : job'[v] = "repay" => job[v] = "repay"
        BY <1>20 DEF FinishWorker
    <2>4. bill \in PastHold => bill' \in PastHold
        BY <1>20 DEF FinishWorker, PastHold
    <2> QED
        BY <2>1, <2>2, <2>3, <2>4, NoNewMover
<1>21. CASE ExpireLease
    <2>1. bill \in PastHold => bill' \in PastHold
        BY <1>21 DEF ExpireLease, PastHold
    <2> QED
        BY <1>21, <2>1, NoNewMover DEF ExpireLease
<1>22. CASE ClaimExpired
    <2>1. bill \in PastHold => bill' \in PastHold
        BY <1>22 DEF ClaimExpired, Resolved, Unresolved, PastHold
    <2> QED
        BY <1>22, <2>1, NoNewMover DEF ClaimExpired
<1>23. CASE FinishReconciliation
    <2>1. bill \in PastHold => bill' \in PastHold
        BY <1>23 DEF FinishReconciliation, Resolved, Unresolved, PastHold
    <2> QED
        BY <1>23, <2>1, NoNewMover DEF FinishReconciliation
<1>24. CASE Cancel
    <2>1. bill \in PastHold => bill' \in PastHold
        BY <1>24 DEF Cancel, PastHold
    <2> QED
        BY <1>24, <2>1, NoNewMover DEF Cancel
<1>25. CASE DeleteExpired
    <2>1. bill \in PastHold => bill' \in PastHold
        BY <1>25 DEF DeleteExpired, Resolved, Unresolved, PastHold
    <2> QED
        BY <1>25, <2>1, NoNewMover DEF DeleteExpired
<1>26. CASE UNCHANGED vars
    <2>1. bill \in PastHold => bill' \in PastHold
        BY <1>26 DEF vars, PastHold
    <2> QED
        BY <1>26, <2>1, NoNewMover DEF vars
<1> QED
    BY <1>1, <1>2, <1>3, <1>4, <1>5, <1>6, <1>7, <1>8, <1>9, <1>10, <1>11, <1>12, <1>13, <1>14, <1>15, <1>16, <1>17, <1>18, <1>19, <1>20, <1>21, <1>22, <1>23, <1>24, <1>25, <1>26 DEF Next, Worker

\* Whichever workers hold a session for a stream, at most one of them reaches
\* the ledger, and it settles or refunds, never both.
THEOREM OneOutcomeHolds == Spec => []OneOutcome
<1>1. Init => MoverInv
    BY InitMovers
<1>2. TypeOK /\ MoverInv /\ [Next]_vars => MoverInv'
    BY NextMovers
<1>3. TypeOK /\ MoverInv => OneOutcome
    BY DEF TypeOK, MoverInv, Mover, OneOutcome
<1> QED
    BY <1>1, <1>2, <1>3, TypeCorrect, PTL DEF Spec

-----------------------------------------------------------------------------
(* A resolved bill.                                                        *)

LEMMA NextResolution == [Next]_vars => (bill \in Resolution => bill' = bill)
<1> SUFFICES ASSUME [Next]_vars, bill \in Resolution PROVE bill' = bill
    OBVIOUS
<1> USE DEF Resolution
<1>1. ASSUME NEW w \in Workers, Claim(w) PROVE bill' = bill
    BY <1>1 DEF Claim
<1>2. ASSUME NEW w \in Workers, Crash(w) PROVE bill' = bill
    BY <1>2 DEF Crash
<1>3. ASSUME NEW w \in Workers, ReadBill(w) PROVE bill' = bill
    BY <1>3 DEF ReadBill, Restore
<1>4. ASSUME NEW w \in Workers, BeginReservation(w) PROVE bill' = bill
    BY <1>4 DEF BeginReservation, Restore, Moved, NotMoved, MoveFails, MayMove, NeedsLiveRow
<1>5. ASSUME NEW w \in Workers, Charge(w) PROVE bill' = bill
    BY <1>5 DEF Charge
<1>6. ASSUME NEW w \in Workers, ReleaseReservation(w) PROVE bill' = bill
    BY <1>6 DEF ReleaseReservation, Moved, NotMoved, MoveFails, MayMove, NeedsLiveRow
<1>7. ASSUME NEW w \in Workers, PersistReservation(w) PROVE bill' = bill
    BY <1>7 DEF PersistReservation, Saved, SaveRefused, SaveFails, Moved, MayMove
<1>8. ASSUME NEW w \in Workers, MarkReservation(w) PROVE bill' = bill
    BY <1>8 DEF MarkReservation, Moved, NotMoved, MoveFails, MayMove, NeedsLiveRow
<1>9. ASSUME NEW w \in Workers, Produce(w) PROVE bill' = bill
    BY <1>9 DEF Produce
<1>10. ASSUME NEW w \in Workers, Reserve(w) PROVE bill' = bill
    BY <1>10 DEF Reserve
<1>11. ASSUME NEW w \in Workers, PersistRaise(w) PROVE bill' = bill
    BY <1>11 DEF PersistRaise, Saved, SaveRefused, SaveFails, Moved, MayMove
<1>12. ASSUME NEW w \in Workers, Fail(w) PROVE bill' = bill
    BY <1>12 DEF Fail
<1>13. ASSUME NEW w \in Workers, BeginSettle(w) PROVE bill' = bill
    BY <1>13 DEF BeginSettle, Moved, NotMoved, MoveFails, MayMove, SettleFrom, NeedsLiveRow
<1>14. ASSUME NEW w \in Workers, SettleLedger(w) PROVE bill' = bill
    BY <1>14 DEF SettleLedger
<1>15. ASSUME NEW w \in Workers, RecordSettle(w) PROVE bill' = bill
    BY <1>15 DEF RecordSettle, Moved, NotMoved, MoveFails, MayMove, NeedsLiveRow
<1>16. ASSUME NEW w \in Workers, BeginRefund(w) PROVE bill' = bill
    BY <1>16 DEF BeginRefund, Moved, NotMoved, MoveFails, MayMove, RefundFrom, NeedsLiveRow
<1>17. ASSUME NEW w \in Workers, Repay(w) PROVE bill' = bill
    BY <1>17 DEF Repay
<1>18. ASSUME NEW w \in Workers, RecordRefund(w) PROVE bill' = bill
    BY <1>18 DEF RecordRefund, Moved, NotMoved, MoveFails, MayMove, RefundResult, NeedsLiveRow
<1>19. ASSUME NEW w \in Workers, MarkStopped(w) PROVE bill' = bill
    BY <1>19 DEF MarkStopped, Moved, NotMoved, MoveFails, MayMove, Unresolved, NeedsLiveRow
<1>20. ASSUME NEW w \in Workers, FinishWorker(w) PROVE bill' = bill
    BY <1>20 DEF FinishWorker
<1>21. CASE ExpireLease
    BY <1>21 DEF ExpireLease
<1>22. CASE ClaimExpired
    BY <1>22 DEF ClaimExpired, Resolved, Unresolved
<1>23. CASE FinishReconciliation
    BY <1>23 DEF FinishReconciliation, Resolved, Unresolved
<1>24. CASE Cancel
    BY <1>24 DEF Cancel
<1>25. CASE DeleteExpired
    BY <1>25 DEF DeleteExpired, Resolved, Unresolved
<1>26. CASE UNCHANGED vars
    BY <1>26 DEF vars
<1> QED
    BY <1>1, <1>2, <1>3, <1>4, <1>5, <1>6, <1>7, <1>8, <1>9, <1>10, <1>11, <1>12, <1>13, <1>14, <1>15, <1>16, <1>17, <1>18, <1>19, <1>20, <1>21, <1>22, <1>23, <1>24, <1>25, <1>26 DEF Next, Worker

\* A settled, refunded or uncertain bill is never taken up again, by no
\* worker, reconciler or expiry.
THEOREM ResolutionStaysHolds == Spec => ResolutionStays
<1>1. [Next]_vars => [(bill \in Resolution) => (bill' = bill)]_vars
    BY NextResolution
<1> QED
    BY <1>1, PTL DEF Spec, ResolutionStays

-----------------------------------------------------------------------------
(* The journal and the ledger, as long as one worker has the stream.       *)

\* A step of worker w leaves the other workers where they are.
Alone(w) ==
    /\ pc[w] # "idle" /\ pc'[w] # "idle"
    /\ \A v \in Workers \ {w} : /\ pc'[v] = pc[v] /\ job'[v] = job[v]
                                /\ v \in done' <=> v \in done

\* What a step of the only worker does to the journal and the ledger.
LEMMA WorkerStands ==
    ASSUME TypeOK, NEW w \in Workers, Worker(w) \/ Crash(w),
           pc[w] = "idle" => job[w] = "none"
    PROVE  /\ Alone(w)
           /\ Standing(w) /\ JournalIsTrue => Standing(w)' /\ JournalIsTrue'
<1> USE DEF TypeOK, Jobs, row, session, ledger, Goto, Fault
<1>1. CASE ReadBill(w)
    <2>1. Alone(w)
        BY <1>1 DEF Alone, ReadBill, Restore
    <2>2. ASSUME Standing(w), JournalIsTrue PROVE Standing(w)' /\ JournalIsTrue'
        BY <1>1, <2>2 DEF Standing, JournalIsTrue, ReadBill, Restore
    <2> QED
        BY <2>1, <2>2
<1>2. CASE BeginReservation(w)
    <2>1. Alone(w)
        BY <1>2 DEF Alone, BeginReservation, Restore
    <2>2. ASSUME Standing(w), JournalIsTrue PROVE Standing(w)' /\ JournalIsTrue'
        BY <1>2, <2>2 DEF Standing, JournalIsTrue, BeginReservation, Restore, Moved, NotMoved,
           MoveFails, MayMove, NeedsLiveRow
    <2> QED
        BY <2>1, <2>2
<1>3. CASE Charge(w)
    <2>1. Alone(w)
        BY <1>3 DEF Alone, Charge
    <2>2. ASSUME Standing(w), JournalIsTrue PROVE Standing(w)' /\ JournalIsTrue'
        BY <1>3, <2>2 DEF Standing, JournalIsTrue, Charge
    <2> QED
        BY <2>1, <2>2
<1>4. CASE ReleaseReservation(w)
    <2>1. Alone(w)
        BY <1>4 DEF Alone, ReleaseReservation
    <2>2. ASSUME Standing(w), JournalIsTrue PROVE Standing(w)' /\ JournalIsTrue'
        BY <1>4, <2>2 DEF Standing, JournalIsTrue, ReleaseReservation, Moved, NotMoved,
           MoveFails, MayMove, NeedsLiveRow
    <2> QED
        BY <2>1, <2>2
<1>5. CASE PersistReservation(w)
    <2>1. Alone(w)
        BY <1>5 DEF Alone, PersistReservation
    <2>2. ASSUME Standing(w), JournalIsTrue PROVE Standing(w)' /\ JournalIsTrue'
        BY <1>5, <2>2 DEF Standing, JournalIsTrue, PersistReservation, Saved, SaveRefused,
           SaveFails, Moved, MayMove, NeedsLiveRow
    <2> QED
        BY <2>1, <2>2
<1>6. CASE MarkReservation(w)
    <2>1. Alone(w)
        BY <1>6 DEF Alone, MarkReservation
    <2>2. ASSUME Standing(w), JournalIsTrue PROVE Standing(w)' /\ JournalIsTrue'
        BY <1>6, <2>2 DEF Standing, JournalIsTrue, MarkReservation, Moved, NotMoved,
           MoveFails, MayMove, NeedsLiveRow
    <2> QED
        BY <2>1, <2>2
<1>7. CASE Produce(w)
    <2>1. Alone(w)
        BY <1>7 DEF Alone, Produce
    <2>2. ASSUME Standing(w), JournalIsTrue PROVE Standing(w)' /\ JournalIsTrue'
        BY <1>7, <2>2 DEF Standing, JournalIsTrue, Produce
    <2> QED
        BY <2>1, <2>2
<1>8. CASE Reserve(w)
    <2>1. Alone(w)
        BY <1>8 DEF Alone, Reserve
    <2>2. ASSUME Standing(w), JournalIsTrue PROVE Standing(w)' /\ JournalIsTrue'
        BY <1>8, <2>2 DEF Standing, JournalIsTrue, Reserve
    <2> QED
        BY <2>1, <2>2
<1>9. CASE PersistRaise(w)
    <2>1. Alone(w)
        BY <1>9 DEF Alone, PersistRaise
    <2>2. ASSUME Standing(w), JournalIsTrue PROVE Standing(w)' /\ JournalIsTrue'
        BY <1>9, <2>2 DEF Standing, JournalIsTrue, PersistRaise, Saved, SaveRefused,
           SaveFails, Moved, MayMove, NeedsLiveRow
    <2> QED
        BY <2>1, <2>2
<1>10. CASE Fail(w)
    <2>1. Alone(w)
        BY <1>10 DEF Alone, Fail
    <2>2. ASSUME Standing(w), JournalIsTrue PROVE Standing(w)' /\ JournalIsTrue'
        BY <1>10, <2>2 DEF Standing, JournalIsTrue, Fail
    <2> QED
        BY <2>1, <2>2
<1>11. CASE BeginSettle(w)
    <2>1. Alone(w)
        BY <1>11 DEF Alone, BeginSettle
    <2>2. ASSUME Standing(w), JournalIsTrue PROVE Standing(w)' /\ JournalIsTrue'
        BY <1>11, <2>2 DEF Standing, JournalIsTrue, BeginSettle, Moved, NotMoved, MoveFails,
           MayMove, NeedsLiveRow, SettleFrom
    <2> QED
        BY <2>1, <2>2
<1>12. CASE SettleLedger(w)
    <2>1. Alone(w)
        BY <1>12 DEF Alone, SettleLedger
    <2>2. ASSUME Standing(w), JournalIsTrue PROVE Standing(w)' /\ JournalIsTrue'
        BY <1>12, <2>2 DEF Standing, JournalIsTrue, SettleLedger
    <2> QED
        BY <2>1, <2>2
<1>13. CASE RecordSettle(w)
    <2>1. Alone(w)
        BY <1>13 DEF Alone, RecordSettle
    <2>2. ASSUME Standing(w), JournalIsTrue PROVE Standing(w)' /\ JournalIsTrue'
        BY <1>13, <2>2 DEF Standing, JournalIsTrue, RecordSettle, Moved, NotMoved, MoveFails,
           MayMove, NeedsLiveRow
    <2> QED
        BY <2>1, <2>2
<1>14. CASE BeginRefund(w)
    <2>1. Alone(w)
        BY <1>14 DEF Alone, BeginRefund
    <2>2. ASSUME Standing(w), JournalIsTrue PROVE Standing(w)' /\ JournalIsTrue'
        BY <1>14, <2>2 DEF Standing, JournalIsTrue, BeginRefund, Moved, NotMoved, MoveFails,
           MayMove, NeedsLiveRow, RefundFrom
    <2> QED
        BY <2>1, <2>2
<1>15. CASE Repay(w)
    <2>1. Alone(w)
        BY <1>15 DEF Alone, Repay
    <2>2. ASSUME Standing(w), JournalIsTrue PROVE Standing(w)' /\ JournalIsTrue'
        BY <1>15, <2>2 DEF Standing, JournalIsTrue, Repay
    <2> QED
        BY <2>1, <2>2
<1>16. CASE RecordRefund(w)
    <2>1. Alone(w)
        BY <1>16 DEF Alone, RecordRefund
    <2>2. ASSUME Standing(w), JournalIsTrue PROVE Standing(w)' /\ JournalIsTrue'
        BY <1>16, <2>2 DEF Standing, JournalIsTrue, RecordRefund, Moved, NotMoved, MoveFails,
           MayMove, NeedsLiveRow, RefundResult
    <2> QED
        BY <2>1, <2>2
<1>17. CASE MarkStopped(w)
    <2>1. Alone(w)
        BY <1>17 DEF Alone, MarkStopped
    <2>2. ASSUME Standing(w), JournalIsTrue PROVE Standing(w)' /\ JournalIsTrue'
        BY <1>17, <2>2 DEF Standing, JournalIsTrue, MarkStopped, Moved, NotMoved, MoveFails,
           MayMove, NeedsLiveRow, Unresolved
    <2> QED
        BY <2>1, <2>2
<1>18. CASE FinishWorker(w)
    <2>1. Alone(w)
        BY <1>18 DEF Alone, FinishWorker
    <2>2. ASSUME Standing(w), JournalIsTrue PROVE Standing(w)' /\ JournalIsTrue'
        BY <1>18, <2>2 DEF Standing, JournalIsTrue, FinishWorker
    <2> QED
        BY <2>1, <2>2
<1>19. CASE Crash(w)
    <2>1. Alone(w)
        BY <1>19 DEF Alone, Crash
    <2>2. ASSUME Standing(w), JournalIsTrue PROVE Standing(w)' /\ JournalIsTrue'
        BY <1>19, <2>2 DEF Standing, JournalIsTrue, Crash
    <2> QED
        BY <2>1, <2>2
<1> QED
    BY <1>1, <1>2, <1>3, <1>4, <1>5, <1>6, <1>7, <1>8, <1>9, <1>10, <1>11, <1>12, <1>13,
       <1>14, <1>15, <1>16, <1>17, <1>18, <1>19 DEF Worker

\* The other writers of the row resolve a bill and leave the workers alone.
LEMMA RowStands ==
    ASSUME TypeOK, TruthInv,
           ExpireLease \/ ClaimExpired \/ FinishReconciliation \/ Cancel \/ DeleteExpired
             \/ UNCHANGED vars
    PROVE  TruthInv'
<1>1. UNCHANGED <<pc, pre, job, done, debit, actual>> /\ bill' \in {bill, Resolved}
    BY DEF ExpireLease, ClaimExpired, FinishReconciliation, Cancel, DeleteExpired, vars, session,
       ledger
<1>2. bill' = bill \/ (bill \in Unresolved /\ bill' = "uncertain")
    BY <1>1 DEF Resolved
<1>3. JournalIsTrue => JournalIsTrue'
    BY <1>1, <1>2 DEF JournalIsTrue
<1>4. \A w \in Workers : Standing(w) => Standing(w)'
    BY <1>1, <1>2 DEF Standing, Unresolved
<1>5. bill = "none" => bill' = "none"
    BY <1>2 DEF Unresolved
<1> QED
    BY <1>1, <1>3, <1>4, <1>5 DEF TruthInv, NoTakeover

LEMMA NextTruth == TypeOK /\ TruthInv /\ [Next]_vars => TruthInv'
<1> SUFFICES ASSUME TypeOK, TruthInv, [Next]_vars PROVE TruthInv'
    OBVIOUS
<1>1. ASSUME NEW w \in Workers, Claim(w) PROVE TruthInv'
    <2>1. /\ pc[w] = "idle" /\ pc' = [pc EXCEPT ![w] = "start"]
          /\ UNCHANGED <<bill, pre, job, done, debit, actual>>
        BY <1>1 DEF Claim, Goto, ledger
    <2>2. \A v \in Workers : pc'[v] = IF v = w THEN "start" ELSE pc[v]
        BY <2>1 DEF TypeOK
    <2>3. ASSUME NoTakeover'
          PROVE  /\ JournalIsTrue' /\ Standing(w)'
                 /\ \A v \in Workers : pc'[v] # "idle" => v = w
        <3>1. \A v \in Workers : pc[v] = "idle"
            BY <2>1, <2>2, <2>3 DEF NoTakeover
        <3>2. NoTakeover
            BY <3>1 DEF NoTakeover
        <3>3. bill = "none" /\ debit = 0 /\ job[w] = "none" /\ w \notin done
            BY <2>1, <3>1, <3>2 DEF TruthInv
        <3> QED
            BY <2>1, <2>2, <3>1, <3>3 DEF JournalIsTrue, Standing
    <2>4. \A v \in Workers : pc'[v] = "idle" => job'[v] = "none" /\ v \notin done'
        BY <2>1, <2>2 DEF TruthInv
    <2>5. ~\A v \in Workers : pc'[v] = "idle"
        BY <2>2
    <2> QED
        BY <2>3, <2>4, <2>5 DEF TruthInv
<1>2. ASSUME NEW w \in Workers, Worker(w) \/ Crash(w) PROVE TruthInv'
    <2>1. Alone(w) /\ (Standing(w) /\ JournalIsTrue => Standing(w)' /\ JournalIsTrue')
        BY <1>2, WorkerStands DEF TruthInv
    <2>2. ASSUME NoTakeover'
          PROVE  /\ JournalIsTrue' /\ Standing(w)'
                 /\ \A v \in Workers : pc'[v] # "idle" => v = w
        <3>1. NoTakeover
            BY <2>1, <2>2 DEF NoTakeover, Alone
        <3>2. Standing(w) /\ JournalIsTrue
            BY <2>1, <3>1 DEF TruthInv, Alone
        <3> QED
            BY <2>1, <2>2, <3>2 DEF NoTakeover, Alone
    <2>3. \A v \in Workers : pc'[v] = "idle" => job'[v] = "none" /\ v \notin done'
        BY <2>1 DEF TruthInv, Alone
    <2>4. ~\A v \in Workers : pc'[v] = "idle"
        BY <2>1 DEF Alone
    <2> QED
        BY <2>2, <2>3, <2>4 DEF TruthInv
<1> QED
    BY <1>1, <1>2, RowStands DEF Next

\* What the billing_status of a row says is what happened to the user's quota,
\* at every step of a worker, the reconciler, cancellation and expiry, and with
\* every statement failing, as long as no second worker takes the stream over.
THEOREM BillTruthHolds == Spec => []BillTellsTheTruth
<1>1. Init => TruthInv
    BY DEF Init, TruthInv, JournalIsTrue
<1>2. TypeOK /\ TruthInv /\ [Next]_vars => TruthInv'
    BY NextTruth
<1>3. TruthInv => BillTellsTheTruth
    BY DEF TruthInv, BillTellsTheTruth
<1> QED
    BY <1>1, <1>2, <1>3, TypeCorrect, PTL DEF Spec
=============================================================================
