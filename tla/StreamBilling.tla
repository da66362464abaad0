---------------------------- MODULE StreamBilling ----------------------------
(***************************************************************************)
(* Billing of a recovered stream: the billing_status of its row is a        *)
(* journal of what happens to the user's quota, kept by compare-and-set     *)
(* (model.UpdateStreamBillingState, service/stream_recovery_billing.go, the *)
(* stream branches of service/billing.go and service/billing_session.go).   *)
(*                                                                          *)
(* A transition is announced in the row, carried out on the ledger and      *)
(* recorded in the row, in three steps; workers that lost their lease, the  *)
(* reconciler, cancellation, expiry and crashes come in between.  The row's *)
(* execution columns are reduced to what the billing statements look at.    *)
(* What happens inside one pre-consume, settlement or refund is the subject *)
(* of BillingSession.                                                       *)
(***************************************************************************)
EXTENDS Integers

CONSTANTS
    Workers,   \* workers that may run for the execution, one after another
    Estimate,  \* quota reserved before the relay
    Raised,    \* quota reserved after a failover to a dearer channel
    Actuals,   \* quota really used
    MaxFaults  \* bound: failed statements and crashes

ASSUME QuotaAssumption ==
    /\ Estimate \in Nat \ {0} /\ Raised \in Nat /\ Estimate < Raised
    /\ Actuals \subseteq Nat
    /\ MaxFaults \in Nat

Statuses == {"running", "recovering", "final", "unsafe", "deleted"}

\* A transition that has been announced and not yet recorded, or a hold.
Unresolved == {"reserving", "reserved", "settling", "refunding"}
BillStates == Unresolved \cup {"none", "settled", "refunded", "uncertain"}

PCs == {"idle", "start", "cas", "charge", "release", "persist", "mark", "relay", "raise",
        "refund", "settle", "settled", "unsettled", "finish", "stop", "end"}
Jobs == {"none", "repay", "repaid", "unpaid"}

VARIABLES
    status, lease, holder,  \* execution columns of the row
    bill, snap,             \* billing_status and reserved_quota
    pc, pre,                \* of a worker: program point, preConsumedQuota
    job,                    \* the asynchronous refund of a worker's session
    done,                   \* sessions marked settled or refunded
    output,                 \* workers that have produced business output
    \* the user's quota taken for this stream, and the auxiliary record of
    \* the workers whose settlement or refund reached it
    debit, charged, repaid, actual, faults

row == <<status, lease, holder>>
session == <<pc, pre, job, done, output>>
ledger == <<debit, charged, repaid, actual>>
vars == <<row, bill, snap, session, ledger, faults>>

Goto(w, label) == pc' = [pc EXCEPT ![w] = label]
Fault == faults < MaxFaults /\ faults' = faults + 1

-----------------------------------------------------------------------------
(* model.UpdateStreamBillingState.                                         *)

NeedsLiveRow == {"reserving", "reserved", "settling", "refunding"}

\* Mutant: an uncertain bill can be taken up again.
MayMoveUncertain(from, to) ==
    /\ status # "deleted" /\ bill \in from
    /\ to \in NeedsLiveRow => status = "running" /\ lease

\* Nothing leads out of uncertain; a hold or an announcement needs a row that
\* is running under a live lease, whoever holds it (the workers run only when
\* attempt_count > 0).
MayMove(from, to) ==
    /\ status # "deleted" /\ bill \in from
    /\ to # "uncertain" => bill # "uncertain"
    /\ to \in NeedsLiveRow => status = "running" /\ lease

\* The statement wins, or does not apply.
Moved(from, to) == MayMove(from, to) /\ bill' = to
NotMoved(from, to) == ~MayMove(from, to) /\ UNCHANGED bill

\* The statement fails: its effect is unknown to the caller.
MoveFails(from, to) == Fault /\ (Moved(from, to) \/ UNCHANGED bill)

\* The snapshot is saved; when the row is not live any more it is saved with
\* an uncertain bill, and the caller fails all the same.
Saved(w, from) ==
    Moved(from, "reserved") /\ snap' = pre[w]
SaveRefused(w, from) ==
    /\ ~MayMove(from, "reserved")
    /\ IF status # "deleted" /\ bill \in from \cup {"uncertain"} /\ ~(status = "running" /\ lease)
       THEN bill' = "uncertain" /\ snap' = pre[w]
       ELSE UNCHANGED <<bill, snap>>
SaveFails(w, from) ==
    Fault /\ (Saved(w, from) \/ UNCHANGED <<bill, snap>>)

-----------------------------------------------------------------------------
(* PreConsumeBilling.                                                      *)

\* A worker claims a row whose lease has expired (StreamExecution's Claim).
Claim(w) ==
    /\ pc[w] = "idle" /\ status = "running" /\ ~lease
    /\ holder' = w /\ lease' = TRUE
    /\ Goto(w, "start")
    /\ UNCHANGED <<status, bill, snap, pre, job, done, output, ledger, faults>>

\* restoreStreamBillingSession: the reservation of an earlier worker.
Restore(w) ==
    /\ pre' = [pre EXCEPT ![w] = snap]
    /\ done' = IF bill = "settled" THEN done \cup {w} ELSE done
    /\ Goto(w, "relay")

\* beginStreamBillingReservation reads the row, then announces.
ReadBill(w) ==
    /\ pc[w] = "start"
    /\ \/ bill \in {"reserved", "settled"} /\ status # "deleted" /\ Restore(w)
       \/ bill = "none" /\ status # "deleted" /\ Goto(w, "cas") /\ UNCHANGED <<pre, done>>
       \/ /\ bill \notin {"reserved", "settled", "none"} \/ status = "deleted"
          /\ Goto(w, "finish") /\ UNCHANGED <<pre, done>>
    /\ UNCHANGED <<row, bill, snap, job, output, ledger, faults>>

BeginReservation(w) ==
    /\ pc[w] = "cas"
    /\ \/ /\ Moved({"none"}, "reserving") /\ Goto(w, "charge")
          /\ UNCHANGED <<pre, done, faults>>
       \/ /\ NotMoved({"none"}, "reserving")
          /\ IF bill \in {"reserved", "settled"} THEN Restore(w)
             ELSE Goto(w, "finish") /\ UNCHANGED <<pre, done>>
          /\ UNCHANGED faults
       \/ MoveFails({"none"}, "reserving") /\ Goto(w, "finish") /\ UNCHANGED <<pre, done>>
    /\ UNCHANGED <<row, snap, job, output, ledger>>

\* NewBillingSession takes the estimate or is refused.
Charge(w) ==
    /\ pc[w] = "charge"
    /\ \/ /\ debit' = debit + Estimate
          /\ pre' = [pre EXCEPT ![w] = Estimate]
          /\ Goto(w, "persist")
       \/ Goto(w, "release") /\ UNCHANGED <<debit, pre>>
    /\ UNCHANGED <<row, bill, snap, job, done, output, charged, repaid, actual, faults>>

ReleaseReservation(w) ==
    /\ pc[w] = "release"
    /\ \/ (Moved({"reserving"}, "none") \/ NotMoved({"reserving"}, "none")) /\ UNCHANGED faults
       \/ MoveFails({"reserving"}, "none")
    /\ Goto(w, "finish")
    /\ UNCHANGED <<row, snap, pre, job, done, output, ledger>>

\* persistStreamBillingReservation.
PersistReservation(w) ==
    /\ pc[w] = "persist"
    /\ \/ Saved(w, {"reserving", "reserved"}) /\ Goto(w, "relay") /\ UNCHANGED faults
       \/ SaveRefused(w, {"reserving", "reserved"}) /\ Goto(w, "mark") /\ UNCHANGED faults
       \/ SaveFails(w, {"reserving", "reserved"}) /\ Goto(w, "mark")
    /\ UNCHANGED <<row, pre, job, done, output, ledger>>

MarkReservation(w) ==
    /\ pc[w] = "mark"
    /\ \/ (Moved({"reserving"}, "uncertain") \/ NotMoved({"reserving"}, "uncertain"))
          /\ UNCHANGED faults
       \/ MoveFails({"reserving"}, "uncertain")
    /\ Goto(w, "refund")
    /\ UNCHANGED <<row, snap, pre, job, done, output, ledger>>

-----------------------------------------------------------------------------
(* The relay: output, a raised reservation, success or failure.            *)

\* Business output, or an upstream submission that must not be repeated: from
\* here on a failure does not refund.
Produce(w) ==
    /\ pc[w] = "relay" /\ w \notin output
    /\ output' = output \cup {w}
    /\ UNCHANGED <<row, bill, snap, pc, pre, job, done, ledger, faults>>

\* BillingSession.Reserve: the ledger first, the row afterwards.
Reserve(w) ==
    /\ pc[w] = "relay" /\ w \notin output /\ w \notin done /\ pre[w] < Raised
    /\ debit' = debit + (Raised - pre[w])
    /\ pre' = [pre EXCEPT ![w] = Raised]
    /\ Goto(w, "raise")
    /\ UNCHANGED <<row, bill, snap, job, done, output, charged, repaid, actual, faults>>

PersistRaise(w) ==
    /\ pc[w] = "raise"
    /\ \/ Saved(w, {"reserved"}) /\ Goto(w, "relay") /\ UNCHANGED faults
       \/ SaveRefused(w, {"reserved"}) /\ Goto(w, "refund") /\ UNCHANGED faults
       \/ SaveFails(w, {"reserved"}) /\ Goto(w, "refund")
    /\ UNCHANGED <<row, pre, job, done, output, ledger>>

\* The relay fails: after output the bill is left uncertain, else refunded.
Fail(w) ==
    /\ pc[w] = "relay"
    /\ Goto(w, IF w \in output THEN "stop" ELSE "refund")
    /\ UNCHANGED <<row, bill, snap, pre, job, done, output, ledger, faults>>

\* Mutant: a refunded stream can still be settled.
SettleFromRefunded == {"reserved", "refunded"}
\* BillingSession.Settle announces from a hold only.
SettleFrom == {"reserved"}

\* BillingSession.Settle; its error is only logged.
BeginSettle(w) ==
    /\ pc[w] = "relay"
    /\ \/ /\ bill = "settled" /\ status # "deleted"
          /\ done' = done \cup {w} /\ Goto(w, "finish")
          /\ UNCHANGED <<bill, faults>>
       \/ /\ bill # "settled" \/ status = "deleted"
          /\ \/ Moved(SettleFrom, "settling") /\ Goto(w, "settle") /\ UNCHANGED faults
             \/ NotMoved(SettleFrom, "settling") /\ Goto(w, "finish") /\ UNCHANGED faults
             \/ MoveFails(SettleFrom, "settling") /\ Goto(w, "finish")
          /\ UNCHANGED done
    /\ UNCHANGED <<row, snap, pre, job, output, ledger>>

\* settle on the ledger.  A failing funding source changes nothing, a failing
\* token adjustment comes after the funds have moved.
SettleLedger(w) ==
    /\ pc[w] = "settle"
    /\ \/ /\ w \notin done
          /\ \E q \in Actuals :
               debit' = debit + (q - pre[w]) /\ actual' = q
          /\ charged' = charged \cup {w} /\ done' = done \cup {w}
          /\ \/ Goto(w, "settled") /\ UNCHANGED faults
             \/ Goto(w, "unsettled") /\ Fault
       \/ w \in done /\ Goto(w, "settled") /\ UNCHANGED <<debit, actual, charged, done, faults>>
       \/ Goto(w, "unsettled") /\ Fault /\ UNCHANGED <<debit, actual, charged, done>>
    /\ UNCHANGED <<row, bill, snap, pre, job, output, repaid>>

RecordSettle(w) ==
    LET result == IF pc[w] = "settled" THEN "settled" ELSE "uncertain"
    IN  /\ pc[w] \in {"settled", "unsettled"}
        /\ \/ (Moved({"settling"}, result) \/ NotMoved({"settling"}, result)) /\ UNCHANGED faults
           \/ MoveFails({"settling"}, result)
        /\ Goto(w, "finish")
        /\ UNCHANGED <<row, snap, pre, job, done, output, ledger>>

RefundFrom == {"reserving", "reserved", "uncertain"}

\* BillingSession.Refund announces; a session settled or refunded does not.
\* The money goes back in a job of its own.
BeginRefund(w) ==
    /\ pc[w] = "refund"
    /\ \/ w \in done /\ UNCHANGED <<bill, job, done, faults>>
       \/ /\ w \notin done /\ Moved(RefundFrom, "refunding")
          /\ done' = done \cup {w} /\ job' = [job EXCEPT ![w] = "repay"]
          /\ UNCHANGED faults
       \/ w \notin done /\ NotMoved(RefundFrom, "refunding") /\ UNCHANGED <<job, done, faults>>
       \/ w \notin done /\ MoveFails(RefundFrom, "refunding") /\ UNCHANGED <<job, done>>
    /\ Goto(w, "finish")
    /\ UNCHANGED <<row, snap, pre, output, ledger>>

\* The refund job; a job that fails has returned all or a part.
Repay(w) ==
    /\ job[w] = "repay"
    /\ repaid' = repaid \cup {w}
    /\ \/ debit' = debit - pre[w] /\ job' = [job EXCEPT ![w] = "repaid"] /\ UNCHANGED faults
       \/ /\ \E part \in 0..pre[w] : debit' = debit - part
          /\ job' = [job EXCEPT ![w] = "unpaid"] /\ Fault
    /\ UNCHANGED <<row, bill, snap, pc, pre, done, output, charged, actual>>

\* Mutant: a failed refund is recorded as refunded.
RefundResultIgnored(w) == "refunded"

RefundResult(w) == IF job[w] = "repaid" THEN "refunded" ELSE "uncertain"

RecordRefund(w) ==
    /\ job[w] \in {"repaid", "unpaid"}
    /\ \/ /\ \/ Moved({"refunding"}, RefundResult(w))
             \/ NotMoved({"refunding"}, RefundResult(w))
          /\ UNCHANGED faults
       \/ MoveFails({"refunding"}, RefundResult(w))
    /\ job' = [job EXCEPT ![w] = "none"]
    /\ UNCHANGED <<row, snap, pc, pre, done, output, ledger>>

\* The worker's tail: failure after output, or a frame whose commit is
\* uncertain, leaves an unresolved bill uncertain.
MarkStopped(w) ==
    /\ pc[w] \in {"stop", "finish"}
    /\ \/ (Moved(Unresolved, "uncertain") \/ NotMoved(Unresolved, "uncertain")) /\ UNCHANGED faults
       \/ MoveFails(Unresolved, "uncertain")
    /\ Goto(w, IF pc[w] = "stop" THEN "finish" ELSE "end")
    /\ UNCHANGED <<row, snap, pre, job, done, output, ledger>>

\* FinishStreamExecution leaves the bill as it is.
FinishWorker(w) ==
    /\ pc[w] = "finish"
    /\ IF holder = w /\ lease /\ status = "running"
       THEN status' = "final" /\ lease' = FALSE /\ holder' = w
       ELSE UNCHANGED row
    /\ Goto(w, "end")
    /\ UNCHANGED <<bill, snap, pre, job, done, output, ledger, faults>>

-----------------------------------------------------------------------------
(* The row's other writers.                                                *)

\* Mutant: the expiry of an execution forgets a hold.
ResolvedForgets == IF bill \in Unresolved \ {"reserved"} THEN "uncertain" ELSE bill

\* CASE WHEN billing_status IN unresolved THEN uncertain.
Resolved == IF bill \in Unresolved THEN "uncertain" ELSE bill

ExpireLease ==
    /\ lease
    /\ lease' = FALSE
    /\ UNCHANGED <<status, holder, bill, snap, session, ledger, faults>>

\* ClaimExpiredStreamExecutionForReconciliation.
ClaimExpired ==
    /\ status \in {"running", "recovering"} /\ ~lease
    /\ status' = "recovering" /\ lease' = TRUE /\ bill' = Resolved
    /\ UNCHANGED <<holder, snap, session, ledger, faults>>

\* FinishStreamExecutionReconciliation.
FinishReconciliation ==
    /\ status = "recovering" /\ lease
    /\ status' \in {"final", "unsafe"} /\ lease' = FALSE /\ bill' = Resolved
    /\ UNCHANGED <<holder, snap, session, ledger, faults>>

\* CancelOwnedStreamExecution leaves the bill as it is.
Cancel ==
    /\ status \in {"running", "recovering"}
    /\ status' = "final" /\ lease' = FALSE
    /\ UNCHANGED <<holder, bill, snap, session, ledger, faults>>

\* DeleteExpiredStreamExecutions, one transaction.
DeleteExpired ==
    /\ status # "deleted"
    /\ bill' = Resolved
    /\ status' = CASE status \in {"running", "recovering"} -> "unsafe"
                   [] status = "final" /\ bill' # "uncertain" -> "deleted"
                   [] OTHER -> status
    /\ lease' = FALSE
    /\ UNCHANGED <<holder, snap, session, ledger, faults>>

Crash(w) ==
    /\ pc[w] \notin {"idle", "end"} \/ job[w] # "none"
    /\ Fault
    /\ Goto(w, "end") /\ job' = [job EXCEPT ![w] = "none"]
    /\ UNCHANGED <<row, bill, snap, pre, done, output, ledger>>

-----------------------------------------------------------------------------
\* The first worker is about to claim a new row.
Init ==
    /\ status = "running" /\ lease = FALSE /\ holder \in Workers
    /\ bill = "none" /\ snap = 0
    /\ pc = [w \in Workers |-> "idle"] /\ pre = [w \in Workers |-> 0]
    /\ job = [w \in Workers |-> "none"] /\ done = {} /\ output = {}
    /\ debit = 0 /\ charged = {} /\ repaid = {} /\ actual = 0
    /\ faults = 0

Worker(w) ==
    \/ ReadBill(w) \/ BeginReservation(w) \/ Charge(w) \/ ReleaseReservation(w)
    \/ PersistReservation(w) \/ MarkReservation(w)
    \/ Produce(w) \/ Reserve(w) \/ PersistRaise(w) \/ Fail(w)
    \/ BeginSettle(w) \/ SettleLedger(w) \/ RecordSettle(w)
    \/ BeginRefund(w) \/ Repay(w) \/ RecordRefund(w)
    \/ MarkStopped(w) \/ FinishWorker(w)

Next ==
    \/ \E w \in Workers : Claim(w) \/ Worker(w) \/ Crash(w)
    \/ ExpireLease \/ ClaimExpired \/ FinishReconciliation \/ Cancel \/ DeleteExpired

Spec == Init /\ [][Next]_vars

\* The expiry job runs again and again (system task of the reconciler).
FairSpec == Spec /\ WF_vars(DeleteExpired)

-----------------------------------------------------------------------------
(* Correctness.                                                            *)

\* Types of the journal and the sessions; reserved_quota is one of the targets
\* a session really reserved (persistStreamBillingReservation).
TypeOK ==
    /\ status \in Statuses /\ lease \in BOOLEAN /\ holder \in Workers
    /\ bill \in BillStates /\ snap \in {0, Estimate, Raised}
    /\ pc \in [Workers -> PCs] /\ pre \in [Workers -> {0, Estimate, Raised}]
    /\ job \in [Workers -> Jobs] /\ done \subseteq Workers /\ output \subseteq Workers
    /\ debit \in Int /\ charged \subseteq Workers /\ repaid \subseteq Workers
    /\ actual \in Actuals \cup {0} /\ faults \in 0..MaxFaults

\* The stream is charged at most once or refunded at most once, never both,
\* whichever workers hold a session for it.
OneOutcome ==
    /\ \A v, w \in charged \cup repaid : v = w
    /\ charged \cap repaid = {}

\* Why: a worker that may move money, or has, met a bill that was a hold, and
\* no bill becomes a hold again.
PastHold == {"settling", "refunding", "settled", "refunded", "uncertain"}
Mover(w) == pc[w] = "settle" \/ job[w] = "repay" \/ w \in charged \cup repaid
\* The inductive invariant behind OneOutcome: UpdateStreamBillingState lets one
\* worker through.
MoverInv ==
    /\ \A w \in Workers : Mover(w) => bill \in PastHold
    /\ \A v, w \in Workers : Mover(v) /\ Mover(w) => v = w
    /\ \A w \in Workers : pc[w] = "settle" => job[w] # "repay" /\ w \notin charged \cup repaid
    /\ \A w \in Workers : job[w] = "repay" => w \notin charged \cup repaid
    /\ charged \cap repaid = {}

\* The journal tells the truth: a bill that says none or refunded has nothing
\* of the user's quota, a settled one exactly the usage.
JournalIsTrue ==
    /\ bill \in {"none", "refunded"} => debit = 0
    /\ bill = "settled" => debit = actual

\* It does as long as no second worker took the stream over from one that lost
\* its lease.
NoTakeover == \A v, w \in Workers : pc[v] # "idle" /\ pc[w] # "idle" => v = w
BillTellsTheTruth == NoTakeover => JournalIsTrue

\* Where the only worker of the stream is, its journal and the ledger agree.
Standing(w) ==
    /\ pc[w] \in {"start", "cas"} => bill = "none"
    /\ pc[w] \in {"charge", "release"} => bill \in {"reserving", "uncertain"}
    /\ pc[w] \in {"start", "cas", "charge", "release"} => debit = 0 /\ w \notin done
    /\ pc[w] = "persist" => bill \in {"reserving", "uncertain"}
    /\ pc[w] \in {"mark", "refund"} => bill \in {"reserving", "reserved", "uncertain"}
    /\ pc[w] \in {"relay", "raise", "stop"} => bill \in {"reserved", "uncertain"}
    /\ pc[w] \in {"settle", "settled", "unsettled"} => bill \in {"settling", "uncertain"}
    /\ pc[w] \in {"persist", "mark", "relay", "raise", "refund", "settle"} =>
         debit = pre[w] /\ w \notin done
    /\ pc[w] = "settled" => debit = actual
    /\ job[w] # "none" => pc[w] \in {"finish", "end"} /\ bill \in {"refunding", "uncertain"}
    /\ job[w] = "repay" => debit = pre[w]
    /\ job[w] = "repaid" => debit = 0

\* The invariant behind BillTellsTheTruth.
TruthInv ==
    /\ \A w \in Workers : pc[w] = "idle" => job[w] = "none" /\ w \notin done
    /\ NoTakeover =>
         /\ JournalIsTrue
         /\ (\A w \in Workers : pc[w] = "idle") => bill = "none" /\ debit = 0
         /\ \A w \in Workers : pc[w] # "idle" => Standing(w)

\* A settled, refunded or uncertain bill is never taken up again, by no
\* worker, reconciler or expiry.
Resolution == {"settled", "refunded", "uncertain"}
ResolutionStays == [][(bill \in Resolution) => (bill' = bill)]_vars

\* No hold and no announced transition stays unresolved for ever.
UnresolvedIsResolved == (bill \in Unresolved) ~> (bill \notin Unresolved)
=============================================================================
