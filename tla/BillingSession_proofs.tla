------------------------ MODULE BillingSession_proofs -----------------------
(* Theorems about BillingSession for every set of requests, profiles,      *)
(* quotas and initial balances.                                            *)
EXTENDS BillingSession, FiniteSetTheorems, WellFoundedInduction, TLAPS

-----------------------------------------------------------------------------
(* Types.  A reservation may only add to the books because its increment   *)
(* is positive, so the types are kept together with AccountingInv.         *)

LEMMA InitTypeOK == Init => TypeOK
  <1>1. (CHOOSE p \in Profiles : TRUE) \in Profiles
    BY ProfilesAssumption
  <1> QED
    BY <1>1, AmountsAssumption DEF Init, TypeOK, Zero, Sources, PCs, FaultKinds

LEMMA EffectiveQuotaType ==
    ASSUME TypeOK, NEW r \in Requests
    PROVE  EffectiveQuota(r) \in Nat
  BY DEF EffectiveQuota, TypeOK

\* Every step keeps the types: one case per operation.
LEMMA NextTypeOK == TypeOK /\ AccountingInv /\ [Next]_vars => TypeOK'
  <1> SUFFICES ASSUME TypeOK, AccountingInv, [Next]_vars PROVE TypeOK'
    OBVIOUS
  <1> USE AmountsAssumption DEF TypeOK, PCs, FaultKinds, ledgers, request, books, flags, locals,
     paid
  <1>1. ASSUME NEW r \in Requests, NEW p \in Profiles, NEW q \in Quotas,
               NewBillingSession(r, p, q)
        PROVE  TypeOK'
    BY <1>1 DEF NewBillingSession, FirstSource, StartSession, Sources, Goto
  <1>2. ASSUME NEW r \in Requests, ReadWalletQuota(r) PROVE TypeOK'
    BY <1>2 DEF ReadWalletQuota, Insufficient, StartSession, Sources, Goto
  <1>3. ASSUME NEW r \in Requests, PreConsumeToken(r) PROVE TypeOK'
    BY <1>3, EffectiveQuotaType DEF PreConsumeToken, DebitToken, Goto
  <1>4. ASSUME NEW r \in Requests, PreConsumeFunding(r) PROVE TypeOK'
    BY <1>4, EffectiveQuotaType DEF PreConsumeFunding, DebitWallet, DebitSub, NonNegative, Goto
  <1>5. ASSUME NEW r \in Requests, UndoToken(r) PROVE TypeOK'
    BY <1>5 DEF UndoToken, ReturnToken, TokenOwed, DebitToken, Lost, Insufficient, StartSession,
       Sources, Goto
  <1>6. ASSUME NEW r \in Requests, ReserveToken(r) PROVE TypeOK'
    <2>1. delta[r] > 0
      BY <1>6 DEF ReserveToken, AccountingInv, PhasesOK
    <2> QED
      BY <1>6, <2>1 DEF ReserveToken, DebitToken, Goto
  <1>7. ASSUME NEW r \in Requests, UndoReserve(r) PROVE TypeOK'
    BY <1>7 DEF UndoReserve, DebitWallet, DebitSub, NonNegative, Lost, Goto
  <1>8. ASSUME NEW r \in Requests, SettleToken(r) PROVE TypeOK'
    BY <1>8 DEF SettleToken, DebitToken, Lost, Goto
  <1>9. ASSUME NEW r \in Requests, Refund(r) PROVE TypeOK'
    BY <1>9 DEF Refund, Goto
  <1>10. ASSUME NEW r \in Requests, RefundWallet(r) PROVE TypeOK'
    BY <1>10 DEF RefundWallet, DebitWallet, NonNegative, Lost, Goto
  <1>11. ASSUME NEW r \in Requests, RefundSubscription(r) PROVE TypeOK'
    BY <1>11 DEF RefundSubscription, DebitSub, NonNegative, Lost, Goto
  <1>12. ASSUME NEW r \in Requests, RefundExtra(r) PROVE TypeOK'
    BY <1>12 DEF RefundExtra, DebitSub, NonNegative, Lost, Goto
  <1>13. ASSUME NEW r \in Requests, RefundToken(r) PROVE TypeOK'
    BY <1>13 DEF RefundToken, ReturnToken, TokenOwed, DebitToken, Lost, Goto
  <1>14. ASSUME NEW r \in Requests, NEW q \in Quotas, ReserveFunding(r, q) PROVE TypeOK'
    BY <1>14 DEF ReserveFunding, MayReserve, Live, DebitWallet, DebitSub, NonNegative, Goto
  <1>15. ASSUME NEW r \in Requests, NEW q \in Quotas, SettleExact(r, q) PROVE TypeOK'
    BY <1>15 DEF SettleExact, Live
  <1>16. ASSUME NEW r \in Requests, NEW q \in Quotas, SettleFunding(r, q) PROVE TypeOK'
    BY <1>16 DEF SettleFunding, Live, DebitWallet, DebitSub, NonNegative, Goto
  <1>17. CASE UNCHANGED vars
    BY <1>17 DEF vars
  <1> QED
    BY <1>1, <1>2, <1>3, <1>4, <1>5, <1>6, <1>7, <1>8, <1>9, <1>10, <1>11, <1>12, <1>13, <1>14,
       <1>15, <1>16, <1>17 DEF Next, Proceed, RefundJob

-----------------------------------------------------------------------------
(* Accounting.                                                             *)

\* A step of one request leaves the session of request x alone.
Untouched(x) ==
    /\ pc'[x] = pc[x] /\ profile'[x] = profile[x] /\ quota'[x] = quota[x] /\ src'[x] = src[x]
    /\ pre'[x] = pre[x] /\ tokenConsumed'[x] = tokenConsumed[x] /\ extra'[x] = extra[x]
    /\ consumed'[x] = consumed[x] /\ subPre'[x] = subPre[x] /\ delta'[x] = delta[x]
    /\ walletPaid'[x] = walletPaid[x] /\ subPaid'[x] = subPaid[x] /\ tokenPaid'[x] = tokenPaid[x]
    /\ actual'[x] = actual[x] /\ faults'[x] = faults[x]
    /\ x \in trusted' <=> x \in trusted
    /\ x \in settled' <=> x \in settled
    /\ x \in refunded' <=> x \in refunded

AccountOK(x) == PhasesOK(x) /\ FiguresOK(x) /\ (faults[x] = {} => LedgersOK(x))

LEMMA UntouchedKeepsAccount ==
    ASSUME NEW x \in Requests, Untouched(x), AccountOK(x)
    PROVE  AccountOK(x)'
  <1>1. PhasesOK(x)'
    BY DEF Untouched, AccountOK, PhasesOK
  <1>2. FiguresOK(x)'
    BY DEF Untouched, AccountOK, FiguresOK, EffectiveQuota, ImageWallet
  <1>3. faults'[x] = {} => LedgersOK(x)'
    BY DEF Untouched, AccountOK, LedgersOK, ChargedExactly, FundingPaid, TokenPaid, Live,
           RefundEnded, ImageWallet
  <1> QED
    BY <1>1, <1>2, <1>3 DEF AccountOK

\* A lost compensation leaves a trace in faults for good.
LEMMA LostLeavesTrace ==
    ASSUME TypeOK, NEW r \in Requests, NEW k \in FaultKinds, Lost(r, k)
    PROVE  faults'[r] # {}
  BY DEF TypeOK, Lost

LEMMA AccountsEverywhere == AccountingInv <=> \A x \in Requests : AccountOK(x)
  BY DEF AccountingInv, AccountOK

LEMMA InitAccounts == Init => AccountingInv
  BY DEF Init, Zero, AccountingInv, PhasesOK, FiguresOK, LedgersOK, ChargedExactly, FundingPaid,
         TokenPaid, Live, RefundEnded, ImageWallet, Opened, Refunding

LEMMA NewBillingSessionAccounts ==
    ASSUME TypeOK, \A x \in Requests : AccountOK(x), NEW r \in Requests, NEW p \in Profiles,
       NEW q \in Quotas,
           NewBillingSession(r, p, q)
    PROVE  \A x \in Requests : AccountOK(x)'
  <1> USE AmountsAssumption DEF TypeOK, Sources, ledgers, request, books, flags, locals, paid
  <1>1. \A x \in Requests \ {r} : Untouched(x)
    BY DEF Untouched, NewBillingSession, FirstSource, StartSession, Sources, Goto
  <1>2. PhasesOK(r)'
    BY DEF AccountOK, PhasesOK, Refunding, NewBillingSession, FirstSource, StartSession, Sources,
       Goto
  <1>3. FiguresOK(r)'
    BY DEF AccountOK, PhasesOK, FiguresOK, EffectiveQuota, ImageWallet, Opened,
       NewBillingSession, FirstSource, StartSession, Sources, Goto
  <1>4. ASSUME faults'[r] = {} PROVE LedgersOK(r)'
    BY <1>4 DEF AccountOK, PhasesOK, FiguresOK, LedgersOK, ChargedExactly, FundingPaid,
       TokenPaid, Live, RefundEnded, ImageWallet, Opened, Refunding, NewBillingSession,
          FirstSource, StartSession, Sources, Goto
  <1> QED
    BY <1>1, <1>2, <1>3, <1>4, UntouchedKeepsAccount DEF AccountOK

LEMMA ReadWalletQuotaAccounts ==
    ASSUME TypeOK, \A x \in Requests : AccountOK(x), NEW r \in Requests, ReadWalletQuota(r)
    PROVE  \A x \in Requests : AccountOK(x)'
  <1> USE AmountsAssumption DEF TypeOK, Sources, ledgers, request, books, flags, locals, paid
  <1>1. \A x \in Requests \ {r} : Untouched(x)
    BY DEF Untouched, ReadWalletQuota, Insufficient, StartSession, Sources, Goto
  <1>2. PhasesOK(r)'
    BY DEF AccountOK, PhasesOK, Refunding, ReadWalletQuota, Insufficient, StartSession, Sources,
       Goto
  <1>3. FiguresOK(r)'
    BY DEF AccountOK, PhasesOK, FiguresOK, EffectiveQuota, ImageWallet, Opened, ReadWalletQuota,
       Insufficient, StartSession, Sources, Goto
  <1>4. ASSUME faults'[r] = {} PROVE LedgersOK(r)'
    BY <1>4 DEF AccountOK, PhasesOK, FiguresOK, LedgersOK, ChargedExactly, FundingPaid,
       TokenPaid, Live, RefundEnded, ImageWallet, Opened, Refunding, ReadWalletQuota,
          Insufficient, StartSession, Sources, Goto
  <1> QED
    BY <1>1, <1>2, <1>3, <1>4, UntouchedKeepsAccount DEF AccountOK

LEMMA PreConsumeTokenAccounts ==
    ASSUME TypeOK, \A x \in Requests : AccountOK(x), NEW r \in Requests, PreConsumeToken(r)
    PROVE  \A x \in Requests : AccountOK(x)'
  <1> USE AmountsAssumption DEF TypeOK, Sources, ledgers, request, books, flags, locals, paid
  <1>1. \A x \in Requests \ {r} : Untouched(x)
    BY EffectiveQuotaType DEF Untouched, PreConsumeToken, DebitToken, Goto
  <1>2. PhasesOK(r)'
    BY EffectiveQuotaType DEF AccountOK, PhasesOK, Refunding, PreConsumeToken, DebitToken, Goto
  <1>3. FiguresOK(r)'
    BY EffectiveQuotaType DEF AccountOK, PhasesOK, FiguresOK, EffectiveQuota, ImageWallet,
       Opened, PreConsumeToken, DebitToken, Goto
  <1>4. ASSUME faults'[r] = {} PROVE LedgersOK(r)'
    BY <1>4, EffectiveQuotaType DEF AccountOK, PhasesOK, FiguresOK, LedgersOK, ChargedExactly,
       FundingPaid, TokenPaid, Live, RefundEnded, ImageWallet, Opened, Refunding,
          PreConsumeToken, DebitToken, Goto
  <1> QED
    BY <1>1, <1>2, <1>3, <1>4, UntouchedKeepsAccount DEF AccountOK

LEMMA PreConsumeFundingAccounts ==
    ASSUME TypeOK, \A x \in Requests : AccountOK(x), NEW r \in Requests, PreConsumeFunding(r)
    PROVE  \A x \in Requests : AccountOK(x)'
  <1> USE AmountsAssumption DEF TypeOK, Sources, ledgers, request, books, flags, locals, paid
  <1>1. \A x \in Requests \ {r} : Untouched(x)
    BY EffectiveQuotaType DEF Untouched, PreConsumeFunding, DebitWallet, DebitSub, NonNegative, Goto
  <1>2. PhasesOK(r)'
    BY EffectiveQuotaType DEF AccountOK, PhasesOK, Refunding, PreConsumeFunding, DebitWallet,
       DebitSub, NonNegative, Goto
  <1>3. FiguresOK(r)'
    BY EffectiveQuotaType DEF AccountOK, PhasesOK, FiguresOK, EffectiveQuota, ImageWallet,
       Opened, PreConsumeFunding, DebitWallet, DebitSub, NonNegative, Goto
  <1>4. ASSUME faults'[r] = {} PROVE LedgersOK(r)'
    BY <1>4, EffectiveQuotaType DEF AccountOK, PhasesOK, FiguresOK, LedgersOK, ChargedExactly,
       FundingPaid, TokenPaid, Live, RefundEnded, ImageWallet, Opened, Refunding,
          PreConsumeFunding, DebitWallet, DebitSub, NonNegative, Goto
  <1> QED
    BY <1>1, <1>2, <1>3, <1>4, UntouchedKeepsAccount DEF AccountOK

LEMMA UndoTokenAccounts ==
    ASSUME TypeOK, \A x \in Requests : AccountOK(x), NEW r \in Requests, UndoToken(r)
    PROVE  \A x \in Requests : AccountOK(x)'
  <1> USE AmountsAssumption DEF TypeOK, Sources, ledgers, request, books, flags, locals, paid
  <1>1. \A x \in Requests \ {r} : Untouched(x)
    BY DEF Untouched, UndoToken, ReturnToken, TokenOwed, DebitToken, Lost, Insufficient,
       StartSession, Sources, Goto
  <1>2. PhasesOK(r)'
    BY DEF AccountOK, PhasesOK, Refunding, UndoToken, ReturnToken, TokenOwed, DebitToken, Lost,
       Insufficient, StartSession, Sources, Goto
  <1>3. FiguresOK(r)'
    BY DEF AccountOK, PhasesOK, FiguresOK, EffectiveQuota, ImageWallet, Opened, UndoToken,
       ReturnToken, TokenOwed, DebitToken, Lost, Insufficient, StartSession, Sources, Goto
  <1>4. ASSUME faults'[r] = {} PROVE LedgersOK(r)'
    <2>1. /\ faults[r] = {}
          /\ pc[r] \in {"undo_insufficient", "undo_error"}
          /\ pc'[r] \in {"rejected", "wallet_quota", "token"}
          /\ tokenPaid'[r] = tokenPaid[r] - TokenOwed(r)
          /\ profile'[r] = profile[r]
          /\ walletPaid'[r] = walletPaid[r] /\ subPaid'[r] = subPaid[r]
      BY <1>4, LostLeavesTrace DEF FaultKinds, UndoToken, ReturnToken, TokenOwed, DebitToken, Insufficient,
         StartSession, Goto
    <2> QED
      BY <1>4, <2>1 DEF AccountOK, PhasesOK, FiguresOK, LedgersOK, ChargedExactly, FundingPaid,
         TokenPaid, Live, RefundEnded, ImageWallet, Opened, Refunding, TokenOwed
  <1> QED
    BY <1>1, <1>2, <1>3, <1>4, UntouchedKeepsAccount DEF AccountOK

LEMMA ReserveTokenAccounts ==
    ASSUME TypeOK, \A x \in Requests : AccountOK(x), NEW r \in Requests, ReserveToken(r)
    PROVE  \A x \in Requests : AccountOK(x)'
  <1> USE AmountsAssumption DEF TypeOK, Sources, ledgers, request, books, flags, locals, paid
  <1>1. \A x \in Requests \ {r} : Untouched(x)
    BY DEF Untouched, ReserveToken, DebitToken, Goto
  <1>2. PhasesOK(r)'
    BY DEF AccountOK, PhasesOK, Refunding, ReserveToken, DebitToken, Goto
  <1>3. FiguresOK(r)'
    BY DEF AccountOK, PhasesOK, FiguresOK, EffectiveQuota, ImageWallet, Opened, ReserveToken,
       DebitToken, Goto
  <1>4. ASSUME faults'[r] = {} PROVE LedgersOK(r)'
    BY <1>4 DEF AccountOK, PhasesOK, FiguresOK, LedgersOK, ChargedExactly, FundingPaid,
       TokenPaid, Live, RefundEnded, ImageWallet, Opened, Refunding, ReserveToken, DebitToken, Goto
  <1> QED
    BY <1>1, <1>2, <1>3, <1>4, UntouchedKeepsAccount DEF AccountOK

LEMMA UndoReserveAccounts ==
    ASSUME TypeOK, \A x \in Requests : AccountOK(x), NEW r \in Requests, UndoReserve(r)
    PROVE  \A x \in Requests : AccountOK(x)'
  <1> USE AmountsAssumption DEF TypeOK, Sources, ledgers, request, books, flags, locals, paid
  <1>1. \A x \in Requests \ {r} : Untouched(x)
    BY DEF Untouched, UndoReserve, DebitWallet, DebitSub, NonNegative, Lost, Goto
  <1>2. PhasesOK(r)'
    BY DEF AccountOK, PhasesOK, Refunding, UndoReserve, DebitWallet, DebitSub, NonNegative, Lost,
       Goto
  <1>3. FiguresOK(r)'
    <2>1. /\ pc[r] = "undo_reserve" /\ pc'[r] = "open"
          /\ profile'[r] = profile[r] /\ src'[r] = src[r] /\ pre'[r] = pre[r]
          /\ extra'[r] = extra[r] /\ subPre'[r] = subPre[r]
          /\ tokenConsumed'[r] = tokenConsumed[r]
      BY DEF UndoReserve, Goto
    <2>2. faults'[r] = {} /\ src[r] = "wallet" =>
             faults[r] = {} /\ consumed'[r] = consumed[r] - delta[r]
      BY LostLeavesTrace DEF FaultKinds, UndoReserve
    <2>3. ASSUME faults'[r] = {}, src[r] = "wallet", ~ImageWallet(r)
          PROVE  consumed'[r] = pre[r]
      <3>1. faults[r] = {} /\ consumed[r] = pre[r] + delta[r]
        BY <2>1, <2>2, <2>3 DEF AccountOK, FiguresOK, Opened
      <3> QED
        BY <2>2, <2>3, <3>1
    <2>4. /\ tokenConsumed[r] = pre[r]
          /\ src[r] = "subscription" => subPre[r] + extra[r] = pre[r]
          /\ src[r] = "wallet" => subPre[r] = 0
      BY <2>1 DEF AccountOK, FiguresOK, Opened
    <2> QED
      BY <2>1, <2>3, <2>4 DEF FiguresOK, ImageWallet, Opened
  <1>4. ASSUME faults'[r] = {} PROVE LedgersOK(r)'
    <2>1. /\ faults[r] = {}
          /\ pc[r] = "undo_reserve" /\ pc'[r] = "open"
          /\ profile'[r] = profile[r] /\ src'[r] = src[r] /\ pre'[r] = pre[r]
          /\ (r \in settled' <=> r \in settled) /\ (r \in refunded' <=> r \in refunded)
          /\ tokenPaid'[r] = tokenPaid[r]
          /\ walletPaid'[r] = walletPaid[r] - (IF src[r] = "wallet" THEN delta[r] ELSE 0)
          /\ subPaid'[r] = subPaid[r] - (IF src[r] = "subscription" THEN delta[r] ELSE 0)
      BY <1>4, LostLeavesTrace DEF FaultKinds, UndoReserve, DebitWallet, DebitSub, Goto
    <2> QED
      BY <1>4, <2>1 DEF AccountOK, PhasesOK, FiguresOK, LedgersOK, ChargedExactly, FundingPaid,
         TokenPaid, Live, RefundEnded, ImageWallet, Opened, Refunding
  <1> QED
    BY <1>1, <1>2, <1>3, <1>4, UntouchedKeepsAccount DEF AccountOK

LEMMA SettleTokenAccounts ==
    ASSUME TypeOK, \A x \in Requests : AccountOK(x), NEW r \in Requests, SettleToken(r)
    PROVE  \A x \in Requests : AccountOK(x)'
  <1> USE AmountsAssumption DEF TypeOK, Sources, ledgers, request, books, flags, locals, paid
  <1>1. \A x \in Requests \ {r} : Untouched(x)
    BY DEF Untouched, SettleToken, DebitToken, Lost, Goto
  <1>2. PhasesOK(r)'
    BY DEF AccountOK, PhasesOK, Refunding, SettleToken, DebitToken, Lost, Goto
  <1>3. FiguresOK(r)'
    BY DEF AccountOK, PhasesOK, FiguresOK, EffectiveQuota, ImageWallet, Opened, SettleToken,
       DebitToken, Lost, Goto
  <1>4. ASSUME faults'[r] = {} PROVE LedgersOK(r)'
    <2>1. /\ faults[r] = {}
          /\ pc[r] = "settle_token" /\ pc'[r] = "open"
          /\ profile'[r] = profile[r] /\ src'[r] = src[r] /\ pre'[r] = pre[r]
          /\ extra'[r] = extra[r] /\ delta'[r] = delta[r] /\ actual'[r] = actual[r]
          /\ r \in settled' /\ (r \in refunded' <=> r \in refunded)
          /\ walletPaid'[r] = walletPaid[r] /\ subPaid'[r] = subPaid[r]
          /\ tokenPaid'[r] = tokenPaid[r] + (IF profile[r].playground THEN 0 ELSE delta[r])
      BY <1>4, LostLeavesTrace DEF FaultKinds, SettleToken, DebitToken, Goto
    <2> QED
      BY <1>4, <2>1 DEF AccountOK, PhasesOK, FiguresOK, LedgersOK, ChargedExactly, FundingPaid,
         TokenPaid, Live, RefundEnded, ImageWallet, Opened, Refunding
  <1> QED
    BY <1>1, <1>2, <1>3, <1>4, UntouchedKeepsAccount DEF AccountOK

LEMMA RefundAccounts ==
    ASSUME TypeOK, \A x \in Requests : AccountOK(x), NEW r \in Requests, Refund(r)
    PROVE  \A x \in Requests : AccountOK(x)'
  <1> USE AmountsAssumption DEF TypeOK, Sources, ledgers, request, books, flags, locals, paid
  <1>1. \A x \in Requests \ {r} : Untouched(x)
    BY DEF Untouched, Refund, NeedsRefund, Live, Goto
  <1>2. PhasesOK(r)'
    BY DEF AccountOK, PhasesOK, Refunding, Refund, Live, Goto
  <1>3. FiguresOK(r)'
    <2>1. /\ pc[r] \in Opened /\ pc'[r] \in Opened \ {"reserve_token", "undo_reserve"}
          /\ pc[r] = "open"
      BY DEF Refund, Live, Goto, Opened
    <2> QED
      BY <2>1 DEF AccountOK, PhasesOK, FiguresOK, EffectiveQuota, ImageWallet, Opened, Refund
  <1>4. ASSUME faults'[r] = {} PROVE LedgersOK(r)'
    <2>1. /\ faults[r] = {}
          /\ Live(r) /\ pc'[r] = IF NeedsRefund(r) THEN "refund_funding" ELSE "open"
          /\ r \in refunded' /\ r \notin settled'
          /\ UNCHANGED <<profile, src, books, paid, actual, delta>>
      BY <1>4, LostLeavesTrace DEF Refund, Live, Goto
    <2> QED
      BY <1>4, <2>1 DEF AccountOK, PhasesOK, FiguresOK, LedgersOK, ChargedExactly, FundingPaid,
         TokenPaid, Live, RefundEnded, ImageWallet, Opened, Refunding, NeedsRefund
  <1> QED
    BY <1>1, <1>2, <1>3, <1>4, UntouchedKeepsAccount DEF AccountOK

LEMMA RefundWalletAccounts ==
    ASSUME TypeOK, \A x \in Requests : AccountOK(x), NEW r \in Requests, RefundWallet(r)
    PROVE  \A x \in Requests : AccountOK(x)'
  <1> USE AmountsAssumption DEF TypeOK, Sources, ledgers, request, books, flags, locals, paid
  <1>1. \A x \in Requests \ {r} : Untouched(x)
    BY DEF Untouched, RefundWallet, DebitWallet, NonNegative, Lost, Goto
  <1>2. PhasesOK(r)'
    BY DEF AccountOK, PhasesOK, Refunding, RefundWallet, DebitWallet, NonNegative, Lost, Goto
  <1>3. FiguresOK(r)'
    BY DEF AccountOK, PhasesOK, FiguresOK, EffectiveQuota, ImageWallet, Opened, RefundWallet,
       DebitWallet, NonNegative, Lost, Goto
  <1>4. ASSUME faults'[r] = {} PROVE LedgersOK(r)'
    <2>1. /\ faults[r] = {}
          /\ pc[r] = "refund_funding" /\ pc'[r] = "refund_extra"
          /\ src[r] = "wallet" /\ profile'[r] = profile[r] /\ src'[r] = src[r] /\ pre'[r] = pre[r]
          /\ (r \in settled' <=> r \in settled) /\ (r \in refunded' <=> r \in refunded)
          /\ walletPaid'[r] = walletPaid[r] - NonNegative(consumed[r])
          /\ subPaid'[r] = subPaid[r] /\ tokenPaid'[r] = tokenPaid[r]
      BY <1>4, LostLeavesTrace DEF FaultKinds, RefundWallet, DebitWallet, NonNegative, Goto
    <2> QED
      BY <1>4, <2>1 DEF AccountOK, PhasesOK, FiguresOK, LedgersOK, ChargedExactly, FundingPaid,
         TokenPaid, Live, RefundEnded, ImageWallet, Opened, Refunding, NonNegative
  <1> QED
    BY <1>1, <1>2, <1>3, <1>4, UntouchedKeepsAccount DEF AccountOK

LEMMA RefundSubscriptionAccounts ==
    ASSUME TypeOK, \A x \in Requests : AccountOK(x), NEW r \in Requests, RefundSubscription(r)
    PROVE  \A x \in Requests : AccountOK(x)'
  <1> USE AmountsAssumption DEF TypeOK, Sources, ledgers, request, books, flags, locals, paid
  <1>1. \A x \in Requests \ {r} : Untouched(x)
    BY DEF Untouched, RefundSubscription, DebitSub, NonNegative, Lost, Goto
  <1>2. PhasesOK(r)'
    BY DEF AccountOK, PhasesOK, Refunding, RefundSubscription, DebitSub, NonNegative, Lost, Goto
  <1>3. FiguresOK(r)'
    BY DEF AccountOK, PhasesOK, FiguresOK, EffectiveQuota, ImageWallet, Opened,
       RefundSubscription, DebitSub, NonNegative, Lost, Goto
  <1>4. ASSUME faults'[r] = {} PROVE LedgersOK(r)'
    <2>1. /\ faults[r] = {}
          /\ pc[r] = "refund_funding" /\ src[r] = "subscription"
          /\ profile'[r] = profile[r] /\ src'[r] = src[r] /\ pre'[r] = pre[r]
          /\ extra'[r] = extra[r] /\ delta'[r] = delta[r] /\ actual'[r] = actual[r]
          /\ (r \in settled' <=> r \in settled) /\ (r \in refunded' <=> r \in refunded)
          /\ \/ pc'[r] = "refund_extra" /\ subPaid'[r] = subPaid[r] - subPre[r]
             \/ pc'[r] = "refund_funding" /\ subPaid'[r] = subPaid[r]
          /\ walletPaid'[r] = walletPaid[r] /\ tokenPaid'[r] = tokenPaid[r]
      BY <1>4, LostLeavesTrace DEF FaultKinds, RefundSubscription, DebitSub, Goto
    <2> QED
      BY <1>4, <2>1 DEF AccountOK, PhasesOK, FiguresOK, LedgersOK, ChargedExactly, FundingPaid,
         TokenPaid, Live, RefundEnded, ImageWallet, Opened, Refunding
  <1> QED
    BY <1>1, <1>2, <1>3, <1>4, UntouchedKeepsAccount DEF AccountOK

LEMMA RefundExtraAccounts ==
    ASSUME TypeOK, \A x \in Requests : AccountOK(x), NEW r \in Requests, RefundExtra(r)
    PROVE  \A x \in Requests : AccountOK(x)'
  <1> USE AmountsAssumption DEF TypeOK, Sources, ledgers, request, books, flags, locals, paid
  <1>1. \A x \in Requests \ {r} : Untouched(x)
    BY DEF Untouched, RefundExtra, DebitSub, NonNegative, Lost, Goto
  <1>2. PhasesOK(r)'
    BY DEF AccountOK, PhasesOK, Refunding, RefundExtra, DebitSub, NonNegative, Lost, Goto
  <1>3. FiguresOK(r)'
    BY DEF AccountOK, PhasesOK, FiguresOK, EffectiveQuota, ImageWallet, Opened, RefundExtra,
       DebitSub, NonNegative, Lost, Goto
  <1>4. ASSUME faults'[r] = {} PROVE LedgersOK(r)'
    <2>1. /\ faults[r] = {}
          /\ pc[r] = "refund_extra" /\ pc'[r] = "refund_token"
          /\ profile'[r] = profile[r] /\ src'[r] = src[r] /\ pre'[r] = pre[r]
          /\ (r \in settled' <=> r \in settled) /\ (r \in refunded' <=> r \in refunded)
          /\ subPaid'[r] = subPaid[r] - (IF src[r] = "subscription" THEN extra[r] ELSE 0)
          /\ walletPaid'[r] = walletPaid[r] /\ tokenPaid'[r] = tokenPaid[r]
      BY <1>4, LostLeavesTrace DEF FaultKinds, RefundExtra, DebitSub, Goto
    <2> QED
      BY <1>4, <2>1 DEF AccountOK, PhasesOK, FiguresOK, LedgersOK, ChargedExactly, FundingPaid,
         TokenPaid, Live, RefundEnded, ImageWallet, Opened, Refunding
  <1> QED
    BY <1>1, <1>2, <1>3, <1>4, UntouchedKeepsAccount DEF AccountOK

LEMMA RefundTokenAccounts ==
    ASSUME TypeOK, \A x \in Requests : AccountOK(x), NEW r \in Requests, RefundToken(r)
    PROVE  \A x \in Requests : AccountOK(x)'
  <1> USE AmountsAssumption DEF TypeOK, Sources, ledgers, request, books, flags, locals, paid
  <1>1. \A x \in Requests \ {r} : Untouched(x)
    BY DEF Untouched, RefundToken, ReturnToken, TokenOwed, DebitToken, Lost, Goto
  <1>2. PhasesOK(r)'
    BY DEF AccountOK, PhasesOK, Refunding, RefundToken, ReturnToken, TokenOwed, DebitToken, Lost,
       Goto
  <1>3. FiguresOK(r)'
    BY DEF AccountOK, PhasesOK, FiguresOK, EffectiveQuota, ImageWallet, Opened, RefundToken,
       ReturnToken, TokenOwed, DebitToken, Lost, Goto
  <1>4. ASSUME faults'[r] = {} PROVE LedgersOK(r)'
    <2>1. /\ faults[r] = {}
          /\ pc[r] = "refund_token" /\ pc'[r] = "open"
          /\ profile'[r] = profile[r] /\ src'[r] = src[r] /\ pre'[r] = pre[r]
          /\ (r \in settled' <=> r \in settled) /\ (r \in refunded' <=> r \in refunded)
          /\ tokenPaid'[r] = tokenPaid[r] - TokenOwed(r)
          /\ walletPaid'[r] = walletPaid[r] /\ subPaid'[r] = subPaid[r]
      BY <1>4, LostLeavesTrace DEF FaultKinds, RefundToken, ReturnToken, TokenOwed, DebitToken, Goto
    <2> QED
      BY <1>4, <2>1 DEF AccountOK, PhasesOK, FiguresOK, LedgersOK, ChargedExactly, FundingPaid,
         TokenPaid, Live, RefundEnded, ImageWallet, Opened, Refunding, TokenOwed
  <1> QED
    BY <1>1, <1>2, <1>3, <1>4, UntouchedKeepsAccount DEF AccountOK

LEMMA ReserveFundingAccounts ==
    ASSUME TypeOK, \A x \in Requests : AccountOK(x), NEW r \in Requests, NEW q \in Quotas,
       ReserveFunding(r, q)
    PROVE  \A x \in Requests : AccountOK(x)'
  <1> USE AmountsAssumption DEF TypeOK, Sources, ledgers, request, books, flags, locals, paid
  <1>1. \A x \in Requests \ {r} : Untouched(x)
    BY DEF Untouched, ReserveFunding, MayReserve, Live, DebitWallet, DebitSub, NonNegative, Goto
  <1>2. PhasesOK(r)'
    BY DEF AccountOK, PhasesOK, Refunding, ReserveFunding, MayReserve, Live, DebitWallet,
       DebitSub, NonNegative, Goto
  <1>3. FiguresOK(r)'
    BY DEF AccountOK, PhasesOK, FiguresOK, EffectiveQuota, ImageWallet, Opened, ReserveFunding,
       MayReserve, Live, DebitWallet, DebitSub, NonNegative, Goto
  <1>4. ASSUME faults'[r] = {} PROVE LedgersOK(r)'
    BY <1>4 DEF AccountOK, PhasesOK, FiguresOK, LedgersOK, ChargedExactly, FundingPaid,
       TokenPaid, Live, RefundEnded, ImageWallet, Opened, Refunding, ReserveFunding, MayReserve,
          Live, DebitWallet, DebitSub, NonNegative, Goto
  <1> QED
    BY <1>1, <1>2, <1>3, <1>4, UntouchedKeepsAccount DEF AccountOK

LEMMA SettleExactAccounts ==
    ASSUME TypeOK, \A x \in Requests : AccountOK(x), NEW r \in Requests, NEW q \in Quotas,
       SettleExact(r, q)
    PROVE  \A x \in Requests : AccountOK(x)'
  <1> USE AmountsAssumption DEF TypeOK, Sources, ledgers, request, books, flags, locals, paid
  <1>1. \A x \in Requests \ {r} : Untouched(x)
    BY DEF Untouched, SettleExact, Live
  <1>2. PhasesOK(r)'
    BY DEF AccountOK, PhasesOK, Refunding, SettleExact, Live
  <1>3. FiguresOK(r)'
    BY DEF AccountOK, PhasesOK, FiguresOK, EffectiveQuota, ImageWallet, Opened, SettleExact, Live
  <1>4. ASSUME faults'[r] = {} PROVE LedgersOK(r)'
    BY <1>4 DEF AccountOK, PhasesOK, FiguresOK, LedgersOK, ChargedExactly, FundingPaid,
       TokenPaid, Live, RefundEnded, ImageWallet, Opened, Refunding, SettleExact, Live
  <1> QED
    BY <1>1, <1>2, <1>3, <1>4, UntouchedKeepsAccount DEF AccountOK

LEMMA SettleFundingAccounts ==
    ASSUME TypeOK, \A x \in Requests : AccountOK(x), NEW r \in Requests, NEW q \in Quotas,
       SettleFunding(r, q)
    PROVE  \A x \in Requests : AccountOK(x)'
  <1> USE AmountsAssumption DEF TypeOK, Sources, ledgers, request, books, flags, locals, paid
  <1>1. \A x \in Requests \ {r} : Untouched(x)
    BY DEF Untouched, SettleFunding, Live, DebitWallet, DebitSub, NonNegative, Goto
  <1>2. PhasesOK(r)'
    BY DEF AccountOK, PhasesOK, Refunding, SettleFunding, Live, DebitWallet, DebitSub,
       NonNegative, Goto
  <1>3. FiguresOK(r)'
    BY DEF AccountOK, PhasesOK, FiguresOK, EffectiveQuota, ImageWallet, Opened, SettleFunding,
       Live, DebitWallet, DebitSub, NonNegative, Goto
  <1>4. ASSUME faults'[r] = {} PROVE LedgersOK(r)'
    BY <1>4 DEF AccountOK, PhasesOK, FiguresOK, LedgersOK, ChargedExactly, FundingPaid,
       TokenPaid, Live, RefundEnded, ImageWallet, Opened, Refunding, SettleFunding, Live,
          DebitWallet, DebitSub, NonNegative, Goto
  <1> QED
    BY <1>1, <1>2, <1>3, <1>4, UntouchedKeepsAccount DEF AccountOK

LEMMA NextAccounts == TypeOK /\ AccountingInv /\ [Next]_vars => AccountingInv'
  <1> SUFFICES ASSUME TypeOK, \A x \in Requests : AccountOK(x), [Next]_vars
               PROVE  \A x \in Requests : AccountOK(x)'
    BY AccountsEverywhere DEF AccountingInv, AccountOK
  <1>1. CASE UNCHANGED vars
    <2>1. \A x \in Requests : Untouched(x)
      BY <1>1 DEF vars, Untouched, ledgers, request, books, flags, locals, paid
    <2> QED
      BY <2>1, UntouchedKeepsAccount
  <1>2. CASE Next
    BY <1>2, NewBillingSessionAccounts, ReadWalletQuotaAccounts, PreConsumeTokenAccounts,
       PreConsumeFundingAccounts, UndoTokenAccounts, ReserveTokenAccounts, UndoReserveAccounts,
          SettleTokenAccounts, RefundAccounts, RefundWalletAccounts, RefundSubscriptionAccounts,
             RefundExtraAccounts, RefundTokenAccounts, ReserveFundingAccounts,
                SettleExactAccounts, SettleFundingAccounts
       DEF Next, Proceed, RefundJob
  <1> QED
    BY <1>1, <1>2

\* TypeOK and AccountingInv together are inductive.
THEOREM Accounting == Spec => [](TypeOK /\ AccountingInv)
  <1>1. Init => TypeOK /\ AccountingInv
    BY InitTypeOK, InitAccounts
  <1>2. TypeOK /\ AccountingInv /\ [Next]_vars => (TypeOK /\ AccountingInv)'
    BY NextTypeOK, NextAccounts
  <1> QED
    BY <1>1, <1>2, PTL DEF Spec

\* The type invariant of the specification, for every instance.
THEOREM TypeCorrect == Spec => []TypeOK
  <1> QED
    BY Accounting, PTL

\* The session's preConsumedQuota is what its ledgers lost, for any number of
\* concurrent requests and any balances.
THEOREM BooksAlwaysMatchLedgers == Spec => []BooksMatchLedgers
  <1>1. AccountingInv => BooksMatchLedgers
    BY DEF AccountingInv, LedgersOK, BooksMatchLedgers
  <1> QED
    BY <1>1, Accounting, PTL

\* A settled request was charged exactly its usage.
THEOREM UsageAlwaysCharged == Spec => []ChargeMatchesUsage
  <1>1. AccountingInv => ChargeMatchesUsage
    BY DEF AccountingInv, PhasesOK, LedgersOK, ChargeMatchesUsage
  <1> QED
    BY <1>1, Accounting, PTL

\* A rejected request was charged nothing.
THEOREM RejectionAlwaysFree == Spec => []RejectedIsFree
  <1>1. AccountingInv => RejectedIsFree
    BY DEF AccountingInv, LedgersOK, RejectedIsFree
  <1> QED
    BY <1>1, Accounting, PTL

\* A completed refund returned every reservation (image requests on a wallet
\* excepted).
THEOREM RefundAlwaysComplete == Spec => []RefundIsComplete
  <1>1. AccountingInv => RefundIsComplete
    BY DEF AccountingInv, LedgersOK, RefundIsComplete, ImageWallet, ChargedExactly
  <1> QED
    BY <1>1, Accounting, PTL

-----------------------------------------------------------------------------
(* What the ledgers keep, whatever compensations are lost.                 *)

HeldOK(x) ==
    /\ TokenHeldOK(x)
    /\ src[x] = "wallet" \/ "record" \notin faults[x] => FundingHeldOK(x)
    /\ src[x] = "wallet" => subPaid[x] = 0
    /\ src[x] = "subscription" => walletPaid[x] = 0
    /\ pc[x] \notin Opened => Held(x) = 0

LEMMA UntouchedKeepsHeld ==
    ASSUME NEW x \in Requests, Untouched(x), HeldOK(x)
    PROVE  HeldOK(x)'
  BY DEF Untouched, HeldOK, TokenHeldOK, FundingHeldOK, Held, Live, TokenOwed

LEMMA NewBillingSessionHeld ==
    ASSUME TypeOK, NEW r \in Requests, AccountOK(r), HeldOK(r), NEW p \in Profiles, NEW q \in Quotas, NewBillingSession(r, p, q)
    PROVE  HeldOK(r)' /\ \A x \in Requests \ {r} : Untouched(x)
  <1> USE AmountsAssumption DEF TypeOK, Sources, ledgers, request, books, flags, locals, paid
  <1>1. \A x \in Requests \ {r} : Untouched(x)
    BY DEF Untouched, NewBillingSession, Live, FirstSource, StartSession, Goto
  <1>2. TokenHeldOK(r)'
    BY DEF AccountOK, PhasesOK, FiguresOK, HeldOK, TokenHeldOK, FundingHeldOK, Held, Live,
       TokenOwed, Opened, Refunding, FaultKinds, NewBillingSession, FirstSource, StartSession,
       Goto
  <1>3. src'[r] = "wallet" \/ "record" \notin faults'[r] => FundingHeldOK(r)'
    BY DEF AccountOK, PhasesOK, FiguresOK, HeldOK, TokenHeldOK, FundingHeldOK, Held, Live,
       TokenOwed, Opened, Refunding, FaultKinds, NewBillingSession, FirstSource, StartSession,
       Goto
  <1>4. /\ src'[r] = "wallet" => subPaid'[r] = 0
        /\ src'[r] = "subscription" => walletPaid'[r] = 0
        /\ pc'[r] \notin Opened => Held(r)' = 0
    BY DEF AccountOK, PhasesOK, FiguresOK, HeldOK, TokenHeldOK, FundingHeldOK, Held, Live,
       TokenOwed, Opened, Refunding, FaultKinds, NewBillingSession, FirstSource, StartSession,
       Goto
  <1> QED
    BY <1>1, <1>2, <1>3, <1>4 DEF HeldOK

LEMMA ReadWalletQuotaHeld ==
    ASSUME TypeOK, NEW r \in Requests, AccountOK(r), HeldOK(r), ReadWalletQuota(r)
    PROVE  HeldOK(r)' /\ \A x \in Requests \ {r} : Untouched(x)
  <1> USE AmountsAssumption DEF TypeOK, Sources, ledgers, request, books, flags, locals, paid
  <1>1. \A x \in Requests \ {r} : Untouched(x)
    BY DEF Untouched, ReadWalletQuota, Live, Insufficient, MayFallBackTo, StartSession, Goto
  <1>2. TokenHeldOK(r)'
    BY DEF AccountOK, PhasesOK, FiguresOK, HeldOK, TokenHeldOK, FundingHeldOK, Held, Live,
       TokenOwed, Opened, Refunding, FaultKinds, ReadWalletQuota, Insufficient, MayFallBackTo,
       StartSession, Goto
  <1>3. src'[r] = "wallet" \/ "record" \notin faults'[r] => FundingHeldOK(r)'
    BY DEF AccountOK, PhasesOK, FiguresOK, HeldOK, TokenHeldOK, FundingHeldOK, Held, Live,
       TokenOwed, Opened, Refunding, FaultKinds, ReadWalletQuota, Insufficient, MayFallBackTo,
       StartSession, Goto
  <1>4. /\ src'[r] = "wallet" => subPaid'[r] = 0
        /\ src'[r] = "subscription" => walletPaid'[r] = 0
        /\ pc'[r] \notin Opened => Held(r)' = 0
    BY DEF AccountOK, PhasesOK, FiguresOK, HeldOK, TokenHeldOK, FundingHeldOK, Held, Live,
       TokenOwed, Opened, Refunding, FaultKinds, ReadWalletQuota, Insufficient, MayFallBackTo,
       StartSession, Goto
  <1> QED
    BY <1>1, <1>2, <1>3, <1>4 DEF HeldOK

LEMMA PreConsumeTokenHeld ==
    ASSUME TypeOK, NEW r \in Requests, AccountOK(r), HeldOK(r), PreConsumeToken(r)
    PROVE  HeldOK(r)' /\ \A x \in Requests \ {r} : Untouched(x)
  <1> USE AmountsAssumption DEF TypeOK, Sources, ledgers, request, books, flags, locals, paid
  <1>0. EffectiveQuota(r) \in Nat
    BY EffectiveQuotaType
  <1>1. \A x \in Requests \ {r} : Untouched(x)
    BY DEF Untouched, PreConsumeToken, Live, DebitToken, Goto
  <1>2. TokenHeldOK(r)'
    BY <1>0 DEF AccountOK, PhasesOK, FiguresOK, HeldOK, TokenHeldOK, FundingHeldOK, Held,
       Live, TokenOwed, Opened, Refunding, FaultKinds, PreConsumeToken, DebitToken, Goto
  <1>3. src'[r] = "wallet" \/ "record" \notin faults'[r] => FundingHeldOK(r)'
    BY <1>0 DEF AccountOK, PhasesOK, FiguresOK, HeldOK, TokenHeldOK, FundingHeldOK, Held,
       Live, TokenOwed, Opened, Refunding, FaultKinds, PreConsumeToken, DebitToken, Goto
  <1>4. /\ src'[r] = "wallet" => subPaid'[r] = 0
        /\ src'[r] = "subscription" => walletPaid'[r] = 0
        /\ pc'[r] \notin Opened => Held(r)' = 0
    BY <1>0 DEF AccountOK, PhasesOK, FiguresOK, HeldOK, TokenHeldOK, FundingHeldOK, Held,
       Live, TokenOwed, Opened, Refunding, FaultKinds, PreConsumeToken, DebitToken, Goto
  <1> QED
    BY <1>1, <1>2, <1>3, <1>4 DEF HeldOK

LEMMA PreConsumeFundingHeld ==
    ASSUME TypeOK, NEW r \in Requests, AccountOK(r), HeldOK(r), PreConsumeFunding(r)
    PROVE  HeldOK(r)' /\ \A x \in Requests \ {r} : Untouched(x)
  <1> USE AmountsAssumption DEF TypeOK, Sources, ledgers, request, books, flags, locals, paid
  <1>0. EffectiveQuota(r) \in Nat
    BY EffectiveQuotaType
  <1>1. \A x \in Requests \ {r} : Untouched(x)
    BY DEF Untouched, PreConsumeFunding, Live, DebitWallet, DebitSub, NonNegative, Goto
  <1>2. TokenHeldOK(r)'
    BY <1>0 DEF AccountOK, PhasesOK, FiguresOK, HeldOK, TokenHeldOK, FundingHeldOK, Held,
       Live, TokenOwed, Opened, Refunding, FaultKinds, PreConsumeFunding, DebitWallet,
       DebitSub, NonNegative, Goto
  <1>3. src'[r] = "wallet" \/ "record" \notin faults'[r] => FundingHeldOK(r)'
    BY <1>0 DEF AccountOK, PhasesOK, FiguresOK, HeldOK, TokenHeldOK, FundingHeldOK, Held,
       Live, TokenOwed, Opened, Refunding, FaultKinds, PreConsumeFunding, DebitWallet,
       DebitSub, NonNegative, Goto
  <1>4. /\ src'[r] = "wallet" => subPaid'[r] = 0
        /\ src'[r] = "subscription" => walletPaid'[r] = 0
        /\ pc'[r] \notin Opened => Held(r)' = 0
    BY <1>0 DEF AccountOK, PhasesOK, FiguresOK, HeldOK, TokenHeldOK, FundingHeldOK, Held,
       Live, TokenOwed, Opened, Refunding, FaultKinds, PreConsumeFunding, DebitWallet,
       DebitSub, NonNegative, Goto
  <1> QED
    BY <1>1, <1>2, <1>3, <1>4 DEF HeldOK

LEMMA UndoTokenHeld ==
    ASSUME TypeOK, NEW r \in Requests, AccountOK(r), HeldOK(r), UndoToken(r)
    PROVE  HeldOK(r)' /\ \A x \in Requests \ {r} : Untouched(x)
  <1> USE AmountsAssumption DEF TypeOK, Sources, ledgers, request, books, flags, locals, paid
  <1>1. \A x \in Requests \ {r} : Untouched(x)
    BY DEF Untouched, UndoToken, Live, ReturnToken, DebitToken, Lost, Insufficient,
       MayFallBackTo, StartSession, Goto
  <1>2. TokenHeldOK(r)'
    BY DEF AccountOK, PhasesOK, FiguresOK, HeldOK, TokenHeldOK, FundingHeldOK, Held, Live,
       TokenOwed, Opened, Refunding, FaultKinds, UndoToken, ReturnToken, DebitToken, Lost,
       Insufficient, MayFallBackTo, StartSession, Goto
  <1>3. src'[r] = "wallet" \/ "record" \notin faults'[r] => FundingHeldOK(r)'
    BY DEF AccountOK, PhasesOK, FiguresOK, HeldOK, TokenHeldOK, FundingHeldOK, Held, Live,
       TokenOwed, Opened, Refunding, FaultKinds, UndoToken, ReturnToken, DebitToken, Lost,
       Insufficient, MayFallBackTo, StartSession, Goto
  <1>4. /\ src'[r] = "wallet" => subPaid'[r] = 0
        /\ src'[r] = "subscription" => walletPaid'[r] = 0
        /\ pc'[r] \notin Opened => Held(r)' = 0
    BY DEF AccountOK, PhasesOK, FiguresOK, HeldOK, TokenHeldOK, FundingHeldOK, Held, Live,
       TokenOwed, Opened, Refunding, FaultKinds, UndoToken, ReturnToken, DebitToken, Lost,
       Insufficient, MayFallBackTo, StartSession, Goto
  <1> QED
    BY <1>1, <1>2, <1>3, <1>4 DEF HeldOK

LEMMA ReserveTokenHeld ==
    ASSUME TypeOK, NEW r \in Requests, AccountOK(r), HeldOK(r), ReserveToken(r)
    PROVE  HeldOK(r)' /\ \A x \in Requests \ {r} : Untouched(x)
  <1> USE AmountsAssumption DEF TypeOK, Sources, ledgers, request, books, flags, locals, paid
  <1>1. \A x \in Requests \ {r} : Untouched(x)
    BY DEF Untouched, ReserveToken, Live, DebitToken, Goto
  <1>2. TokenHeldOK(r)'
    BY DEF AccountOK, PhasesOK, FiguresOK, HeldOK, TokenHeldOK, FundingHeldOK, Held, Live,
       TokenOwed, Opened, Refunding, FaultKinds, ReserveToken, DebitToken, Goto
  <1>3. src'[r] = "wallet" \/ "record" \notin faults'[r] => FundingHeldOK(r)'
    BY DEF AccountOK, PhasesOK, FiguresOK, HeldOK, TokenHeldOK, FundingHeldOK, Held, Live,
       TokenOwed, Opened, Refunding, FaultKinds, ReserveToken, DebitToken, Goto
  <1>4. /\ src'[r] = "wallet" => subPaid'[r] = 0
        /\ src'[r] = "subscription" => walletPaid'[r] = 0
        /\ pc'[r] \notin Opened => Held(r)' = 0
    BY DEF AccountOK, PhasesOK, FiguresOK, HeldOK, TokenHeldOK, FundingHeldOK, Held, Live,
       TokenOwed, Opened, Refunding, FaultKinds, ReserveToken, DebitToken, Goto
  <1> QED
    BY <1>1, <1>2, <1>3, <1>4 DEF HeldOK

LEMMA UndoReserveHeld ==
    ASSUME TypeOK, NEW r \in Requests, AccountOK(r), HeldOK(r), UndoReserve(r)
    PROVE  HeldOK(r)' /\ \A x \in Requests \ {r} : Untouched(x)
  <1> USE AmountsAssumption DEF TypeOK, Sources, ledgers, request, books, flags, locals, paid
  <1>1. \A x \in Requests \ {r} : Untouched(x)
    BY DEF Untouched, UndoReserve, Live, DebitWallet, DebitSub, NonNegative, Lost, Goto
  <1>2. TokenHeldOK(r)'
    BY DEF AccountOK, PhasesOK, FiguresOK, HeldOK, TokenHeldOK, FundingHeldOK, Held, Live,
       TokenOwed, Opened, Refunding, FaultKinds, UndoReserve, DebitWallet, DebitSub,
       NonNegative, Lost, Goto
  <1>3. src'[r] = "wallet" \/ "record" \notin faults'[r] => FundingHeldOK(r)'
    BY DEF AccountOK, PhasesOK, FiguresOK, HeldOK, TokenHeldOK, FundingHeldOK, Held, Live,
       TokenOwed, Opened, Refunding, FaultKinds, UndoReserve, DebitWallet, DebitSub,
       NonNegative, Lost, Goto
  <1>4. /\ src'[r] = "wallet" => subPaid'[r] = 0
        /\ src'[r] = "subscription" => walletPaid'[r] = 0
        /\ pc'[r] \notin Opened => Held(r)' = 0
    BY DEF AccountOK, PhasesOK, FiguresOK, HeldOK, TokenHeldOK, FundingHeldOK, Held, Live,
       TokenOwed, Opened, Refunding, FaultKinds, UndoReserve, DebitWallet, DebitSub,
       NonNegative, Lost, Goto
  <1> QED
    BY <1>1, <1>2, <1>3, <1>4 DEF HeldOK

LEMMA SettleTokenHeld ==
    ASSUME TypeOK, NEW r \in Requests, AccountOK(r), HeldOK(r), SettleToken(r)
    PROVE  HeldOK(r)' /\ \A x \in Requests \ {r} : Untouched(x)
  <1> USE AmountsAssumption DEF TypeOK, Sources, ledgers, request, books, flags, locals, paid
  <1>1. \A x \in Requests \ {r} : Untouched(x)
    BY DEF Untouched, SettleToken, Live, DebitToken, Lost, Goto
  <1>2. TokenHeldOK(r)'
    BY DEF AccountOK, PhasesOK, FiguresOK, HeldOK, TokenHeldOK, FundingHeldOK, Held, Live,
       TokenOwed, Opened, Refunding, FaultKinds, SettleToken, DebitToken, Lost, Goto
  <1>3. src'[r] = "wallet" \/ "record" \notin faults'[r] => FundingHeldOK(r)'
    BY DEF AccountOK, PhasesOK, FiguresOK, HeldOK, TokenHeldOK, FundingHeldOK, Held, Live,
       TokenOwed, Opened, Refunding, FaultKinds, SettleToken, DebitToken, Lost, Goto
  <1>4. /\ src'[r] = "wallet" => subPaid'[r] = 0
        /\ src'[r] = "subscription" => walletPaid'[r] = 0
        /\ pc'[r] \notin Opened => Held(r)' = 0
    BY DEF AccountOK, PhasesOK, FiguresOK, HeldOK, TokenHeldOK, FundingHeldOK, Held, Live,
       TokenOwed, Opened, Refunding, FaultKinds, SettleToken, DebitToken, Lost, Goto
  <1> QED
    BY <1>1, <1>2, <1>3, <1>4 DEF HeldOK

LEMMA RefundHeld ==
    ASSUME TypeOK, NEW r \in Requests, AccountOK(r), HeldOK(r), Refund(r)
    PROVE  HeldOK(r)' /\ \A x \in Requests \ {r} : Untouched(x)
  <1> USE AmountsAssumption DEF TypeOK, Sources, ledgers, request, books, flags, locals, paid
  <1>1. \A x \in Requests \ {r} : Untouched(x)
    BY DEF Untouched, Refund, Live, Goto
  <1>2. TokenHeldOK(r)'
    BY DEF AccountOK, PhasesOK, FiguresOK, HeldOK, TokenHeldOK, FundingHeldOK, Held, Live,
       TokenOwed, Opened, Refunding, FaultKinds, Refund, Goto
  <1>3. src'[r] = "wallet" \/ "record" \notin faults'[r] => FundingHeldOK(r)'
    BY DEF AccountOK, PhasesOK, FiguresOK, HeldOK, TokenHeldOK, FundingHeldOK, Held, Live,
       TokenOwed, Opened, Refunding, FaultKinds, Refund, Goto
  <1>4. /\ src'[r] = "wallet" => subPaid'[r] = 0
        /\ src'[r] = "subscription" => walletPaid'[r] = 0
        /\ pc'[r] \notin Opened => Held(r)' = 0
    BY DEF AccountOK, PhasesOK, FiguresOK, HeldOK, TokenHeldOK, FundingHeldOK, Held, Live,
       TokenOwed, Opened, Refunding, FaultKinds, Refund, Goto
  <1> QED
    BY <1>1, <1>2, <1>3, <1>4 DEF HeldOK

LEMMA RefundWalletHeld ==
    ASSUME TypeOK, NEW r \in Requests, AccountOK(r), HeldOK(r), RefundWallet(r)
    PROVE  HeldOK(r)' /\ \A x \in Requests \ {r} : Untouched(x)
  <1> USE AmountsAssumption DEF TypeOK, Sources, ledgers, request, books, flags, locals, paid
  <1>1. \A x \in Requests \ {r} : Untouched(x)
    BY DEF Untouched, RefundWallet, Live, DebitWallet, NonNegative, Lost, Goto
  <1>2. TokenHeldOK(r)'
    BY DEF AccountOK, PhasesOK, FiguresOK, HeldOK, TokenHeldOK, FundingHeldOK, Held, Live,
       TokenOwed, Opened, Refunding, FaultKinds, RefundWallet, DebitWallet, NonNegative, Lost,
       Goto
  <1>3. src'[r] = "wallet" \/ "record" \notin faults'[r] => FundingHeldOK(r)'
    BY DEF AccountOK, PhasesOK, FiguresOK, HeldOK, TokenHeldOK, FundingHeldOK, Held, Live,
       TokenOwed, Opened, Refunding, FaultKinds, RefundWallet, DebitWallet, NonNegative, Lost,
       Goto
  <1>4. /\ src'[r] = "wallet" => subPaid'[r] = 0
        /\ src'[r] = "subscription" => walletPaid'[r] = 0
        /\ pc'[r] \notin Opened => Held(r)' = 0
    BY DEF AccountOK, PhasesOK, FiguresOK, HeldOK, TokenHeldOK, FundingHeldOK, Held, Live,
       TokenOwed, Opened, Refunding, FaultKinds, RefundWallet, DebitWallet, NonNegative, Lost,
       Goto
  <1> QED
    BY <1>1, <1>2, <1>3, <1>4 DEF HeldOK

LEMMA RefundSubscriptionHeld ==
    ASSUME TypeOK, NEW r \in Requests, AccountOK(r), HeldOK(r), RefundSubscription(r)
    PROVE  HeldOK(r)' /\ \A x \in Requests \ {r} : Untouched(x)
  <1> USE AmountsAssumption DEF TypeOK, Sources, ledgers, request, books, flags, locals, paid
  <1>1. \A x \in Requests \ {r} : Untouched(x)
    BY DEF Untouched, RefundSubscription, Live, DebitSub, NonNegative, Lost, Goto
  <1>2. TokenHeldOK(r)'
    BY DEF AccountOK, PhasesOK, FiguresOK, HeldOK, TokenHeldOK, FundingHeldOK, Held, Live,
       TokenOwed, Opened, Refunding, FaultKinds, RefundSubscription, DebitSub, NonNegative,
       Lost, Goto
  <1>3. src'[r] = "wallet" \/ "record" \notin faults'[r] => FundingHeldOK(r)'
    BY DEF AccountOK, PhasesOK, FiguresOK, HeldOK, TokenHeldOK, FundingHeldOK, Held, Live,
       TokenOwed, Opened, Refunding, FaultKinds, RefundSubscription, DebitSub, NonNegative,
       Lost, Goto
  <1>4. /\ src'[r] = "wallet" => subPaid'[r] = 0
        /\ src'[r] = "subscription" => walletPaid'[r] = 0
        /\ pc'[r] \notin Opened => Held(r)' = 0
    BY DEF AccountOK, PhasesOK, FiguresOK, HeldOK, TokenHeldOK, FundingHeldOK, Held, Live,
       TokenOwed, Opened, Refunding, FaultKinds, RefundSubscription, DebitSub, NonNegative,
       Lost, Goto
  <1> QED
    BY <1>1, <1>2, <1>3, <1>4 DEF HeldOK

LEMMA RefundExtraHeld ==
    ASSUME TypeOK, NEW r \in Requests, AccountOK(r), HeldOK(r), RefundExtra(r)
    PROVE  HeldOK(r)' /\ \A x \in Requests \ {r} : Untouched(x)
  <1> USE AmountsAssumption DEF TypeOK, Sources, ledgers, request, books, flags, locals, paid
  <1>1. \A x \in Requests \ {r} : Untouched(x)
    BY DEF Untouched, RefundExtra, Live, DebitSub, NonNegative, Lost, Goto
  <1>2. TokenHeldOK(r)'
    BY DEF AccountOK, PhasesOK, FiguresOK, HeldOK, TokenHeldOK, FundingHeldOK, Held, Live,
       TokenOwed, Opened, Refunding, FaultKinds, RefundExtra, DebitSub, NonNegative, Lost,
       Goto
  <1>3. src'[r] = "wallet" \/ "record" \notin faults'[r] => FundingHeldOK(r)'
    BY DEF AccountOK, PhasesOK, FiguresOK, HeldOK, TokenHeldOK, FundingHeldOK, Held, Live,
       TokenOwed, Opened, Refunding, FaultKinds, RefundExtra, DebitSub, NonNegative, Lost,
       Goto
  <1>4. /\ src'[r] = "wallet" => subPaid'[r] = 0
        /\ src'[r] = "subscription" => walletPaid'[r] = 0
        /\ pc'[r] \notin Opened => Held(r)' = 0
    BY DEF AccountOK, PhasesOK, FiguresOK, HeldOK, TokenHeldOK, FundingHeldOK, Held, Live,
       TokenOwed, Opened, Refunding, FaultKinds, RefundExtra, DebitSub, NonNegative, Lost,
       Goto
  <1> QED
    BY <1>1, <1>2, <1>3, <1>4 DEF HeldOK

LEMMA RefundTokenHeld ==
    ASSUME TypeOK, NEW r \in Requests, AccountOK(r), HeldOK(r), RefundToken(r)
    PROVE  HeldOK(r)' /\ \A x \in Requests \ {r} : Untouched(x)
  <1> USE AmountsAssumption DEF TypeOK, Sources, ledgers, request, books, flags, locals, paid
  <1>1. \A x \in Requests \ {r} : Untouched(x)
    BY DEF Untouched, RefundToken, Live, ReturnToken, DebitToken, Lost, Goto
  <1>2. TokenHeldOK(r)'
    BY DEF AccountOK, PhasesOK, FiguresOK, HeldOK, TokenHeldOK, FundingHeldOK, Held, Live,
       TokenOwed, Opened, Refunding, FaultKinds, RefundToken, ReturnToken, DebitToken, Lost,
       Goto
  <1>3. src'[r] = "wallet" \/ "record" \notin faults'[r] => FundingHeldOK(r)'
    BY DEF AccountOK, PhasesOK, FiguresOK, HeldOK, TokenHeldOK, FundingHeldOK, Held, Live,
       TokenOwed, Opened, Refunding, FaultKinds, RefundToken, ReturnToken, DebitToken, Lost,
       Goto
  <1>4. /\ src'[r] = "wallet" => subPaid'[r] = 0
        /\ src'[r] = "subscription" => walletPaid'[r] = 0
        /\ pc'[r] \notin Opened => Held(r)' = 0
    BY DEF AccountOK, PhasesOK, FiguresOK, HeldOK, TokenHeldOK, FundingHeldOK, Held, Live,
       TokenOwed, Opened, Refunding, FaultKinds, RefundToken, ReturnToken, DebitToken, Lost,
       Goto
  <1> QED
    BY <1>1, <1>2, <1>3, <1>4 DEF HeldOK

LEMMA ReserveFundingHeld ==
    ASSUME TypeOK, NEW r \in Requests, AccountOK(r), HeldOK(r), NEW q \in Quotas, ReserveFunding(r, q)
    PROVE  HeldOK(r)' /\ \A x \in Requests \ {r} : Untouched(x)
  <1> USE AmountsAssumption DEF TypeOK, Sources, ledgers, request, books, flags, locals, paid
  <1>1. \A x \in Requests \ {r} : Untouched(x)
    BY DEF Untouched, ReserveFunding, Live, MayReserve, DebitWallet, DebitSub, NonNegative,
       Goto
  <1>2. TokenHeldOK(r)'
    BY DEF AccountOK, PhasesOK, FiguresOK, HeldOK, TokenHeldOK, FundingHeldOK, Held, Live,
       TokenOwed, Opened, Refunding, FaultKinds, ReserveFunding, MayReserve, DebitWallet,
       DebitSub, NonNegative, Goto
  <1>3. src'[r] = "wallet" \/ "record" \notin faults'[r] => FundingHeldOK(r)'
    BY DEF AccountOK, PhasesOK, FiguresOK, HeldOK, TokenHeldOK, FundingHeldOK, Held, Live,
       TokenOwed, Opened, Refunding, FaultKinds, ReserveFunding, MayReserve, DebitWallet,
       DebitSub, NonNegative, Goto
  <1>4. /\ src'[r] = "wallet" => subPaid'[r] = 0
        /\ src'[r] = "subscription" => walletPaid'[r] = 0
        /\ pc'[r] \notin Opened => Held(r)' = 0
    BY DEF AccountOK, PhasesOK, FiguresOK, HeldOK, TokenHeldOK, FundingHeldOK, Held, Live,
       TokenOwed, Opened, Refunding, FaultKinds, ReserveFunding, MayReserve, DebitWallet,
       DebitSub, NonNegative, Goto
  <1> QED
    BY <1>1, <1>2, <1>3, <1>4 DEF HeldOK

LEMMA SettleExactHeld ==
    ASSUME TypeOK, NEW r \in Requests, AccountOK(r), HeldOK(r), NEW q \in Quotas, SettleExact(r, q)
    PROVE  HeldOK(r)' /\ \A x \in Requests \ {r} : Untouched(x)
  <1> USE AmountsAssumption DEF TypeOK, Sources, ledgers, request, books, flags, locals, paid
  <1>1. \A x \in Requests \ {r} : Untouched(x)
    BY DEF Untouched, SettleExact, Live, Goto
  <1>2. TokenHeldOK(r)'
    BY DEF AccountOK, PhasesOK, FiguresOK, HeldOK, TokenHeldOK, FundingHeldOK, Held, Live,
       TokenOwed, Opened, Refunding, FaultKinds, SettleExact, Goto
  <1>3. src'[r] = "wallet" \/ "record" \notin faults'[r] => FundingHeldOK(r)'
    BY DEF AccountOK, PhasesOK, FiguresOK, HeldOK, TokenHeldOK, FundingHeldOK, Held, Live,
       TokenOwed, Opened, Refunding, FaultKinds, SettleExact, Goto
  <1>4. /\ src'[r] = "wallet" => subPaid'[r] = 0
        /\ src'[r] = "subscription" => walletPaid'[r] = 0
        /\ pc'[r] \notin Opened => Held(r)' = 0
    BY DEF AccountOK, PhasesOK, FiguresOK, HeldOK, TokenHeldOK, FundingHeldOK, Held, Live,
       TokenOwed, Opened, Refunding, FaultKinds, SettleExact, Goto
  <1> QED
    BY <1>1, <1>2, <1>3, <1>4 DEF HeldOK

LEMMA SettleFundingHeld ==
    ASSUME TypeOK, NEW r \in Requests, AccountOK(r), HeldOK(r), NEW q \in Quotas, SettleFunding(r, q)
    PROVE  HeldOK(r)' /\ \A x \in Requests \ {r} : Untouched(x)
  <1> USE AmountsAssumption DEF TypeOK, Sources, ledgers, request, books, flags, locals, paid
  <1>1. \A x \in Requests \ {r} : Untouched(x)
    BY DEF Untouched, SettleFunding, Live, DebitWallet, DebitSub, NonNegative, Goto
  <1>2. TokenHeldOK(r)'
    BY DEF AccountOK, PhasesOK, FiguresOK, HeldOK, TokenHeldOK, FundingHeldOK, Held, Live,
       TokenOwed, Opened, Refunding, FaultKinds, SettleFunding, DebitWallet, DebitSub,
       NonNegative, Goto
  <1>3. src'[r] = "wallet" \/ "record" \notin faults'[r] => FundingHeldOK(r)'
    BY DEF AccountOK, PhasesOK, FiguresOK, HeldOK, TokenHeldOK, FundingHeldOK, Held, Live,
       TokenOwed, Opened, Refunding, FaultKinds, SettleFunding, DebitWallet, DebitSub,
       NonNegative, Goto
  <1>4. /\ src'[r] = "wallet" => subPaid'[r] = 0
        /\ src'[r] = "subscription" => walletPaid'[r] = 0
        /\ pc'[r] \notin Opened => Held(r)' = 0
    BY DEF AccountOK, PhasesOK, FiguresOK, HeldOK, TokenHeldOK, FundingHeldOK, Held, Live,
       TokenOwed, Opened, Refunding, FaultKinds, SettleFunding, DebitWallet, DebitSub,
       NonNegative, Goto
  <1> QED
    BY <1>1, <1>2, <1>3, <1>4 DEF HeldOK

\* A step is that of one request, whose session has not ended.
LEMMA OneRequestActs ==
    ASSUME TypeOK, \A x \in Requests : AccountOK(x), \A x \in Requests : HeldOK(x), Next
    PROVE  \E r \in Requests : /\ pc[r] # "open" \/ Live(r)
                              /\ HeldOK(r)' /\ \A x \in Requests \ {r} : Untouched(x)
  <1>1. PICK r \in Requests :
           \/ \E p \in Profiles, q \in Quotas : NewBillingSession(r, p, q)
           \/ Proceed(r)
           \/ \E q \in Quotas : ReserveFunding(r, q) \/ SettleExact(r, q) \/ SettleFunding(r, q)
           \/ Refund(r)
           \/ RefundJob(r)
    BY DEF Next
  <1>2. pc[r] # "open" \/ Live(r)
    BY <1>1 DEF NewBillingSession, Proceed, ReadWalletQuota, PreConsumeToken, PreConsumeFunding,
       UndoToken, ReserveToken, UndoReserve, SettleToken, ReserveFunding, MayReserve, SettleExact,
       SettleFunding, Refund, RefundJob, RefundWallet, RefundSubscription, RefundExtra, RefundToken
  <1>3. HeldOK(r)' /\ \A x \in Requests \ {r} : Untouched(x)
    BY <1>1, NewBillingSessionHeld, ReadWalletQuotaHeld, PreConsumeTokenHeld,
       PreConsumeFundingHeld, UndoTokenHeld, ReserveTokenHeld, UndoReserveHeld,
       SettleTokenHeld, RefundHeld, RefundWalletHeld, RefundSubscriptionHeld,
       RefundExtraHeld, RefundTokenHeld, ReserveFundingHeld, SettleExactHeld, SettleFundingHeld
       DEF Proceed, RefundJob
  <1> QED
    BY <1>2, <1>3

LEMMA NextHeld == TypeOK /\ AccountingInv /\ HeldInv /\ [Next]_vars => HeldInv'
  <1> SUFFICES ASSUME TypeOK, \A x \in Requests : AccountOK(x), \A x \in Requests : HeldOK(x),
                      [Next]_vars
               PROVE  \A x \in Requests : HeldOK(x)'
    BY AccountsEverywhere DEF HeldInv, HeldOK
  <1>1. CASE UNCHANGED vars
    <2>1. \A x \in Requests : Untouched(x)
      BY <1>1 DEF vars, Untouched, ledgers, request, books, flags, locals, paid
    <2> QED
      BY <2>1, UntouchedKeepsHeld
  <1>2. CASE Next
    BY <1>2, OneRequestActs, UntouchedKeepsHeld
  <1> QED
    BY <1>1, <1>2

LEMMA InitHeld == Init => HeldInv
  BY DEF Init, Zero, HeldInv, TokenHeldOK, FundingHeldOK, Held, Live, TokenOwed, Opened

\* HeldInv is inductive together with the types and the accounts.
THEOREM Holding == Spec => [](TypeOK /\ AccountingInv /\ HeldInv)
  <1>1. Init => TypeOK /\ AccountingInv /\ HeldInv
    BY InitTypeOK, InitAccounts, InitHeld
  <1>2. TypeOK /\ AccountingInv /\ HeldInv /\ [Next]_vars => (TypeOK /\ AccountingInv /\ HeldInv)'
    BY NextTypeOK, NextAccounts, NextHeld
  <1> QED
    BY <1>1, <1>2, PTL DEF Spec

\* No refund, rollback or settlement returns more than the request paid, from
\* whichever ledger and with any compensations failing (Refund, preConsume).
THEOREM RefundNeverExcessive == Spec => []NeverOverRefunded
  <1>1. TypeOK /\ HeldInv => NeverOverRefunded
    BY DEF HeldInv, TokenHeldOK, FundingHeldOK, Held, NeverOverRefunded, TypeOK, Sources
  <1> QED
    BY <1>1, Holding, PTL

\* No call on a settled session, of whichever kind and order, moves money.
THEOREM SettlementIsFinal == Spec => SettledIsFinal
  <1>1. TypeOK /\ AccountingInv /\ HeldInv /\ [Next]_vars =>
          [\A r \in settled : /\ walletPaid'[r] = walletPaid[r]
                              /\ subPaid'[r] = subPaid[r]
                              /\ tokenPaid'[r] = tokenPaid[r]]_vars
    <2> SUFFICES ASSUME TypeOK, AccountingInv, HeldInv, Next, NEW r \in settled
                 PROVE  /\ walletPaid'[r] = walletPaid[r]
                        /\ subPaid'[r] = subPaid[r]
                        /\ tokenPaid'[r] = tokenPaid[r]
      OBVIOUS
    <2>1. r \in Requests /\ pc[r] = "open" /\ ~Live(r)
      BY DEF TypeOK, AccountingInv, PhasesOK, Live
    <2>2. Untouched(r)
      BY <2>1, OneRequestActs, AccountsEverywhere DEF HeldInv, HeldOK
    <2> QED
      BY <2>2 DEF Untouched
  <1> QED
    BY <1>1, Holding, PTL DEF Spec, SettledIsFinal

-----------------------------------------------------------------------------
(* The shared balances.                                                    *)

\* What leaves the wallet in a step is covered by its balance or recorded as a
\* debit without a balance check.
LEMMA NextDebt == TypeOK /\ AccountingInv /\ DebtIsAccounted /\ [Next]_vars => DebtIsAccounted'
  <1> SUFFICES ASSUME TypeOK, AccountingInv, DebtIsAccounted, [Next]_vars PROVE DebtIsAccounted'
    OBVIOUS
  <1> USE AmountsAssumption DEF TypeOK, Sources, ledgers, request, books, flags, locals, paid,
          DebtIsAccounted
  <1>1. ASSUME NEW r \in Requests, PreConsumeFunding(r) PROVE DebtIsAccounted'
    BY <1>1, EffectiveQuotaType DEF PreConsumeFunding, DebitWallet, WalletCovers
  <1>2. ASSUME NEW r \in Requests, NEW q \in Quotas, ReserveFunding(r, q)
        PROVE  DebtIsAccounted'
    BY <1>2 DEF ReserveFunding, MayReserve, DebitWallet, WalletCovers
  <1>3. ASSUME NEW r \in Requests, UndoReserve(r) PROVE DebtIsAccounted'
    BY <1>3 DEF UndoReserve, DebitWallet, AccountingInv, PhasesOK
  <1>4. ASSUME NEW r \in Requests, NEW q \in Quotas, SettleFunding(r, q)
        PROVE  DebtIsAccounted'
    BY <1>4 DEF SettleFunding, DebitWallet, NonNegative
  <1>5. ASSUME NEW r \in Requests, RefundWallet(r) PROVE DebtIsAccounted'
    BY <1>5 DEF RefundWallet, DebitWallet, NonNegative
  <1>6. CASE UNCHANGED <<wallet, overdraft>>
    BY <1>6
  <1>7. UNCHANGED vars => UNCHANGED <<wallet, overdraft>>
    BY DEF vars
  <1>8. \A r \in Requests :
           \/ \E p \in Profiles, q \in Quotas : NewBillingSession(r, p, q) \/ SettleExact(r, q)
           \/ ReadWalletQuota(r) \/ PreConsumeToken(r) \/ UndoToken(r) \/ ReserveToken(r)
           \/ SettleToken(r) \/ Refund(r) \/ RefundSubscription(r) \/ RefundExtra(r)
           \/ RefundToken(r)
         => UNCHANGED <<wallet, overdraft>>
    BY DEF NewBillingSession, SettleExact, ReadWalletQuota, PreConsumeToken, UndoToken,
       ReserveToken, SettleToken, Refund, RefundSubscription, RefundExtra, RefundToken
  <1> QED
    BY <1>1, <1>2, <1>3, <1>4, <1>5, <1>6, <1>7, <1>8, ProfilesAssumption
       DEF Next, Proceed, RefundJob

\* Any number of requests that read the balance before they reserve never
\* overdraw the wallet beyond the debits made without a check.
THEOREM DebtAlwaysAccounted == Spec => []DebtIsAccounted
  <1>1. Init => DebtIsAccounted
    BY AmountsAssumption DEF Init, DebtIsAccounted
  <1> QED
    BY <1>1, NextDebt, Accounting, PTL DEF Spec

-----------------------------------------------------------------------------
(* Sums over a finite set.  MapThenSumSet adds up by a recursive function, *)
(* which exists, and whose values are related, by induction on the size of *)
(* a set: a least set of numbers takes the place of an induction rule.     *)

LEMMA LeastNumber ==
    ASSUME NEW T, T \subseteq Nat, T # {}
    PROVE  \E n \in T : \A m \in T : n <= m
  <1>1. IsWellFoundedOn(OpToRel(<, Nat), Nat)
    BY NatLessThanWellFounded
  <1>2. PICK n \in T : \A m \in T : ~(<<m, n>> \in OpToRel(<, Nat))
    BY <1>1, WFMin
  <1>3. \A m \in T : ~(m < n)
    BY <1>2 DEF OpToRel
  <1> QED
    BY <1>3

First(s) == CHOOSE x \in s : TRUE
AddUp(f, g, s) == IF s = {} THEN 0 ELSE f[First(s)] + g[s \ {First(s)}]
Adds(f, g, S) == g = [s \in SUBSET S |-> AddUp(f, g, s)]
Adder(f, S) == CHOOSE g : Adds(f, g, S)

SumOf(f, S) == Adder(f, S)[S]

LEMMA LedgerIsSum ==
    /\ SubscriptionLedgerExact <=>
         ((\A r \in Requests : "record" \notin faults[r]) =>
            /\ subUsed = SumOf(subPaid, Requests)
            /\ SubTotal > 0 => subUsed <= SubTotal)
    /\ SubscriptionLedgerExact' <=>
         ((\A r \in Requests : "record" \notin faults'[r]) =>
            /\ subUsed' = SumOf(subPaid', Requests)
            /\ SubTotal > 0 => subUsed' <= SubTotal)
  BY DEF SubscriptionLedgerExact, SumOf, Adder, Adds, AddUp, First, MapThenSumSet, MapThenFoldSet

\* Subsets of a finite set, and what removing their first element does.
LEMMA Shrinks ==
    ASSUME NEW S, IsFiniteSet(S), NEW s \in SUBSET S
    PROVE  /\ Cardinality(s) \in Nat
           /\ s # {} => /\ First(s) \in s /\ s \ {First(s)} \in SUBSET S
                        /\ Cardinality(s \ {First(s)}) \in Nat
                        /\ Cardinality(s \ {First(s)}) < Cardinality(s)
  <1>1. IsFiniteSet(s) /\ Cardinality(s) \in Nat
    BY FS_Subset, FS_CardinalityType
  <1>2. ASSUME s # {} PROVE First(s) \in s
    BY <1>2 DEF First
  <1>3. ASSUME s # {}
        PROVE  Cardinality(s \ {First(s)}) = Cardinality(s) - 1 /\ IsFiniteSet(s \ {First(s)})
    BY <1>1, <1>2, <1>3, FS_RemoveElement
  <1>4. ASSUME s # {} PROVE Cardinality(s \ {First(s)}) \in Nat
    BY <1>3, <1>4, FS_CardinalityType
  <1> QED
    BY <1>1, <1>2, <1>3, <1>4

LEMMA AdderExists ==
    ASSUME NEW S, IsFiniteSet(S), NEW f \in [S -> Int]
    PROVE  \E g \in [SUBSET S -> Int] : Adds(f, g, S)
  <1> DEFINE Upto(n, g) == \A s \in SUBSET S : Cardinality(s) <= n => g[s] = AddUp(f, g, s)
             Good(n) == \E g \in [SUBSET S -> Int] : Upto(n, g)
             Bad == {n \in Nat : ~Good(n)}
  <1>0. \A s \in SUBSET S :
          /\ Cardinality(s) \in Nat
          /\ s # {} => /\ First(s) \in s /\ s \ {First(s)} \in SUBSET S
                       /\ Cardinality(s \ {First(s)}) \in Nat
                       /\ Cardinality(s \ {First(s)}) < Cardinality(s)
    BY Shrinks
  <1>1. Bad = {}
    <2> SUFFICES ASSUME Bad # {} PROVE FALSE
      OBVIOUS
    <2>1. PICK n \in Bad : \A m \in Bad : n <= m
      <3> HIDE DEF Bad
      <3>1. Bad \subseteq Nat
        BY DEF Bad
      <3> QED
        BY <3>1, LeastNumber
    <2>2. n \in Nat /\ ~Good(n)
      OBVIOUS
    <2>3. \E g \in [SUBSET S -> Int] : \A s \in SUBSET S : Cardinality(s) < n => g[s] = AddUp(f, g, s)
      <3>1. CASE n = 0
        <4> DEFINE g == [s \in SUBSET S |-> 0]
        <4>1. g \in [SUBSET S -> Int] /\ \A s \in SUBSET S : ~(Cardinality(s) < n)
          <5>1. ASSUME NEW s \in SUBSET S PROVE ~(Cardinality(s) < n)
            <6>1. Cardinality(s) \in Nat
              BY <1>0
            <6> QED
              BY <3>1, <6>1
          <5> QED
            BY <5>1
        <4> HIDE DEF g
        <4> QED
          BY <4>1
      <3>2. CASE n # 0
        <4>1. n - 1 \in Nat /\ n - 1 \notin Bad
          <5> HIDE DEF Bad, Good
          <5> QED
            BY <2>1, <2>2, <3>2
        <4>2. PICK g \in [SUBSET S -> Int] : Upto(n - 1, g)
          BY <4>1
        <4>3. \A s \in SUBSET S : Cardinality(s) < n => Cardinality(s) <= n - 1
          <5> SUFFICES ASSUME NEW s \in SUBSET S, Cardinality(s) < n
                       PROVE  Cardinality(s) <= n - 1
            OBVIOUS
          <5>1. Cardinality(s) \in Nat
            BY <1>0
          <5> QED
            BY <2>2, <5>1
        <4> QED
          BY <4>2, <4>3
      <3> QED
        BY <3>1, <3>2
    <2>4. PICK g \in [SUBSET S -> Int] :
            \A s \in SUBSET S : Cardinality(s) < n => g[s] = AddUp(f, g, s)
      BY <2>3
    <2> DEFINE h == [s \in SUBSET S |-> IF Cardinality(s) < n THEN g[s] ELSE AddUp(f, g, s)]
    <2>5. \A s \in SUBSET S : AddUp(f, g, s) \in Int
      <3> HIDE DEF Bad, Good
      <3>1. \A s \in SUBSET S : s # {} => First(s) \in S
        BY <1>0
      <3> QED
        BY <1>0, <3>1 DEF AddUp
    <2>6. h \in [SUBSET S -> Int]
      BY <2>5
    <2>7. \A s \in SUBSET S : h[s] = AddUp(f, g, s)
      BY <2>4
    <2>8. ASSUME NEW s \in SUBSET S, Cardinality(s) <= n PROVE h[s] = AddUp(f, h, s)
      <3>1. CASE s = {}
        BY <2>7, <3>1 DEF AddUp
      <3>2. CASE s # {}
        <4>1. s \ {First(s)} \in SUBSET S /\ Cardinality(s \ {First(s)}) < n
          BY <2>2, <2>8, <3>2, Shrinks
        <4>2. h[s \ {First(s)}] = g[s \ {First(s)}]
          BY <4>1
        <4> HIDE DEF h
        <4> QED
          BY <2>7, <3>2, <4>2 DEF AddUp
      <3> QED
        BY <3>1, <3>2
    <2>9. Upto(n, h)
      BY <2>8
    <2> QED
      BY <2>2, <2>6, <2>9
  <1>2. Cardinality(S) \in Nat /\ \A s \in SUBSET S : Cardinality(s) <= Cardinality(S)
    BY FS_Subset, FS_CardinalityType
  <1>3. PICK g \in [SUBSET S -> Int] : Upto(Cardinality(S), g)
    BY <1>1, <1>2
  <1>4. \A s \in SUBSET S : g[s] = AddUp(f, g, s)
    BY <1>2, <1>3
  <1>5. Adds(f, g, S)
    BY <1>4 DEF Adds
  <1> QED
    BY <1>5

LEMMA AdderAdds ==
    ASSUME NEW S, IsFiniteSet(S), NEW f \in [S -> Int]
    PROVE  \A s \in SUBSET S : Adder(f, S)[s] = AddUp(f, Adder(f, S), s)
  <1>1. Adds(f, Adder(f, S), S)
    BY AdderExists DEF Adder
  <1> QED
    BY <1>1 DEF Adds

\* Increasing one summand increases the sum by as much.
LEMMA SumStep ==
    ASSUME NEW S, IsFiniteSet(S), NEW f \in [S -> Int], NEW h \in [S -> Int], NEW r \in S,
           NEW a \in Int, h[r] = f[r] + a, \A x \in S \ {r} : h[x] = f[x]
    PROVE  SumOf(h, S) = SumOf(f, S) + a
  <1> DEFINE F == Adder(f, S)
             H == Adder(h, S)
             OK(s) == F[s] \in Int /\ H[s] = F[s] + (IF r \in s THEN a ELSE 0)
             Bad == {n \in Nat : \E s \in SUBSET S : Cardinality(s) = n /\ ~OK(s)}
  <1>1. \A s \in SUBSET S : F[s] = AddUp(f, F, s) /\ H[s] = AddUp(h, H, s)
    BY AdderAdds
  <1> HIDE DEF F, H
  <1>2. Bad = {}
    <2> SUFFICES ASSUME Bad # {} PROVE FALSE
      OBVIOUS
    <2>1. PICK n \in Bad : \A m \in Bad : n <= m
      <3> HIDE DEF Bad
      <3>1. Bad \subseteq Nat
        BY DEF Bad
      <3> QED
        BY <3>1, LeastNumber
    <2>2. PICK s \in SUBSET S : Cardinality(s) = n /\ ~OK(s)
      OBVIOUS
    <2>3. CASE s = {}
      <3>1. F[s] = 0 /\ H[s] = 0 /\ r \notin s
        BY <1>1, <2>3 DEF AddUp
      <3> QED
        BY <2>2, <3>1
    <2>4. CASE s # {}
      <3> DEFINE x == First(s)
                 u == s \ {x}
      <3>1. x \in s /\ u \in SUBSET S /\ Cardinality(u) \in Nat /\ Cardinality(u) < n /\ n \in Nat
        BY <2>2, <2>4, Shrinks
      <3>2. OK(u)
        BY <2>1, <3>1
      <3>3. F[s] = f[x] + F[u] /\ H[s] = h[x] + H[u]
        BY <1>1, <2>4 DEF AddUp
      <3>4. r \in s <=> (r = x \/ r \in u)
        BY <3>1
      <3>5. ~(r = x /\ r \in u) /\ x \in S
        BY <3>1
      <3> HIDE DEF x, u
      <3>6. OK(s)
        <4>1. F[u] \in Int /\ H[u] = F[u] + (IF r \in u THEN a ELSE 0) /\ f[x] \in Int
          BY <3>2, <3>5
        <4>2. CASE r = x
          BY <3>3, <3>4, <3>5, <4>1, <4>2
        <4>3. CASE r # x
          BY <3>3, <3>4, <3>5, <4>1, <4>3
        <4> QED
          BY <4>2, <4>3
      <3> QED
        BY <2>2, <3>6
    <2> QED
      BY <2>3, <2>4
  <1>3. OK(S)
    <2>1. Cardinality(S) \in Nat
      BY FS_CardinalityType
    <2> QED
      BY <1>2, <2>1
  <1> QED
    BY <1>3 DEF F, H, SumOf

\* A sum of natural numbers is one, and an all-zero sum is zero.
LEMMA SumNat ==
    ASSUME NEW S, IsFiniteSet(S), NEW f \in [S -> Nat]
    PROVE  /\ SumOf(f, S) \in Nat
           /\ (\A x \in S : f[x] = 0) => SumOf(f, S) = 0
  <1> DEFINE F == Adder(f, S)
             OK(s) == F[s] \in Nat /\ ((\A x \in S : f[x] = 0) => F[s] = 0)
             Bad == {n \in Nat : \E s \in SUBSET S : Cardinality(s) = n /\ ~OK(s)}
  <1>1. \A s \in SUBSET S : F[s] = AddUp(f, F, s)
    <2>1. f \in [S -> Int]
      OBVIOUS
    <2> QED
      BY <2>1, AdderAdds
  <1> HIDE DEF F
  <1>2. Bad = {}
    <2> SUFFICES ASSUME Bad # {} PROVE FALSE
      OBVIOUS
    <2>1. PICK n \in Bad : \A m \in Bad : n <= m
      <3> HIDE DEF Bad
      <3>1. Bad \subseteq Nat
        BY DEF Bad
      <3> QED
        BY <3>1, LeastNumber
    <2>2. PICK s \in SUBSET S : Cardinality(s) = n /\ ~OK(s)
      OBVIOUS
    <2>3. CASE s = {}
      <3>1. F[s] = 0
        BY <1>1, <2>3 DEF AddUp
      <3> QED
        BY <2>2, <3>1
    <2>4. CASE s # {}
      <3> DEFINE x == First(s)
                 u == s \ {x}
      <3>1. x \in s /\ u \in SUBSET S /\ Cardinality(u) \in Nat /\ Cardinality(u) < n /\ n \in Nat
        BY <2>2, <2>4, Shrinks
      <3>2. OK(u) /\ x \in S
        BY <2>1, <3>1
      <3>3. F[s] = f[x] + F[u]
        BY <1>1, <2>4 DEF AddUp
      <3> HIDE DEF x, u
      <3> QED
        BY <2>2, <3>2, <3>3
    <2> QED
      BY <2>3, <2>4
  <1>3. OK(S)
    <2>1. Cardinality(S) \in Nat
      BY FS_CardinalityType
    <2> QED
      BY <1>2, <2>1
  <1> QED
    BY <1>3 DEF F, SumOf

-----------------------------------------------------------------------------
(* The subscription's ledger.                                              *)

\* A step charges the subscription within amount_total, or credits it.
LEMMA SubscriptionMoves ==
    ASSUME TypeOK, AccountingInv, [Next]_vars
    PROVE  \/ UNCHANGED <<subUsed, subPaid>>
           \/ \E r \in Requests, a \in Int : DebitSub(r, a) /\ (a <= 0 \/ SubHasRoom(a))
  <1> DEFINE Moves == \E r \in Requests, a \in Int : DebitSub(r, a) /\ (a <= 0 \/ SubHasRoom(a))
  <1> USE AmountsAssumption DEF TypeOK, Sources, ledgers, request, books, flags, locals, paid
  <1>1. ASSUME NEW r \in Requests, PreConsumeFunding(r) PROVE UNCHANGED <<subUsed, subPaid>> \/ Moves
    <2>1. EffectiveQuota(r) \in Int
      BY EffectiveQuotaType
    <2> QED
      BY <1>1, <2>1 DEF PreConsumeFunding
  <1>2. ASSUME NEW r \in Requests, NEW q \in Quotas, ReserveFunding(r, q) \/ SettleFunding(r, q)
        PROVE  UNCHANGED <<subUsed, subPaid>> \/ Moves
    <2>1. q - pre[r] \in Int
      OBVIOUS
    <2> QED
      BY <1>2, <2>1 DEF ReserveFunding, SettleFunding
  <1>3. ASSUME NEW r \in Requests, UndoReserve(r) PROVE UNCHANGED <<subUsed, subPaid>> \/ Moves
    <2>1. -delta[r] \in Int /\ -delta[r] <= 0
      BY <1>3 DEF UndoReserve, AccountingInv, PhasesOK
    <2> QED
      BY <1>3, <2>1 DEF UndoReserve
  <1>4. ASSUME NEW r \in Requests, RefundSubscription(r) PROVE UNCHANGED <<subUsed, subPaid>> \/ Moves
    <2>1. -subPre[r] \in Int /\ -subPre[r] <= 0
      OBVIOUS
    <2> QED
      BY <1>4, <2>1 DEF RefundSubscription
  <1>5. ASSUME NEW r \in Requests, RefundExtra(r) PROVE UNCHANGED <<subUsed, subPaid>> \/ Moves
    <2> DEFINE owed == IF src[r] = "subscription" THEN extra[r] ELSE 0
    <2>1. -owed \in Int /\ -owed <= 0
      OBVIOUS
    <2> QED
      BY <1>5, <2>1 DEF RefundExtra
  <1>6. UNCHANGED vars => UNCHANGED <<subUsed, subPaid>>
    BY DEF vars
  <1>7. \A r \in Requests :
           \/ \E p \in Profiles, q \in Quotas : NewBillingSession(r, p, q) \/ SettleExact(r, q)
           \/ ReadWalletQuota(r) \/ PreConsumeToken(r) \/ UndoToken(r) \/ ReserveToken(r)
           \/ SettleToken(r) \/ Refund(r) \/ RefundWallet(r) \/ RefundToken(r)
         => UNCHANGED <<subUsed, subPaid>>
    BY DEF NewBillingSession, SettleExact, ReadWalletQuota, PreConsumeToken, UndoToken,
       ReserveToken, SettleToken, Refund, RefundWallet, RefundToken
  <1> HIDE DEF Moves
  <1>8. UNCHANGED <<subUsed, subPaid>> \/ Moves
    BY <1>1, <1>2, <1>3, <1>4, <1>5, <1>6, <1>7, ProfilesAssumption DEF Next, Proceed, RefundJob
  <1> QED
    BY <1>8 DEF Moves

\* A lost record stays lost.
LEMMA FaultsStay ==
    ASSUME TypeOK, [Next]_vars, NEW x \in Requests PROVE faults[x] \subseteq faults'[x]
  <1>1. CASE UNCHANGED faults
    BY <1>1
  <1>2. CASE \E r \in Requests, k \in FaultKinds : Lost(r, k)
    BY <1>2 DEF Lost, TypeOK
  <1>3. UNCHANGED faults \/ \E r \in Requests, k \in FaultKinds : Lost(r, k)
    <2> USE DEF FaultKinds
    <2>1. ASSUME NEW r \in Requests,
                 UndoToken(r) \/ UndoReserve(r) \/ SettleToken(r) \/ RefundWallet(r)
                   \/ RefundSubscription(r) \/ RefundExtra(r) \/ RefundToken(r)
          PROVE  UNCHANGED faults \/ \E k \in FaultKinds : Lost(r, k)
      BY <2>1 DEF UndoToken, ReturnToken, UndoReserve, SettleToken, RefundWallet,
         RefundSubscription, RefundExtra, RefundToken
    <2>2. UNCHANGED vars => UNCHANGED faults
      BY DEF vars
    <2>3. \A r \in Requests :
             \/ \E p \in Profiles, q \in Quotas : NewBillingSession(r, p, q)
             \/ \E q \in Quotas : ReserveFunding(r, q) \/ SettleExact(r, q) \/ SettleFunding(r, q)
             \/ ReadWalletQuota(r) \/ PreConsumeToken(r) \/ PreConsumeFunding(r) \/ ReserveToken(r)
             \/ Refund(r)
           => UNCHANGED faults
      BY DEF NewBillingSession, ReserveFunding, SettleExact, SettleFunding, ReadWalletQuota,
         PreConsumeToken, PreConsumeFunding, ReserveToken, Refund
    <2> QED
      BY <2>1, <2>2, <2>3 DEF Next, Proceed, RefundJob
  <1> QED
    BY <1>1, <1>2, <1>3

LEMMA NextLedger ==
    ASSUME TypeOK, AccountingInv, TypeOK', HeldInv', SubscriptionLedgerExact, [Next]_vars
    PROVE  SubscriptionLedgerExact'
  <1> SUFFICES ASSUME \A x \in Requests : "record" \notin faults'[x]
               PROVE  /\ subUsed' = SumOf(subPaid', Requests)
                      /\ SubTotal > 0 => subUsed' <= SubTotal
    BY LedgerIsSum
  <1>1. \A x \in Requests : "record" \notin faults[x]
    BY FaultsStay
  <1>2. /\ subUsed = SumOf(subPaid, Requests)
        /\ SubTotal > 0 => subUsed <= SubTotal
    BY <1>1, LedgerIsSum
  <1>3. CASE UNCHANGED <<subUsed, subPaid>>
    BY <1>2, <1>3
  <1>4. ASSUME NEW r \in Requests, NEW a \in Int, DebitSub(r, a), a <= 0 \/ SubHasRoom(a)
        PROVE  /\ subUsed' = SumOf(subPaid', Requests)
               /\ SubTotal > 0 => subUsed' <= SubTotal
    <2>1. subPaid' \in [Requests -> Nat]
      BY DEF HeldInv, FundingHeldOK, Held, TypeOK, Sources
    <2>2. subPaid \in [Requests -> Int] /\ subPaid'[r] = subPaid[r] + a
          /\ \A x \in Requests \ {r} : subPaid'[x] = subPaid[x]
      BY <1>4 DEF DebitSub, TypeOK
    <2>3. SumOf(subPaid', Requests) = subUsed + a
      BY <1>2, <2>1, <2>2, SumStep, RequestsFinite
    <2>4. subUsed + a \in Nat
      BY <2>1, <2>3, SumNat, RequestsFinite
    <2>5. subUsed' = subUsed + a
      BY <1>4, <2>4 DEF DebitSub, NonNegative, TypeOK
    <2> QED
      BY <1>2, <1>4, <2>3, <2>5, AmountsAssumption DEF SubHasRoom, TypeOK
  <1> QED
    BY <1>3, <1>4, SubscriptionMoves

\* amount_used is what the requests really hold and stays within amount_total,
\* for any number of them: the clamp of PostConsumeUserSubscriptionDelta never
\* hides a credit, unless the record of a refund was lost.
THEOREM SubscriptionLedgerAlwaysExact == Spec => []SubscriptionLedgerExact
  <1>1. Init => SubscriptionLedgerExact
    <2> SUFFICES ASSUME Init PROVE SubscriptionLedgerExact
      OBVIOUS
    <2>1. subPaid \in [Requests -> Nat] /\ \A x \in Requests : subPaid[x] = 0
      BY DEF Init, Zero
    <2>2. SumOf(subPaid, Requests) = 0
      BY <2>1, SumNat, RequestsFinite
    <2> QED
      BY <2>2, AmountsAssumption, LedgerIsSum DEF Init
  <1> QED
    BY <1>1, NextLedger, Holding, PTL DEF Spec
=============================================================================
