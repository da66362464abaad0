--------------------------- MODULE BillingSession ---------------------------
(***************************************************************************)
(* The per-request billing session of service/billing_session.go: a        *)
(* request reserves quota from the API token and from one funding source   *)
(* (wallet or subscription), may raise the reservation before an upstream  *)
(* attempt, and finally either settles to the actual usage or refunds.     *)
(*                                                                         *)
(* Several requests of one user run concurrently against one wallet, one   *)
(* token and one subscription.  Every ledger call is one atomic step (an   *)
(* SQL statement, a transaction or a Redis script) and any of them may     *)
(* fail; what happens between two ledger calls of one session interleaves  *)
(* freely with the other requests.  The session mutex makes the calls of   *)
(* one session sequential, so each request has one program counter.        *)
(***************************************************************************)
EXTENDS Integers, FiniteSets, FiniteSetsExt

CONSTANTS
    Requests,        \* concurrent requests of the same user and token
    Profiles,        \* [pref, playground, image, strict, force]: what a request is
    Quotas,          \* estimated and actual quotas a request may ask for
    InitWallet,      \* users.quota before the requests
    InitToken,       \* tokens.remain_quota before the requests
    TokenUnlimited,  \* tokens.unlimited_quota
    SubActive,       \* the user has an active subscription
    SubTotal,        \* user_subscriptions.amount_total, 0 = unlimited
    WalletOverflow,  \* the subscription allows falling back to the wallet
    TrustQuota,      \* common.GetTrustQuota(), 0 = no trusted bypass
    MaxReserves      \* bound: Reserve calls of one request (one per upstream attempt)

Prefs == {"subscription_only", "wallet_only", "wallet_first", "subscription_first"}

ASSUME ProfilesAssumption ==
    /\ Profiles # {}
    /\ Profiles \subseteq [pref : Prefs, playground : BOOLEAN, image : BOOLEAN,
                           strict : BOOLEAN, force : BOOLEAN]

ASSUME AmountsAssumption ==
    /\ Quotas \subseteq Nat
    /\ InitWallet \in Nat /\ InitToken \in Nat
    /\ SubTotal \in Nat /\ TrustQuota \in Nat /\ MaxReserves \in Nat

ASSUME FlagsAssumption ==
    TokenUnlimited \in BOOLEAN /\ SubActive \in BOOLEAN /\ WalletOverflow \in BOOLEAN

ASSUME RequestsFinite == IsFiniteSet(Requests)

VARIABLES
    wallet,    \* users.quota; may go negative (debt)
    token,     \* tokens.remain_quota
    subUsed,   \* user_subscriptions.amount_used
    pc,        \* where each request is
    \* the request: fixed by NewBillingSession, src changes on a fallback
    profile, quota, tokenSeen, src,
    \* BillingSession and FundingSource: the books of the session
    pre,            \* preConsumedQuota
    tokenConsumed,  \* tokenConsumed
    extra,          \* extraReserved
    consumed,       \* WalletFunding.consumed
    subPre,         \* SubscriptionFunding.preConsumed
    trusted, settled, refunded,  \* the sets of sessions with the flag
    \* locals of the running call and counters
    delta, reserves, tries,
    \* auxiliary
    walletPaid, subPaid, tokenPaid,  \* what really left each ledger for the request
    actual,    \* the usage the session was settled to
    faults,    \* which compensations of the request were lost
    overdraft  \* sum of the debits made without a balance check

ledgers == <<wallet, token, subUsed>>
request == <<profile, quota, tokenSeen>>
books == <<pre, tokenConsumed, extra, consumed, subPre>>
flags == <<trusted, settled, refunded>>
locals == <<delta, reserves, tries>>
paid == <<walletPaid, subPaid, tokenPaid>>
vars == <<ledgers, pc, request, src, books, flags, locals, paid, actual, faults, overdraft>>

MaxRefundAttempts == 3

FaultKinds == {"compensation", "record"}

PCs == {"new", "wallet_quota", "token", "funding", "undo_insufficient", "undo_error",
        "open", "reserve_token", "undo_reserve", "settle_token",
        "refund_funding", "refund_extra", "refund_token", "rejected"}

Sources == {"wallet", "subscription"}

\* Mutant: the clamp max(.., 0) is dropped.
NonNegativeUnclamped(n) == n

NonNegative(n) == IF n < 0 THEN 0 ELSE n

-----------------------------------------------------------------------------
(* Ledger operations of the model package, as this file calls them.        *)

\* TryReserveUserQuota, DecreaseUserQuota, IncreaseUserQuota: amount leaves
\* the wallet for r (a negative amount returns).
DebitWallet(r, amount) ==
    /\ wallet' = wallet - amount
    /\ walletPaid' = [walletPaid EXCEPT ![r] = @ + amount]

\* TryReserveTokenQuota, DecreaseTokenQuota, IncreaseTokenQuota.
DebitToken(r, amount) ==
    /\ token' = token - amount
    /\ tokenPaid' = [tokenPaid EXCEPT ![r] = @ + amount]

\* PostConsumeUserSubscriptionDelta: amount_used is clamped at zero.
DebitSub(r, amount) ==
    /\ subUsed' = NonNegative(subUsed + amount)
    /\ subPaid' = [subPaid EXCEPT ![r] = @ + amount]

\* Mutant: amount_total is not enforced.
SubHasRoomUnchecked(amount) == TRUE

SubHasRoom(amount) == SubTotal = 0 \/ subUsed + amount <= SubTotal

TokenHasRoom(amount) == TokenUnlimited \/ token >= amount

\* Mutant: the reservation trusts the balance read earlier.
WalletCoversStale(amount) == TRUE

\* The balance check of TryReserveUserQuota, atomic with its debit.
WalletCovers(amount) == wallet >= amount

\* A statement that compensates or completes an earlier one fails; the code
\* only logs it, so the request's books stay off by that amount.
Lost(r, kind) == faults' = [faults EXCEPT ![r] = @ \cup {kind}]

Goto(r, label) == pc' = [pc EXCEPT ![r] = label]

-----------------------------------------------------------------------------
(* NewBillingSession: choose the funding source, fall back on shortage.    *)

\* A new BillingSession over source s, with empty books.
StartSession(r, s) ==
    /\ src' = [src EXCEPT ![r] = s]
    /\ tokenConsumed' = [tokenConsumed EXCEPT ![r] = 0]
    /\ trusted' = trusted \ {r}
    /\ Goto(r, IF s = "wallet" THEN "wallet_quota" ELSE "token")
    /\ UNCHANGED <<pre, extra, consumed, subPre, settled, refunded>>

FirstSource(p) ==
    CASE p.pref = "subscription_only" -> "subscription"
      [] p.pref \in {"wallet_only", "wallet_first"} -> "wallet"
      [] OTHER -> IF SubActive THEN "subscription" ELSE "wallet"

NewBillingSession(r, p, q) ==
    /\ pc[r] = "new"
    /\ profile' = [profile EXCEPT ![r] = p]
    /\ quota' = [quota EXCEPT ![r] = q]
    /\ tokenSeen' = [tokenSeen EXCEPT ![r] = token]
    /\ StartSession(r, FirstSource(p))
    /\ UNCHANGED <<ledgers, locals, paid, actual, faults, overdraft>>

\* The source a request may still try when its source reports a shortage.
MayFallBackTo(r, s) ==
    \/ profile[r].pref = "wallet_first" /\ src[r] = "wallet" /\ s = "subscription"
    \/ profile[r].pref = "subscription_first" /\ src[r] = "subscription"
          /\ WalletOverflow /\ s = "wallet"

\* ErrorCodeInsufficientUserQuota: try the other source or reject.
Insufficient(r) ==
    \/ \E s \in Sources : MayFallBackTo(r, s) /\ StartSession(r, s)
    \/ /\ ~\E s \in Sources : MayFallBackTo(r, s)
       /\ Goto(r, "rejected")
       /\ UNCHANGED <<src, books, flags>>

\* shouldTrust: only a wallet session, and never a forced pre-consume.
ShouldTrust(r) ==
    /\ ~profile[r].force
    /\ TrustQuota > 0
    /\ TokenUnlimited \/ tokenSeen[r] > TrustQuota
    /\ wallet > TrustQuota

\* tryWallet reads the balance before it reserves: the value may be stale by
\* the time TryReserveUserQuota runs.
ReadWalletQuota(r) ==
    /\ pc[r] = "wallet_quota"
    /\ IF wallet <= 0 \/ wallet < quota[r]
       THEN Insufficient(r)
       ELSE /\ trusted' = IF ShouldTrust(r) THEN trusted \cup {r} ELSE trusted
            /\ Goto(r, "token")
            /\ UNCHANGED <<src, books, settled, refunded>>
    /\ UNCHANGED <<ledgers, request, locals, paid, actual, faults, overdraft>>

\* A subscription is always charged at least one unit (subConsume).
EffectiveQuota(r) ==
    IF r \in trusted THEN 0
    ELSE IF src[r] = "subscription" /\ quota[r] = 0 THEN 1 ELSE quota[r]

-----------------------------------------------------------------------------
(* preConsume: token first, then the funding source, token rolled back.    *)

PreConsumeToken(r) ==
    LET eff == EffectiveQuota(r)
    IN  /\ pc[r] = "token"
        /\ \/ /\ eff = 0 \/ profile[r].playground
              /\ tokenConsumed' = [tokenConsumed EXCEPT ![r] = eff]
              /\ Goto(r, "funding")
              /\ UNCHANGED <<token, tokenPaid>>
           \/ /\ eff > 0 /\ ~profile[r].playground /\ TokenHasRoom(eff)
              /\ DebitToken(r, eff)
              /\ tokenConsumed' = [tokenConsumed EXCEPT ![r] = eff]
              /\ Goto(r, "funding")
           \* token quota not enough, or the reservation failed: no fallback
           \/ /\ eff > 0 /\ ~profile[r].playground
              /\ Goto(r, "rejected")
              /\ UNCHANGED <<token, tokenPaid, tokenConsumed>>
        /\ UNCHANGED <<wallet, subUsed, request, src, pre, extra, consumed, subPre, flags,
                       locals, walletPaid, subPaid, actual, faults, overdraft>>

PreConsumeFunding(r) ==
    LET eff == EffectiveQuota(r)
    IN  /\ pc[r] = "funding"
        /\ \/ /\ src[r] = "wallet" /\ (eff > 0 => WalletCovers(eff))
              /\ DebitWallet(r, eff)
              /\ consumed' = [consumed EXCEPT ![r] = eff]
              /\ pre' = [pre EXCEPT ![r] = eff]
              /\ Goto(r, "open")
              /\ UNCHANGED <<subUsed, subPaid, subPre>>
           \/ /\ src[r] = "subscription" /\ SubActive /\ SubHasRoom(eff)
              /\ DebitSub(r, eff)
              /\ subPre' = [subPre EXCEPT ![r] = eff]
              /\ pre' = [pre EXCEPT ![r] = eff]
              /\ Goto(r, "open")
              /\ UNCHANGED <<wallet, walletPaid, consumed>>
           \* ErrInsufficientWalletQuota, no active subscription, quota insufficient
           \/ /\ \/ src[r] = "wallet" /\ eff > 0 /\ ~WalletCovers(eff)
                 \/ src[r] = "subscription" /\ ~(SubActive /\ SubHasRoom(eff))
              /\ Goto(r, "undo_insufficient")
              /\ UNCHANGED <<wallet, subUsed, walletPaid, subPaid, pre, consumed, subPre>>
           \* any other database error
           \/ /\ eff > 0
              /\ Goto(r, "undo_error")
              /\ UNCHANGED <<wallet, subUsed, walletPaid, subPaid, pre, consumed, subPre>>
        /\ UNCHANGED <<token, request, src, tokenConsumed, extra, flags, locals, tokenPaid,
                       actual, faults, overdraft>>

\* What the token is owed: a playground request never charged it.
TokenOwed(r) == IF profile[r].playground THEN 0 ELSE tokenConsumed[r]

\* The token reservation goes back; an error there is only logged.
ReturnToken(r) ==
    \/ DebitToken(r, -TokenOwed(r)) /\ UNCHANGED faults
    \/ TokenOwed(r) > 0 /\ Lost(r, "compensation") /\ UNCHANGED <<token, tokenPaid>>

\* Mutant: preConsume returns without rolling the token back.
UndoTokenForgotten(r) ==
    /\ \/ pc[r] = "undo_insufficient" /\ Insufficient(r)
       \/ pc[r] = "undo_error" /\ Goto(r, "rejected") /\ UNCHANGED <<src, books, flags>>
    /\ UNCHANGED <<ledgers, request, locals, paid, actual, faults, overdraft>>

\* preConsume's error path, then the decision of NewBillingSession.
UndoToken(r) ==
    /\ \/ pc[r] = "undo_insufficient" /\ Insufficient(r)
       \/ pc[r] = "undo_error" /\ Goto(r, "rejected") /\ UNCHANGED <<src, books, flags>>
    /\ ReturnToken(r)
    /\ UNCHANGED <<wallet, subUsed, request, locals, walletPaid, subPaid, actual, overdraft>>

-----------------------------------------------------------------------------
(* Reserve: raise the reservation to a target before an upstream attempt.  *)

\* Mutant: a settled session still accepts calls.
LiveIgnoresSettled(r) == pc[r] = "open" /\ r \notin refunded

Live(r) == pc[r] = "open" /\ r \notin settled /\ r \notin refunded

MayReserve(r, target) ==
    /\ Live(r)
    /\ r \notin trusted \/ profile[r].image
    /\ target > pre[r]
    /\ reserves[r] < MaxReserves

\* reserveFunding.  The image path goes through WalletFunding.PreConsume,
\* which assigns consumed; the other wallet paths add to it.
ReserveFunding(r, target) ==
    LET d == target - pre[r]
    IN  /\ MayReserve(r, target)
        /\ \/ /\ src[r] = "wallet" /\ profile[r].image /\ WalletCovers(d)
              /\ DebitWallet(r, d)
              /\ consumed' = [consumed EXCEPT ![r] = d]
              /\ UNCHANGED <<subUsed, subPaid, overdraft>>
           \/ /\ src[r] = "wallet" /\ ~profile[r].image
              /\ profile[r].strict => WalletCovers(d)
              /\ DebitWallet(r, d)
              /\ consumed' = [consumed EXCEPT ![r] = @ + d]
              /\ overdraft' = IF profile[r].strict THEN overdraft ELSE overdraft + d
              /\ UNCHANGED <<subUsed, subPaid>>
           \/ /\ src[r] = "subscription" /\ SubHasRoom(d)
              /\ DebitSub(r, d)
              /\ UNCHANGED <<wallet, walletPaid, consumed, overdraft>>
        /\ delta' = [delta EXCEPT ![r] = d]
        /\ reserves' = [reserves EXCEPT ![r] = @ + 1]
        /\ Goto(r, "reserve_token")
        /\ UNCHANGED <<token, request, src, pre, tokenConsumed, extra, subPre, flags, tries,
                       tokenPaid, actual, faults>>

\* reserveToken and, on success, the bookkeeping at the end of Reserve.
ReserveToken(r) ==
    /\ pc[r] = "reserve_token"
    /\ \/ /\ \/ profile[r].playground /\ UNCHANGED <<token, tokenPaid>>
             \/ ~profile[r].playground /\ TokenHasRoom(delta[r]) /\ DebitToken(r, delta[r])
          /\ pre' = [pre EXCEPT ![r] = @ + delta[r]]
          /\ tokenConsumed' = [tokenConsumed EXCEPT ![r] = @ + delta[r]]
          /\ extra' = [extra EXCEPT ![r] = @ + delta[r]]
          /\ trusted' = IF profile[r].image THEN trusted \ {r} ELSE trusted
          /\ Goto(r, "open")
       \/ /\ ~profile[r].playground
          /\ Goto(r, "undo_reserve")
          /\ UNCHANGED <<token, tokenPaid, pre, tokenConsumed, extra, trusted>>
    /\ UNCHANGED <<wallet, subUsed, request, src, consumed, subPre, settled, refunded, locals,
                   walletPaid, subPaid, actual, faults, overdraft>>

\* Mutant: the token failure returns without rolling the funding back.
UndoReserveForgotten(r) ==
    /\ pc[r] = "undo_reserve"
    /\ Goto(r, "open")
    /\ UNCHANGED <<ledgers, request, src, books, flags, locals, paid, actual, faults, overdraft>>

\* rollbackFundingReserve: an error is only logged.
UndoReserve(r) ==
    /\ pc[r] = "undo_reserve"
    /\ \/ /\ src[r] = "wallet"
          /\ DebitWallet(r, -delta[r])
          /\ consumed' = [consumed EXCEPT ![r] = @ - delta[r]]
          /\ UNCHANGED <<subUsed, subPaid, faults>>
       \/ /\ src[r] = "subscription"
          /\ DebitSub(r, -delta[r])
          /\ UNCHANGED <<wallet, walletPaid, consumed, faults>>
       \/ /\ Lost(r, "compensation")
          /\ UNCHANGED <<wallet, subUsed, walletPaid, subPaid, consumed>>
    /\ Goto(r, "open")
    /\ UNCHANGED <<token, request, src, pre, tokenConsumed, extra, subPre, flags, locals,
                   tokenPaid, actual, overdraft>>

-----------------------------------------------------------------------------
(* Settle: adjust the funding source, then the token, by actual - pre.     *)

\* The usage equals the reservation: nothing to adjust.
SettleExact(r, q) ==
    /\ Live(r)
    /\ q = pre[r]
    /\ actual' = [actual EXCEPT ![r] = q]
    /\ settled' = settled \cup {r}
    /\ UNCHANGED <<ledgers, pc, request, src, books, trusted, refunded, locals, paid, faults,
                   overdraft>>

SettleFunding(r, q) ==
    LET d == q - pre[r]
    IN  /\ Live(r)
        /\ d # 0
        /\ actual' = [actual EXCEPT ![r] = q]
        /\ delta' = [delta EXCEPT ![r] = d]
        /\ \/ /\ src[r] = "wallet"
              /\ DebitWallet(r, d)
              /\ overdraft' = overdraft + NonNegative(d)
              /\ UNCHANGED <<subUsed, subPaid>>
           \/ /\ src[r] = "subscription" /\ SubHasRoom(d)
              /\ DebitSub(r, d)
              /\ UNCHANGED <<wallet, walletPaid, overdraft>>
        /\ Goto(r, "settle_token")
        /\ UNCHANGED <<token, request, src, books, flags, reserves, tries, tokenPaid, faults>>

\* Mutant: only the funding source is adjusted.
SettleTokenSkipped(r) ==
    /\ pc[r] = "settle_token"
    /\ settled' = settled \cup {r}
    /\ Goto(r, "open")
    /\ UNCHANGED <<ledgers, request, src, books, trusted, refunded, locals, paid, actual,
                   faults, overdraft>>

\* The session counts as settled even when the token adjustment failed.
SettleToken(r) ==
    /\ pc[r] = "settle_token"
    /\ \/ profile[r].playground /\ UNCHANGED <<token, tokenPaid, faults>>
       \/ ~profile[r].playground /\ DebitToken(r, delta[r]) /\ UNCHANGED faults
       \/ ~profile[r].playground /\ Lost(r, "compensation") /\ UNCHANGED <<token, tokenPaid>>
    /\ settled' = settled \cup {r}
    /\ Goto(r, "open")
    /\ UNCHANGED <<wallet, subUsed, request, src, books, trusted, refunded, locals, walletPaid,
                   subPaid, actual, overdraft>>

-----------------------------------------------------------------------------
(* Refund: mark the session, then give everything back in the background.  *)

NeedsRefund(r) ==
    tokenConsumed[r] > 0 \/ (src[r] = "subscription" /\ subPre[r] > 0)

Refund(r) ==
    /\ Live(r)
    /\ refunded' = refunded \cup {r}
    /\ Goto(r, IF NeedsRefund(r) THEN "refund_funding" ELSE "open")
    /\ UNCHANGED <<ledgers, request, src, books, trusted, settled, locals, paid, actual, faults,
                   overdraft>>

\* WalletFunding.Refund: one attempt, never retried.
RefundWallet(r) ==
    LET owed == NonNegative(consumed[r])
    IN  /\ pc[r] = "refund_funding" /\ src[r] = "wallet"
        /\ \/ DebitWallet(r, -owed) /\ UNCHANGED faults
           \/ owed > 0 /\ Lost(r, "compensation") /\ UNCHANGED <<wallet, walletPaid>>
        /\ Goto(r, "refund_extra")
        /\ UNCHANGED <<token, subUsed, request, src, books, flags, locals, subPaid, tokenPaid,
                       actual, overdraft>>

\* SubscriptionFunding.Refund: RefundSubscriptionPreConsume, retried.  The
\* credit runs in a transaction of its own, so it stays when saving the
\* record's "refunded" status fails.
RefundSubscription(r) ==
    LET last == tries[r] + 1 = MaxRefundAttempts
        Retry == /\ tries' = [tries EXCEPT ![r] = @ + 1]
                 /\ IF last THEN Goto(r, "refund_extra") ELSE UNCHANGED pc
    IN  /\ pc[r] = "refund_funding" /\ src[r] = "subscription"
        /\ \/ DebitSub(r, -subPre[r]) /\ Goto(r, "refund_extra") /\ UNCHANGED <<faults, tries>>
           \* the transaction fails before the credit
           \/ /\ Retry
              /\ IF last THEN Lost(r, "compensation") ELSE UNCHANGED faults
              /\ UNCHANGED <<subUsed, subPaid>>
           \* the credit commits, the record does not
           \/ DebitSub(r, -subPre[r]) /\ Lost(r, "record") /\ Retry
        /\ UNCHANGED <<wallet, token, request, src, books, flags, delta, reserves, walletPaid,
                       tokenPaid, actual, overdraft>>

\* Mutant: the extra reservation is not returned.
RefundExtraForgotten(r) ==
    /\ pc[r] = "refund_extra"
    /\ Goto(r, "refund_token")
    /\ UNCHANGED <<ledgers, request, src, books, flags, locals, paid, actual, faults, overdraft>>

\* What Reserve added to a subscription is returned separately.
RefundExtra(r) ==
    LET owed == IF src[r] = "subscription" THEN extra[r] ELSE 0
    IN  /\ pc[r] = "refund_extra"
        /\ \/ DebitSub(r, -owed) /\ UNCHANGED faults
           \/ owed > 0 /\ Lost(r, "compensation") /\ UNCHANGED <<subUsed, subPaid>>
        /\ Goto(r, "refund_token")
        /\ UNCHANGED <<wallet, token, request, src, books, flags, locals, walletPaid, tokenPaid,
                       actual, overdraft>>

\* Mutant: the non-idempotent token credit is retried.
RefundTokenRetried(r) ==
    /\ pc[r] = "refund_token"
    /\ DebitToken(r, -TokenOwed(r))
    /\ UNCHANGED <<wallet, subUsed, pc, request, src, books, flags, locals, walletPaid, subPaid,
                   actual, faults, overdraft>>

RefundToken(r) ==
    /\ pc[r] = "refund_token"
    /\ ReturnToken(r)
    /\ Goto(r, "open")
    /\ UNCHANGED <<wallet, subUsed, request, src, books, flags, locals, walletPaid, subPaid,
                   actual, overdraft>>

-----------------------------------------------------------------------------
Zero == [r \in Requests |-> 0]

Init ==
    /\ wallet = InitWallet
    /\ token = InitToken
    /\ subUsed = 0
    /\ pc = [r \in Requests |-> "new"]
    /\ profile = [r \in Requests |-> CHOOSE p \in Profiles : TRUE]
    /\ quota = Zero /\ tokenSeen = Zero
    /\ src = [r \in Requests |-> "wallet"]
    /\ pre = Zero /\ tokenConsumed = Zero /\ extra = Zero /\ consumed = Zero /\ subPre = Zero
    /\ trusted = {} /\ settled = {} /\ refunded = {}
    /\ delta = Zero /\ reserves = Zero /\ tries = Zero
    /\ walletPaid = Zero /\ subPaid = Zero /\ tokenPaid = Zero
    /\ actual = Zero
    /\ faults = [r \in Requests |-> {}]
    /\ overdraft = 0

\* The background refund job of r.
RefundJob(r) ==
    RefundWallet(r) \/ RefundSubscription(r) \/ RefundExtra(r) \/ RefundToken(r)

\* The steps the handler of r takes by itself once it has called the session.
Proceed(r) ==
    \/ ReadWalletQuota(r) \/ PreConsumeToken(r) \/ PreConsumeFunding(r) \/ UndoToken(r)
    \/ ReserveToken(r) \/ UndoReserve(r) \/ SettleToken(r)

Next ==
    \E r \in Requests :
        \/ \E p \in Profiles, q \in Quotas : NewBillingSession(r, p, q)
        \/ Proceed(r)
        \/ \E q \in Quotas : ReserveFunding(r, q) \/ SettleExact(r, q) \/ SettleFunding(r, q)
        \/ Refund(r)
        \/ RefundJob(r)

Spec == Init /\ [][Next]_vars

-----------------------------------------------------------------------------
(* Correctness.                                                            *)

\* Types of ledgers, books and program points; amount_used stays nonnegative.
TypeOK ==
    /\ wallet \in Int /\ token \in Int /\ subUsed \in Nat /\ overdraft \in Nat
    /\ pc \in [Requests -> PCs]
    /\ profile \in [Requests -> Profiles]
    /\ quota \in [Requests -> Nat]
    /\ tokenSeen \in [Requests -> Int]
    /\ src \in [Requests -> Sources]
    /\ pre \in [Requests -> Nat]
    /\ tokenConsumed \in [Requests -> Nat]
    /\ extra \in [Requests -> Nat]
    /\ consumed \in [Requests -> Int]
    /\ subPre \in [Requests -> Nat]
    /\ trusted \subseteq Requests /\ settled \subseteq Requests /\ refunded \subseteq Requests
    /\ delta \in [Requests -> Int]
    /\ reserves \in [Requests -> Nat]
    /\ tries \in [Requests -> Nat]
    /\ walletPaid \in [Requests -> Int]
    /\ subPaid \in [Requests -> Int]
    /\ tokenPaid \in [Requests -> Int]
    /\ actual \in [Requests -> Nat]
    /\ faults \in [Requests -> SUBSET FaultKinds]

\* amount is what the request's own funding source was charged, and nothing
\* else was.
FundingPaid(r, amount) ==
    /\ walletPaid[r] = IF src[r] = "wallet" THEN amount ELSE 0
    /\ subPaid[r] = IF src[r] = "subscription" THEN amount ELSE 0

\* amount is what the token was charged; a playground request has none.
TokenPaid(r, amount) == tokenPaid[r] = IF profile[r].playground THEN 0 ELSE amount

ChargedExactly(r, amount) == FundingPaid(r, amount) /\ TokenPaid(r, amount)

\* A live session's preConsumedQuota is exactly what its ledgers lost, after
\* any sequence of fallbacks, reservations and rolled-back reservations.
BooksMatchLedgers ==
    \A r \in Requests : Live(r) /\ faults[r] = {} => ChargedExactly(r, pre[r])

\* A settled request was charged its actual usage, from one source only
\* (Settle, delta = actualQuota - preConsumedQuota).
ChargeMatchesUsage ==
    \A r \in Requests : r \in settled /\ faults[r] = {} => ChargedExactly(r, actual[r])

\* A request rejected by NewBillingSession was charged nothing, also when it
\* fell back from one source to the other.
RejectedIsFree ==
    \A r \in Requests : pc[r] = "rejected" /\ faults[r] = {} => ChargedExactly(r, 0)

RefundEnded(r) == r \in refunded /\ pc[r] = "open"

\* When the refund job has ended and no statement of it failed, every
\* reservation is back.  A wallet session of an image request is the
\* exception, see RefundReturnsAll.
RefundIsComplete ==
    \A r \in Requests :
        RefundEnded(r) /\ faults[r] = {} /\ ~(profile[r].image /\ src[r] = "wallet")
            => ChargedExactly(r, 0)

\* What the comments on FundingSource.Refund and BillingSession.Refund say:
\* the refund returns all that was pre-consumed.
RefundReturnsAll ==
    \A r \in Requests : RefundEnded(r) /\ faults[r] = {} => ChargedExactly(r, 0)

\* No request ever gets back more than it paid from the wallet or the token,
\* whatever fails; nor from the subscription unless a refund record was lost.
NeverOverRefunded ==
    \A r \in Requests :
        /\ walletPaid[r] >= 0 /\ tokenPaid[r] >= 0
        /\ "record" \notin faults[r] => subPaid[r] >= 0

\* What the comment on RefundSubscriptionPreConsume says: it is idempotent,
\* so retrying it never returns more than the subscription was charged.
SubscriptionRefundIdempotent == \A r \in Requests : subPaid[r] >= 0

\* The wallet is overdrawn at most by what was debited without a balance
\* check (settlement surcharges and non-strict reservations): concurrent
\* pre-consumes never overdraw it between their read and their reserve.
DebtIsAccounted == wallet >= -overdraft

\* amount_used equals the sum of what the requests hold, so clamping it at
\* zero never hides a credit, and it stays within amount_total.
SubscriptionLedgerExact ==
    (\A r \in Requests : "record" \notin faults[r]) =>
        /\ subUsed = MapThenSumSet(LAMBDA r : subPaid[r], Requests)
        /\ SubTotal > 0 => subUsed <= SubTotal

\* The program points at which a session exists, and those of its refund job.
Opened == {"open", "reserve_token", "undo_reserve", "settle_token",
           "refund_funding", "refund_extra", "refund_token"}
Refunding == {"refund_funding", "refund_extra", "refund_token"}

\* Where the flags and the increment of the running call may be.
PhasesOK(r) ==
    /\ r \in settled => pc[r] = "open" /\ r \notin refunded
    /\ r \in refunded => pc[r] \in Refunding \cup {"open"}
    /\ pc[r] \in Refunding => r \in refunded
    /\ pc[r] \in {"reserve_token", "undo_reserve"} => delta[r] > 0

\* A wallet session that went through WalletFunding.PreConsume more than
\* once no longer knows what it consumed.
ImageWallet(r) == profile[r].image /\ src[r] = "wallet"

\* How the session's own figures relate.
FiguresOK(r) ==
    /\ pc[r] \notin Opened => pre[r] = 0 /\ extra[r] = 0 /\ consumed[r] = 0 /\ subPre[r] = 0
    /\ pc[r] \in {"new", "wallet_quota", "token"} => tokenConsumed[r] = 0
    /\ pc[r] = "funding" => tokenConsumed[r] = EffectiveQuota(r)
    /\ pc[r] \in Opened => tokenConsumed[r] = pre[r]
    /\ pc[r] \in Opened /\ src[r] = "subscription" => subPre[r] + extra[r] = pre[r]
    /\ pc[r] \in Opened /\ src[r] = "wallet" => subPre[r] = 0
    /\ pc[r] \in Opened /\ src[r] = "wallet" /\ ~ImageWallet(r) /\ faults[r] = {} =>
          consumed[r] = IF pc[r] \in {"reserve_token", "undo_reserve"}
                        THEN pre[r] + delta[r] ELSE pre[r]

\* What the ledgers have lost to r at each program point.
LedgersOK(r) ==
    /\ pc[r] \in {"new", "wallet_quota", "token", "rejected"} => ChargedExactly(r, 0)
    /\ pc[r] \in {"funding", "undo_insufficient", "undo_error"} =>
          FundingPaid(r, 0) /\ TokenPaid(r, tokenConsumed[r])
    /\ pc[r] \in {"reserve_token", "undo_reserve"} =>
          FundingPaid(r, pre[r] + delta[r]) /\ TokenPaid(r, pre[r])
    /\ pc[r] = "settle_token" =>
          /\ FundingPaid(r, actual[r]) /\ TokenPaid(r, pre[r])
          /\ delta[r] = actual[r] - pre[r]
    /\ Live(r) \/ pc[r] = "refund_funding" => ChargedExactly(r, pre[r])
    /\ pc[r] = "open" /\ r \in settled => ChargedExactly(r, actual[r])
    /\ pc[r] = "refund_extra" =>
          /\ TokenPaid(r, pre[r])
          /\ ~ImageWallet(r) => FundingPaid(r, IF src[r] = "subscription" THEN extra[r] ELSE 0)
    /\ pc[r] = "refund_token" =>
          TokenPaid(r, pre[r]) /\ (~ImageWallet(r) => FundingPaid(r, 0))
    /\ RefundEnded(r) => TokenPaid(r, 0) /\ (~ImageWallet(r) => FundingPaid(r, 0))

\* The inductive invariant behind the theorems: the figures of every session
\* explain, at every point of its life, what the ledgers lost to it.
AccountingInv ==
    /\ \A r \in Requests : PhasesOK(r)
    /\ \A r \in Requests : FiguresOK(r)
    /\ \A r \in Requests : faults[r] = {} => LedgersOK(r)

\* What left the funding source of r.
Held(r) == IF src[r] = "wallet" THEN walletPaid[r] ELSE subPaid[r]

\* Whatever was lost, the ledgers keep at least what the books of r may still
\* return: the token what it is owed, the funding source the reservation.
TokenHeldOK(r) ==
    /\ tokenPaid[r] >= 0
    /\ pc[r] \in {"funding", "undo_insufficient", "undo_error"} \cup (Opened \ {"open"}) \/ Live(r)
         => tokenPaid[r] >= TokenOwed(r)
    /\ pc[r] = "settle_token" => delta[r] = actual[r] - pre[r]

FundingHeldOK(r) ==
    /\ Held(r) >= 0
    /\ Live(r) \/ pc[r] = "refund_funding" => Held(r) >= pre[r]
    /\ pc[r] \in {"reserve_token", "undo_reserve"} => Held(r) >= pre[r] + delta[r]
    /\ pc[r] = "refund_extra" /\ src[r] = "subscription" => Held(r) >= extra[r]
    /\ src[r] = "wallet" /\ (Live(r) \/ pc[r] \in Opened \ {"open"}) =>
          pc[r] \in {"settle_token", "refund_extra", "refund_token"} \/ Held(r) >= consumed[r]

\* The invariant behind NeverOverRefunded, with every compensation lost.
HeldInv ==
    \A r \in Requests :
        /\ TokenHeldOK(r)
        /\ src[r] = "wallet" \/ "record" \notin faults[r] => FundingHeldOK(r)
        /\ src[r] = "wallet" => subPaid[r] = 0
        /\ src[r] = "subscription" => walletPaid[r] = 0
        /\ pc[r] \notin Opened => Held(r) = 0

\* Once settled, no later Settle, Reserve or Refund moves money again.
SettledIsFinal ==
    [][\A r \in settled : /\ walletPaid'[r] = walletPaid[r]
                          /\ subPaid'[r] = subPaid[r]
                          /\ tokenPaid'[r] = tokenPaid[r]]_vars
=============================================================================
