---------------------------- MODULE BillingSession ----------------------------
(***************************************************************************)
(* The billing session of one relayed request (service/billing_session.go, *)
(* service/funding_source.go) against the balances it shares with the      *)
(* other requests of the same user and token: the wallet                   *)
(* (users.quota), the token (tokens.remain_quota) and one subscription     *)
(* (user_subscriptions.amount_used).                                       *)
(*                                                                         *)
(* Every database statement or transaction is one step; what a goroutine   *)
(* computes between two of them belongs to the step before.  The instance  *)
(* is the configuration without Redis and without batch updates            *)
(* (RedisEnabled = BatchUpdateEnabled = false), so that a quota update is  *)
(* the database statement itself.  The subscription's plan never resets.   *)
(*                                                                         *)
(* A database write may fail (at most MaxFaults do) and the process may    *)
(* crash (at most MaxCrashes times): nothing of a session is persisted.    *)
(***************************************************************************)
EXTENDS Integers

CONSTANTS
  Requests,        \* relayed requests
  Profiles,        \* what a request may be: preference, playground, force, estimate
  Actuals,         \* quotas a served request may turn out to cost
  Fees,            \* violation fees a failed request may incur; 0 is no fee
  TrustQuota,      \* common.GetTrustQuota()
  TokenUnlimited,  \* Token.UnlimitedQuota
  WalletQuota,     \* initial users.quota
  TokenQuota,      \* initial tokens.remain_quota
  SubTotal,        \* UserSubscription.AmountTotal; 0 is no limit
  AllowOverflow,   \* UserSubscription.AllowWalletOverflow
  MaxAttempts,     \* refundWithRetry's maxAttempts
  MaxFaults,       \* bound on failing database statements
  MaxCrashes       \* bound on process crashes

Preferences == {"subscription_only", "wallet_only", "wallet_first", "subscription_first"}

ProfileType == [pref: Preferences, playground: BOOLEAN, force: BOOLEAN, est: Nat]

ASSUME ProfilesAssumption == Profiles \subseteq ProfileType
ASSUME AmountsAssumption ==
  /\ Actuals \subseteq Nat /\ Fees \subseteq Nat
  /\ TrustQuota \in Nat /\ SubTotal \in Nat
  /\ WalletQuota \in Int /\ TokenQuota \in Int
ASSUME FlagsAssumption == TokenUnlimited \in BOOLEAN /\ AllowOverflow \in BOOLEAN
ASSUME BoundsAssumption ==
  MaxAttempts \in Nat \ {0} /\ MaxFaults \in Nat /\ MaxCrashes \in Nat

VARIABLES
  userQuota,    \* users.quota
  tokenQuota,   \* tokens.remain_quota
  tokenStatus,  \* tokens.status
  sub,          \* the subscription: is it active, and its amount_used
  profile,      \* per request: its profile
  pc,           \* per request: where its goroutine is
  sess,         \* per request: its BillingSession and FundingSource
  tokenSnap,    \* per request: "token_quota" as SetupContextForToken stored it
  record,       \* per request: status of its SubscriptionPreConsumeRecord
  rpc,          \* per request: where the goroutine Refund starts is
  attempts,     \* per request: failed attempts of refundWithRetry
  faults,       \* database statements that have failed
  crashes,      \* crashes that have happened
  \* History: what was written to the balances for each request, ...
  walletNet, tokenNet, subNet,
  due,          \* ... what it should be charged in the end, ...
  impaired      \* ... and whether a write that settles or gives back failed

balances == <<userQuota, tokenQuota, tokenStatus, sub>>
nets == <<walletNet, tokenNet, subNet>>
refundVars == <<rpc, record, attempts>>
vars == <<userQuota, tokenQuota, tokenStatus, sub, profile, pc, sess, tokenSnap,
          record, rpc, attempts, faults, crashes, walletNet, tokenNet, subNet,
          due, impaired>>

-----------------------------------------------------------------------------

\* A session before anything is pre-consumed, as the two try functions make it.
NewSession(source, trusted) ==
  [source |-> source, pre |-> 0, tokenConsumed |-> 0, funded |-> 0, trusted |-> trusted,
   fundingSettled |-> FALSE, settled |-> FALSE, refunded |-> FALSE]
NoSession == NewSession("none", FALSE)

SessionType == [source: {"none", "wallet", "subscription"}, pre: Nat,
                tokenConsumed: Nat, funded: Nat, trusted: BOOLEAN,
                fundingSettled: BOOLEAN, settled: BOOLEAN, refunded: BOOLEAN]

\* Between two database steps of PreConsumeBilling.
OpeningPCs == {"new", "readWallet", "fallbackSub", "fallbackWallet",
               "checkToken", "takeToken", "preFunding",
               "rollback", "rollbackShort"}
PCs == {"idle", "done", "dead", "held", "settle", "settleToken", "fee", "feeToken"}
         \cup OpeningPCs
RPCs == {"none", "funding", "mark", "token", "done", "dead"}

(***************************************************************************)
(* The state at the start: no request has arrived.                         *)
(***************************************************************************)
Init ==
  /\ userQuota = WalletQuota /\ tokenQuota = TokenQuota
  /\ tokenStatus = "enabled"
  /\ sub \in [active: BOOLEAN, used: {0}]
  /\ profile \in [Requests -> Profiles]
  /\ pc = [r \in Requests |-> "idle"]
  /\ sess = [r \in Requests |-> NoSession]
  /\ tokenSnap = [r \in Requests |-> 0]
  /\ record = [r \in Requests |-> "none"]
  /\ rpc = [r \in Requests |-> "none"]
  /\ attempts = [r \in Requests |-> 0]
  /\ faults = 0 /\ crashes = 0
  /\ walletNet = [r \in Requests |-> 0]
  /\ tokenNet = [r \in Requests |-> 0]
  /\ subNet = [r \in Requests |-> 0]
  /\ due = [r \in Requests |-> 0]
  /\ impaired = [r \in Requests |-> FALSE]

-----------------------------------------------------------------------------
(***************************************************************************)
(* Balance updates.  DecreaseUserQuota and DecreaseTokenQuota subtract     *)
(* without looking at the balance, which may become negative; a negative   *)
(* amount stands for the Increase functions.                               *)
(***************************************************************************)
ChargeWallet(r, amount) ==
  /\ userQuota' = userQuota - amount
  /\ walletNet' = [walletNet EXCEPT ![r] = @ + amount]

ChargeToken(r, amount) ==
  /\ tokenQuota' = tokenQuota - amount
  /\ tokenNet' = [tokenNet EXCEPT ![r] = @ + amount]

\* PostConsumeUserSubscriptionDelta: the new usage is cut off at 0 and refused
\* above the total.
UsedAfter(delta) == IF sub.used + delta < 0 THEN 0 ELSE sub.used + delta
DeltaAccepted(delta) == SubTotal = 0 \/ UsedAfter(delta) <= SubTotal

ChargeSubscription(r, delta) ==
  /\ sub' = [sub EXCEPT !.used = UsedAfter(delta)]
  /\ subNet' = [subNet EXCEPT ![r] = @ + delta]

Goto(r, label) == pc' = [pc EXCEPT ![r] = label]

\* A database statement of request r returns an error.
Fault == faults < MaxFaults /\ faults' = faults + 1

\* An error the code only logs, or one it meets after the money has moved.
Impair(r) == Fault /\ impaired' = [impaired EXCEPT ![r] = TRUE]

-----------------------------------------------------------------------------
(***************************************************************************)
(* Admission: ValidateUserToken.  A playground request has no token row.   *)
(***************************************************************************)
TokenUsable == tokenStatus = "enabled" /\ (TokenUnlimited \/ tokenQuota > 0)

Authenticate(r) ==
  /\ pc[r] = "idle"
  /\ \/ /\ profile[r].playground
        /\ Goto(r, "new")
        /\ UNCHANGED <<tokenSnap, tokenStatus>>
     \/ /\ ~profile[r].playground /\ TokenUsable
        /\ Goto(r, "new")
        /\ tokenSnap' = [tokenSnap EXCEPT ![r] = tokenQuota]
        /\ UNCHANGED tokenStatus
     \/ /\ ~profile[r].playground /\ ~TokenUsable
        /\ Goto(r, "done")
        /\ tokenStatus' = "exhausted"
        /\ UNCHANGED tokenSnap
  /\ UNCHANGED <<userQuota, tokenQuota, sub, profile, sess, refundVars, faults, crashes,
                 nets, due, impaired>>

-----------------------------------------------------------------------------
(***************************************************************************)
(* NewBillingSession: the source the preference selects, and its fallback. *)
(***************************************************************************)

\* The amount preConsume is called with: trySubscription raises 0 to 1.
Want(r) == IF sess[r].source = "subscription" /\ profile[r].est = 0
             THEN 1 ELSE profile[r].est

\* A refused request has no session: relayInfo.Billing stays nil.
Refuse(r) == Goto(r, "done") /\ sess' = [sess EXCEPT ![r] = NoSession]

\* shouldTrust for a wallet session; a playground request's token has no quota.
ShouldTrust(r) ==
  /\ ~profile[r].force
  /\ TrustQuota > 0
  /\ ~profile[r].playground /\ (TokenUnlimited \/ tokenSnap[r] > TrustQuota)
  /\ userQuota > TrustQuota

TrySubscription(r) ==
  /\ Goto(r, "checkToken")
  /\ sess' = [sess EXCEPT ![r] = NewSession("subscription", FALSE)]

\* Reads of the opening phase leave every balance alone.
UnchangedByRead == UNCHANGED <<balances, profile, tokenSnap, refundVars, crashes, nets,
                               due, impaired>>

ChooseSource(r) ==
  /\ pc[r] = "new"
  /\ \/ /\ \/ profile[r].pref \in {"wallet_only", "wallet_first"}
           \/ profile[r].pref = "subscription_first" /\ ~sub.active
        /\ Goto(r, "readWallet") /\ UNCHANGED sess
     \/ /\ profile[r].pref \in {"subscription_only", "subscription_first"}
        /\ sub.active
        /\ TrySubscription(r)
     \/ /\ profile[r].pref = "subscription_only" /\ ~sub.active
        /\ Refuse(r)
  /\ UnchangedByRead /\ UNCHANGED faults

WalletShort(r) == userQuota <= 0 \/ userQuota < profile[r].est

\* tryWallet up to its first database write: a trusted request, and one with
\* nothing to pre-consume, has its session at once.
TryWallet(r) ==
  /\ pc[r] = "readWallet"
  /\ \/ /\ WalletShort(r) /\ profile[r].pref = "wallet_first"
        /\ Goto(r, "fallbackSub") /\ UNCHANGED sess
     \/ /\ WalletShort(r) /\ profile[r].pref # "wallet_first"
        /\ Refuse(r)
     \/ /\ ~WalletShort(r) /\ (ShouldTrust(r) \/ profile[r].est = 0)
        /\ Goto(r, "held")
        /\ sess' = [sess EXCEPT ![r] = NewSession("wallet", ShouldTrust(r))]
     \/ /\ ~WalletShort(r) /\ ~ShouldTrust(r) /\ profile[r].est > 0
        /\ Goto(r, "checkToken")
        /\ sess' = [sess EXCEPT ![r] = NewSession("wallet", FALSE)]
  /\ UnchangedByRead /\ UNCHANGED faults

\* wallet_first: the wallet was short.
FallbackToSubscription(r) ==
  /\ pc[r] = "fallbackSub"
  /\ \/ sub.active /\ TrySubscription(r)
     \/ ~sub.active /\ Refuse(r)
  /\ UnchangedByRead /\ UNCHANGED faults

\* subscription_first: the subscription was short.  One active subscription
\* that disallows overflow blocks the wallet.
FallbackToWallet(r) ==
  /\ pc[r] = "fallbackWallet"
  /\ \/ sub.active /\ ~AllowOverflow /\ Refuse(r)
     \/ /\ ~sub.active \/ AllowOverflow
        /\ Goto(r, "readWallet")
        /\ sess' = [sess EXCEPT ![r] = NoSession]
  /\ UnchangedByRead /\ UNCHANGED faults

\* PreConsumeTokenQuota reads the token, ...
CheckToken(r) ==
  /\ pc[r] = "checkToken"
  /\ \/ /\ profile[r].playground
        /\ Goto(r, "preFunding")
        /\ sess' = [sess EXCEPT ![r].tokenConsumed = Want(r)]
     \/ /\ ~profile[r].playground
        /\ TokenUnlimited \/ tokenQuota >= Want(r)
        /\ Goto(r, "takeToken") /\ UNCHANGED sess
     \/ /\ ~profile[r].playground
        /\ ~TokenUnlimited /\ tokenQuota < Want(r)
        /\ Refuse(r)
  /\ UnchangedByRead /\ UNCHANGED faults

\* An error of one of the steps before anything was written refuses the request.
OpeningFails(r) ==
  /\ pc[r] \in {"new", "readWallet", "fallbackSub", "fallbackWallet", "checkToken",
                "takeToken"}
  /\ Fault
  /\ Refuse(r)
  /\ UnchangedByRead

\* ... and then takes the quota from it without looking again.
TakeToken(r) ==
  /\ pc[r] = "takeToken"
  /\ ChargeToken(r, Want(r))
  /\ sess' = [sess EXCEPT ![r].tokenConsumed = Want(r)]
  /\ Goto(r, "preFunding")
  /\ UNCHANGED <<userQuota, tokenStatus, sub, profile, tokenSnap, refundVars, faults, crashes,
                 walletNet, subNet, due, impaired>>

\* WalletFunding.PreConsume
PreConsumeWallet(r) ==
  /\ pc[r] = "preFunding" /\ sess[r].source = "wallet"
  /\ ChargeWallet(r, Want(r))
  /\ sess' = [sess EXCEPT ![r].funded = Want(r), ![r].pre = Want(r)]
  /\ Goto(r, "held")
  /\ UNCHANGED <<tokenQuota, tokenStatus, sub, profile, tokenSnap, refundVars, faults, crashes,
                 tokenNet, subNet, due, impaired>>

\* Mutant: the amount is compared with the total, not with what remains of it.
SubscriptionCoversTotalOnly(amount) == sub.active /\ (SubTotal = 0 \/ SubTotal >= amount)

\* SubscriptionFunding.PreConsume: one transaction on the locked subscription.
SubscriptionCovers(amount) == sub.active /\ (SubTotal = 0 \/ SubTotal - sub.used >= amount)

PreConsumeSubscription(r) ==
  /\ pc[r] = "preFunding" /\ sess[r].source = "subscription"
  /\ SubscriptionCovers(Want(r))
  /\ ChargeSubscription(r, Want(r))
  /\ record' = [record EXCEPT ![r] = "consumed"]
  /\ sess' = [sess EXCEPT ![r].funded = Want(r), ![r].pre = Want(r)]
  /\ Goto(r, "held")
  /\ UNCHANGED <<userQuota, tokenQuota, tokenStatus, profile, tokenSnap, rpc, attempts, faults,
                 crashes, walletNet, tokenNet, due, impaired>>

\* "no active subscription" or "subscription quota insufficient"
PreConsumeShort(r) ==
  /\ pc[r] = "preFunding" /\ sess[r].source = "subscription"
  /\ ~SubscriptionCovers(Want(r))
  /\ Goto(r, "rollbackShort")
  /\ UnchangedByRead /\ UNCHANGED <<sess, faults>>

\* A statement of the pre-consumption fails.  When it is the query of the locked
\* subscriptions, the error reads "no active subscription" all the same.
PreConsumeFails(r) ==
  /\ pc[r] = "preFunding"
  /\ Fault
  /\ \/ Goto(r, "rollback")
     \/ sess[r].source = "subscription" /\ Goto(r, "rollbackShort")
  /\ UnchangedByRead /\ UNCHANGED sess

\* Mutant: every short subscription falls back to the wallet.
RolledBackAnyPreference(r) ==
  /\ Goto(r, IF pc[r] = "rollbackShort" THEN "fallbackWallet" ELSE "done")
  /\ sess' = [sess EXCEPT ![r] = NoSession]

\* preConsume gives the token quota back; only a short subscription may fall back.
RolledBack(r) ==
  IF pc[r] = "rollbackShort" /\ profile[r].pref = "subscription_first"
    THEN /\ Goto(r, "fallbackWallet")
         /\ sess' = [sess EXCEPT ![r] = NoSession]
    ELSE Refuse(r)

RollbackToken(r) ==
  /\ pc[r] \in {"rollback", "rollbackShort"}
  /\ IF profile[r].playground
       THEN UNCHANGED <<tokenQuota, tokenNet>>
       ELSE ChargeToken(r, -sess[r].tokenConsumed)
  /\ RolledBack(r)
  /\ UNCHANGED <<userQuota, tokenStatus, sub, profile, tokenSnap, refundVars, faults, crashes,
                 walletNet, subNet, due, impaired>>

RollbackTokenFails(r) ==
  /\ pc[r] \in {"rollback", "rollbackShort"} /\ ~profile[r].playground
  /\ Impair(r)
  /\ RolledBack(r)
  /\ UNCHANGED <<balances, profile, tokenSnap, refundVars, crashes, nets, due>>

-----------------------------------------------------------------------------
(***************************************************************************)
(* Settlement.  The upstream answered and the request costs a: Relay's and *)
(* RelayTask's success path calls SettleBilling, whose error is logged.    *)
(***************************************************************************)
Serve(r, a) ==
  /\ pc[r] = "held"
  /\ due' = [due EXCEPT ![r] = a]
  /\ Goto(r, "settle")
  /\ UNCHANGED <<balances, profile, sess, tokenSnap, refundVars, faults, crashes, nets,
                 impaired>>

\* Mutant: the difference to the estimate, not to what was pre-consumed.
DeltaToEstimate(r) == due[r] - profile[r].est

Delta(r) == due[r] - sess[r].pre

UnchangedBySettle == UNCHANGED <<tokenStatus, profile, tokenSnap, refundVars, crashes>>

\* Nothing to adjust.
SettleEven(r) ==
  /\ pc[r] = "settle" /\ Delta(r) = 0
  /\ sess' = [sess EXCEPT ![r].settled = TRUE]
  /\ Goto(r, "done")
  /\ UnchangedBySettle
  /\ UNCHANGED <<userQuota, tokenQuota, sub, faults, nets, due, impaired>>

\* funding.Settle(delta) on the wallet, ...
SettleWallet(r) ==
  /\ pc[r] = "settle" /\ Delta(r) # 0 /\ sess[r].source = "wallet"
  /\ ChargeWallet(r, Delta(r))
  /\ sess' = [sess EXCEPT ![r].fundingSettled = TRUE]
  /\ Goto(r, "settleToken")
  /\ UnchangedBySettle
  /\ UNCHANGED <<tokenQuota, sub, faults, tokenNet, subNet, due, impaired>>

\* ... or on the subscription, ...
SettleSubscription(r) ==
  /\ pc[r] = "settle" /\ Delta(r) # 0 /\ sess[r].source = "subscription"
  /\ DeltaAccepted(Delta(r))
  /\ ChargeSubscription(r, Delta(r))
  /\ sess' = [sess EXCEPT ![r].fundingSettled = TRUE]
  /\ Goto(r, "settleToken")
  /\ UnchangedBySettle
  /\ UNCHANGED <<userQuota, tokenQuota, faults, walletNet, tokenNet, due, impaired>>

\* ... which refuses to exceed its total: the request keeps the pre-consumed
\* charge and is never settled.
SettleRefused(r) ==
  /\ pc[r] = "settle" /\ Delta(r) # 0 /\ sess[r].source = "subscription"
  /\ ~DeltaAccepted(Delta(r))
  /\ due' = [due EXCEPT ![r] = sess[r].pre]
  /\ Goto(r, "done")
  /\ UnchangedBySettle
  /\ UNCHANGED <<userQuota, tokenQuota, sub, sess, faults, nets, impaired>>

SettleFails(r) ==
  /\ pc[r] = "settle" /\ Delta(r) # 0
  /\ Impair(r)
  /\ Goto(r, "done")
  /\ UnchangedBySettle
  /\ UNCHANGED <<userQuota, tokenQuota, sub, sess, nets, due>>

\* Mutant: the token is charged more but never given anything back.
SettleTokenUpwards(r) ==
  /\ pc[r] = "settleToken"
  /\ IF profile[r].playground \/ Delta(r) < 0
       THEN UNCHANGED <<tokenQuota, tokenNet>>
       ELSE ChargeToken(r, Delta(r))
  /\ sess' = [sess EXCEPT ![r].settled = TRUE]
  /\ Goto(r, "done")
  /\ UnchangedBySettle
  /\ UNCHANGED <<userQuota, sub, faults, walletNet, subNet, due, impaired>>

SettleToken(r) ==
  /\ pc[r] = "settleToken"
  /\ IF profile[r].playground
       THEN UNCHANGED <<tokenQuota, tokenNet>>
       ELSE ChargeToken(r, Delta(r))
  /\ sess' = [sess EXCEPT ![r].settled = TRUE]
  /\ Goto(r, "done")
  /\ UnchangedBySettle
  /\ UNCHANGED <<userQuota, sub, faults, walletNet, subNet, due, impaired>>

SettleTokenFails(r) ==
  /\ pc[r] = "settleToken" /\ ~profile[r].playground
  /\ Impair(r)
  /\ sess' = [sess EXCEPT ![r].settled = TRUE]
  /\ Goto(r, "done")
  /\ UnchangedBySettle
  /\ UNCHANGED <<userQuota, tokenQuota, sub, nets, due>>

-----------------------------------------------------------------------------
(***************************************************************************)
(* Failure.  Every attempt failed: the deferred function of Relay calls    *)
(* Refund, which only starts a goroutine, and goes on to charge the        *)
(* violation fee, if there is one.                                         *)
(***************************************************************************)
\* Mutant: a playground request, which has no token, is taken to hold nothing.
NeedsRefundTokenOnly(r) ==
  /\ ~sess[r].settled /\ ~sess[r].refunded /\ ~sess[r].fundingSettled
  /\ sess[r].tokenConsumed > 0 /\ ~profile[r].playground

NeedsRefund(r) ==
  /\ ~sess[r].settled /\ ~sess[r].refunded /\ ~sess[r].fundingSettled
  /\ \/ sess[r].tokenConsumed > 0
     \/ sess[r].source = "subscription" /\ sess[r].funded > 0

Fail(r, fee) ==
  /\ pc[r] = "held"
  /\ IF NeedsRefund(r)
       THEN /\ sess' = [sess EXCEPT ![r].refunded = TRUE]
            /\ rpc' = [rpc EXCEPT ![r] = "funding"]
       ELSE UNCHANGED <<sess, rpc>>
  /\ due' = [due EXCEPT ![r] = fee]
  /\ Goto(r, IF fee = 0 THEN "done" ELSE "fee")
  /\ UNCHANGED <<balances, profile, tokenSnap, record, attempts, faults, crashes, nets,
                 impaired>>

UnchangedByFee == UNCHANGED <<tokenStatus, profile, sess, tokenSnap, refundVars, crashes>>

\* Mutant: the fee is always taken from the wallet.
FeeWalletAlways(r) ==
  /\ pc[r] = "fee"
  /\ ChargeWallet(r, due[r])
  /\ Goto(r, "feeToken")
  /\ UnchangedByFee
  /\ UNCHANGED <<tokenQuota, sub, faults, tokenNet, subNet, due, impaired>>

\* PostConsumeQuota takes the fee from the source the session used, ...
FeeWallet(r) ==
  /\ pc[r] = "fee" /\ sess[r].source = "wallet"
  /\ ChargeWallet(r, due[r])
  /\ Goto(r, "feeToken")
  /\ UnchangedByFee
  /\ UNCHANGED <<tokenQuota, sub, faults, tokenNet, subNet, due, impaired>>

FeeSubscription(r) ==
  /\ pc[r] = "fee" /\ sess[r].source = "subscription" /\ DeltaAccepted(due[r])
  /\ ChargeSubscription(r, due[r])
  /\ Goto(r, "feeToken")
  /\ UnchangedByFee
  /\ UNCHANGED <<userQuota, tokenQuota, faults, walletNet, tokenNet, due, impaired>>

\* ... waives it when the subscription cannot take it or the write fails, ...
FeeWaived(r) ==
  /\ pc[r] = "fee"
  /\ \/ Fault
     \/ /\ sess[r].source = "subscription" /\ ~DeltaAccepted(due[r])
        /\ UNCHANGED faults
  /\ due' = [due EXCEPT ![r] = 0]
  /\ Goto(r, "done")
  /\ UnchangedByFee
  /\ UNCHANGED <<userQuota, tokenQuota, sub, nets, impaired>>

\* ... and then takes it from the token.
FeeToken(r) ==
  /\ pc[r] = "feeToken"
  /\ IF profile[r].playground
       THEN UNCHANGED <<tokenQuota, tokenNet>>
       ELSE ChargeToken(r, due[r])
  /\ Goto(r, "done")
  /\ UnchangedByFee
  /\ UNCHANGED <<userQuota, sub, faults, walletNet, subNet, due, impaired>>

FeeTokenFails(r) ==
  /\ pc[r] = "feeToken" /\ ~profile[r].playground
  /\ Impair(r)
  /\ Goto(r, "done")
  /\ UnchangedByFee
  /\ UNCHANGED <<userQuota, tokenQuota, sub, nets, due>>

-----------------------------------------------------------------------------
(***************************************************************************)
(* The goroutine Refund starts.  Errors are logged and the next step runs. *)
(***************************************************************************)
RefundGoto(r, label) == rpc' = [rpc EXCEPT ![r] = label]

UnchangedByRefund == UNCHANGED <<tokenStatus, profile, pc, sess, tokenSnap, crashes, due>>

\* WalletFunding.Refund: one attempt.
RefundWallet(r) ==
  /\ rpc[r] = "funding" /\ sess[r].source = "wallet"
  /\ ChargeWallet(r, -sess[r].funded)
  /\ RefundGoto(r, "token")
  /\ UnchangedByRefund
  /\ UNCHANGED <<tokenQuota, sub, record, attempts, faults, tokenNet, subNet, impaired>>

RefundWalletFails(r) ==
  /\ rpc[r] = "funding" /\ sess[r].source = "wallet"
  /\ Impair(r)
  /\ RefundGoto(r, "token")
  /\ UnchangedByRefund
  /\ UNCHANGED <<userQuota, tokenQuota, sub, record, attempts, nets>>

\* SubscriptionFunding.Refund: RefundSubscriptionPreConsume opens a transaction
\* on the record; the usage is written by PostConsumeUserSubscriptionDelta in a
\* transaction of its own, which commits first, ...
RefundSubscription(r) ==
  /\ rpc[r] = "funding" /\ sess[r].source = "subscription"
  /\ record[r] = "consumed" /\ DeltaAccepted(-sess[r].funded)
  /\ ChargeSubscription(r, -sess[r].funded)
  /\ RefundGoto(r, "mark")
  /\ UnchangedByRefund
  /\ UNCHANGED <<userQuota, tokenQuota, record, attempts, faults, walletNet, tokenNet, impaired>>

\* ... then the record is marked and the outer transaction commits.
RefundMark(r) ==
  /\ rpc[r] = "mark"
  /\ record' = [record EXCEPT ![r] = "refunded"]
  /\ RefundGoto(r, "token")
  /\ UnchangedByRefund
  /\ UNCHANGED <<userQuota, tokenQuota, sub, attempts, faults, nets, impaired>>

\* refundWithRetry: the next attempt, or none is left.
Retry(r) ==
  /\ attempts' = [attempts EXCEPT ![r] = @ + 1]
  /\ RefundGoto(r, IF attempts[r] + 1 < MaxAttempts THEN "funding" ELSE "token")

RefundSubscriptionFails(r) ==
  /\ rpc[r] = "funding" /\ sess[r].source = "subscription"
  /\ IF attempts[r] + 1 < MaxAttempts THEN Fault /\ UNCHANGED impaired ELSE Impair(r)
  /\ Retry(r)
  /\ UnchangedByRefund
  /\ UNCHANGED <<userQuota, tokenQuota, sub, record, nets>>

RefundMarkFails(r) ==
  /\ rpc[r] = "mark"
  /\ Impair(r)
  /\ Retry(r)
  /\ UnchangedByRefund
  /\ UNCHANGED <<userQuota, tokenQuota, sub, record, nets>>

RefundToken(r) ==
  /\ rpc[r] = "token"
  /\ IF profile[r].playground
       THEN UNCHANGED <<tokenQuota, tokenNet>>
       ELSE ChargeToken(r, -sess[r].tokenConsumed)
  /\ RefundGoto(r, "done")
  /\ UnchangedByRefund
  /\ UNCHANGED <<userQuota, sub, record, attempts, faults, walletNet, subNet, impaired>>

RefundTokenFails(r) ==
  /\ rpc[r] = "token" /\ ~profile[r].playground
  /\ Impair(r)
  /\ RefundGoto(r, "done")
  /\ UnchangedByRefund
  /\ UNCHANGED <<userQuota, tokenQuota, sub, record, attempts, nets>>

-----------------------------------------------------------------------------
(***************************************************************************)
(* The environment.                                                        *)
(***************************************************************************)

\* ExpireDueSubscriptions, or an administrator, ends the subscription.
ExpireSubscription ==
  /\ sub.active
  /\ sub' = [sub EXCEPT !.active = FALSE]
  /\ UNCHANGED <<userQuota, tokenQuota, tokenStatus, profile, pc, sess, tokenSnap, refundVars,
                 faults, crashes, nets, due, impaired>>

InFlight(r) == pc[r] \notin {"idle", "done", "dead"} \/ rpc[r] \notin {"none", "done", "dead"}

\* The process dies: no goroutine survives, and no session was persisted.
Crash ==
  /\ crashes < MaxCrashes /\ crashes' = crashes + 1
  /\ \E r \in Requests : InFlight(r)
  /\ pc' = [r \in Requests |-> IF pc[r] \in {"idle", "done"} THEN pc[r] ELSE "dead"]
  /\ rpc' = [r \in Requests |-> IF rpc[r] \in {"none", "done"} THEN rpc[r] ELSE "dead"]
  /\ UNCHANGED <<balances, profile, sess, tokenSnap, record, attempts, faults, nets, due,
                 impaired>>

\* No request is left to do anything.
Terminated == /\ \A r \in Requests : pc[r] # "idle" /\ ~InFlight(r)
              /\ UNCHANGED vars

Opening(r) ==
  \/ Authenticate(r) \/ ChooseSource(r) \/ TryWallet(r)
  \/ FallbackToSubscription(r) \/ FallbackToWallet(r)
  \/ CheckToken(r) \/ TakeToken(r) \/ OpeningFails(r)
  \/ PreConsumeWallet(r) \/ PreConsumeSubscription(r)
  \/ PreConsumeShort(r) \/ PreConsumeFails(r)
  \/ RollbackToken(r) \/ RollbackTokenFails(r)

Answered(r) == (\E a \in Actuals : Serve(r, a)) \/ (\E f \in Fees : Fail(r, f))

Closing(r) ==
  \/ SettleEven(r) \/ SettleWallet(r) \/ SettleSubscription(r)
  \/ SettleRefused(r) \/ SettleFails(r)
  \/ SettleToken(r) \/ SettleTokenFails(r)
  \/ FeeWallet(r) \/ FeeSubscription(r) \/ FeeWaived(r)
  \/ FeeToken(r) \/ FeeTokenFails(r)

Refunding(r) ==
  \/ RefundWallet(r) \/ RefundWalletFails(r)
  \/ RefundSubscription(r) \/ RefundSubscriptionFails(r)
  \/ RefundMark(r) \/ RefundMarkFails(r)
  \/ RefundToken(r) \/ RefundTokenFails(r)

Next ==
  \/ \E r \in Requests : Opening(r) \/ Answered(r) \/ Closing(r) \/ Refunding(r)
  \/ ExpireSubscription \/ Crash \/ Terminated

Spec == Init /\ [][Next]_vars

\* A started goroutine is scheduled.  Nothing is assumed of the arrival of
\* requests, of the upstream's answer, of expiry or of crashes.
Fairness == \A r \in Requests :
  /\ WF_vars(Opening(r) /\ pc[r] # "idle")
  /\ WF_vars(Closing(r))
  /\ WF_vars(Refunding(r))

FairSpec == Spec /\ Fairness

-----------------------------------------------------------------------------
(***************************************************************************)
(* Properties.                                                             *)
(***************************************************************************)

\* The type of every variable, history included.
TypeOK ==
  /\ userQuota \in Int /\ tokenQuota \in Int
  /\ tokenStatus \in {"enabled", "exhausted"}
  /\ sub \in [active: BOOLEAN, used: Nat]
  /\ profile \in [Requests -> Profiles]
  /\ pc \in [Requests -> PCs]
  /\ sess \in [Requests -> SessionType]
  /\ tokenSnap \in [Requests -> Int]
  /\ record \in [Requests -> {"none", "consumed", "refunded"}]
  /\ rpc \in [Requests -> RPCs]
  /\ attempts \in [Requests -> Nat]
  /\ faults \in 0 .. MaxFaults /\ crashes \in 0 .. MaxCrashes
  /\ walletNet \in [Requests -> Int]
  /\ tokenNet \in [Requests -> Int]
  /\ subNet \in [Requests -> Int]
  /\ due \in [Requests -> Nat]
  /\ impaired \in [Requests -> BOOLEAN]

Closed(r) == pc[r] = "done" /\ rpc[r] \in {"none", "done"}

\* The charge r leaves behind on each balance when it owes d in the end.
ExactBill(r, d) ==
  [wallet |-> IF sess[r].source = "wallet" THEN d ELSE 0,
   subscription |-> IF sess[r].source = "subscription" THEN d ELSE 0,
   token |-> IF profile[r].playground THEN 0 ELSE d]
Bill(r) == [wallet |-> walletNet[r], subscription |-> subNet[r], token |-> tokenNet[r]]

\* A request that is over, and none of whose settling or refunding writes failed,
\* has been charged exactly what it owes: its actual quota when it was served
\* (Settle), the violation fee alone when it failed (Refund), nothing when it
\* was refused (the rollbacks of preConsume and the fallbacks of
\* NewBillingSession), from one source and, outside the playground, the token.
\* Two error paths lower what is owed (due): a request whose settlement the subscription
\* does not cover owes what it had pre-consumed (SettleRefused), and a fee that the
\* subscription does not cover, or whose first statement fails, is waived (FeeWaived).
ChargedExactly ==
  \A r \in Requests : Closed(r) /\ ~impaired[r] => Bill(r) = ExactBill(r, due[r])

\* Whatever fails and whenever the process dies, no request gets back more than
\* was taken for it from the wallet or from the token.
NeverOverRefunded == \A r \in Requests : walletNet[r] >= 0 /\ tokenNet[r] >= 0

\* No request is charged both to the wallet and to the subscription, even when
\* it fell back from one to the other and the rollback failed.
OneFundingSource == \A r \in Requests : walletNet[r] = 0 \/ subNet[r] = 0

\* Concurrent requests never use more of the subscription than its total
\* (PreConsumeUserSubscription and PostConsumeUserSubscriptionDelta under lock).
WithinTotal == SubTotal > 0 => sub.used <= SubTotal

\* RefundSubscriptionPreConsume "is idempotent": the retries of refundWithRetry
\* never give back more than the record's pre-consumed amount.
RefundIdempotent == \A r \in Requests : subNet[r] >= 0

\* Opening, settling and refunding come to an end: the fallbacks between the
\* sources never go round in a circle and no goroutine waits for ever.
NoneStuck ==
  \A r \in Requests :
    /\ pc[r] \notin {"idle", "held"} ~> pc[r] \in {"held", "done", "dead"}
    /\ rpc[r] # "none" ~> rpc[r] \in {"done", "dead"}

\* Each step is one of RequestBilling's or invisible to it: a bill is written
\* once, when the last goroutine of the request is over, and is final.
Over(r) == pc[r] \in {"done", "dead"} /\ rpc[r] \in {"none", "done", "dead"}

BillPhase == [r \in Requests |->
  IF pc[r] = "idle" THEN "idle" ELSE IF Over(r) THEN "closed" ELSE "open"]
FinalBill == [r \in Requests |->
  IF Over(r) THEN Bill(r) ELSE [wallet |-> 0, subscription |-> 0, token |-> 0]]
Disturbed == [r \in Requests |-> impaired[r] \/ pc[r] = "dead" \/ rpc[r] = "dead"]

Billing == INSTANCE RequestBilling WITH
  phase <- BillPhase, bill <- FinalBill, disturbed <- Disturbed

\* The session implements the promise: see RequestBilling.
KeepsPromise == Billing!Promise

-----------------------------------------------------------------------------
(***************************************************************************)
(* The inductive invariant: what each balance holds for a request, read    *)
(* off the session and the position of its two goroutines.                 *)
(***************************************************************************)

\* Still held from the session's source; what Refund or Settle will give back.
FundingHeld(r) ==
  IF pc[r] \in {"held", "settle"} \/ rpc[r] = "funding" THEN sess[r].funded ELSE 0
\* Charged for good to the session's source.
FundingDue(r) == IF pc[r] \in {"settleToken", "feeToken", "done"} THEN due[r] ELSE 0

TokenHeld(r) ==
  IF /\ ~profile[r].playground
     /\ \/ pc[r] \in {"preFunding", "rollback", "rollbackShort", "held", "settle", "settleToken"}
        \/ rpc[r] \in {"funding", "mark", "token"}
    THEN sess[r].tokenConsumed ELSE 0
TokenDue(r) == IF pc[r] = "done" /\ ~profile[r].playground THEN due[r] ELSE 0

Alive(r) == pc[r] # "dead" /\ rpc[r] # "dead"

\* The ledger is exact for an unimpaired request of a live process, ...
LedgerExact(r) ==
  Alive(r) /\ ~impaired[r] =>
    /\ sess[r].source = "wallet" => walletNet[r] = FundingHeld(r) + FundingDue(r)
    /\ sess[r].source = "subscription" => subNet[r] = FundingHeld(r) + FundingDue(r)
    /\ tokenNet[r] = TokenHeld(r) + TokenDue(r)

\* ... and always covers what may still be given back.
LedgerCovers(r) ==
  /\ walletNet[r] >= IF sess[r].source = "wallet" THEN FundingHeld(r) ELSE 0
  /\ tokenNet[r] >= TokenHeld(r)

Unflagged(s) == ~s.settled /\ ~s.refunded /\ ~s.fundingSettled

\* The fields of a session at each position of its goroutines.
SessionShape(r) ==
  /\ pc[r] \in {"idle", "new", "readWallet", "fallbackSub", "fallbackWallet"}
       => sess[r] = NoSession /\ due[r] = 0
  /\ pc[r] \in {"checkToken", "takeToken", "preFunding", "rollback", "rollbackShort"}
       => sess[r].source # "none" /\ sess[r].pre = 0 /\ sess[r].funded = 0 /\ due[r] = 0
  /\ pc[r] \in {"checkToken", "takeToken"} => sess[r].tokenConsumed = 0
  /\ pc[r] = "takeToken" => ~profile[r].playground
  /\ pc[r] \in {"preFunding", "rollback", "rollbackShort"} => sess[r].tokenConsumed = Want(r)
  /\ pc[r] = "held" => due[r] = 0
  /\ pc[r] \in OpeningPCs \cup {"held"} => Unflagged(sess[r])
  /\ rpc[r] = "mark" => sess[r].source = "subscription"
  /\ pc[r] \in {"held", "settle", "settleToken", "fee", "feeToken"} \/ rpc[r] # "none"
       => /\ sess[r].source # "none"
          /\ sess[r].pre = sess[r].funded /\ sess[r].tokenConsumed = sess[r].funded
  /\ rpc[r] # "none" => pc[r] \in {"fee", "feeToken", "done", "dead"}
  /\ sess[r].source = "none" => due[r] = 0
  /\ pc[r] \in OpeningPCs \cup {"idle"} => walletNet[r] = 0 /\ subNet[r] = 0
  /\ pc[r] = "idle" => tokenNet[r] = 0
  /\ sess[r].source # "wallet" => walletNet[r] = 0
  /\ sess[r].source # "subscription" => subNet[r] = 0

\* Inductive invariant behind the safety properties above.
IInv ==
  /\ TypeOK
  /\ WithinTotal
  /\ \A r \in Requests : LedgerExact(r) /\ LedgerCovers(r) /\ SessionShape(r)

=============================================================================
