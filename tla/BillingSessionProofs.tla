------------------------- MODULE BillingSessionProofs -------------------------
(***************************************************************************)
(* Proofs about BillingSession, for every set of requests and every value  *)
(* of the other constants.  Balances are shared, but what the invariant    *)
(* says of them it says request by request (RInv), and a step of a request *)
(* changes the per-request variables at that request only (Frame).  So     *)
(* each action is shown to re-establish RInv for the request that takes it *)
(* and to leave the others alone; Crash is the only step of many requests. *)
(***************************************************************************)
EXTENDS BillingSession, TLAPS

\* The part of IInv about one request.
RInv(r) == LedgerExact(r) /\ LedgerCovers(r) /\ SessionShape(r)

\* Only the entries of r change.
Frame(r) ==
  /\ profile' = profile
  /\ pc' = [pc EXCEPT ![r] = pc'[r]]
  /\ sess' = [sess EXCEPT ![r] = sess'[r]]
  /\ rpc' = [rpc EXCEPT ![r] = rpc'[r]]
  /\ walletNet' = [walletNet EXCEPT ![r] = walletNet'[r]]
  /\ tokenNet' = [tokenNet EXCEPT ![r] = tokenNet'[r]]
  /\ subNet' = [subNet EXCEPT ![r] = subNet'[r]]
  /\ due' = [due EXCEPT ![r] = due'[r]]
  /\ impaired' = [impaired EXCEPT ![r] = impaired'[r]]

\* What a step of r has to establish.
Preserves(r) == TypeOK' /\ WithinTotal' /\ Frame(r) /\ RInv(r)'

\* The types of the entries of r that a step may change, ...
EntryOK(r) ==
  /\ pc[r] \in PCs /\ rpc[r] \in RPCs /\ sess[r] \in SessionType
  /\ walletNet[r] \in Int /\ tokenNet[r] \in Int /\ subNet[r] \in Int
  /\ due[r] \in Nat /\ impaired[r] \in BOOLEAN

\* ... and of the variables that are not in Frame.
RestOK ==
  /\ userQuota \in Int /\ tokenQuota \in Int
  /\ tokenStatus \in {"enabled", "exhausted"}
  /\ sub \in [active: BOOLEAN, used: Nat]
  /\ tokenSnap \in [Requests -> Int]
  /\ record \in [Requests -> {"none", "consumed", "refunded"}]
  /\ attempts \in [Requests -> Nat]
  /\ faults \in 0 .. MaxFaults /\ crashes \in 0 .. MaxCrashes

USE DEF refundVars, balances, nets, Goto, RefundGoto, Fault, Impair

-----------------------------------------------------------------------------
(* Facts about the entries of one request. *)

\* The types of the entries of one request.
LEMMA Entries ==
  ASSUME TypeOK, NEW r \in Requests
  PROVE  /\ profile[r] \in ProfileType /\ pc[r] \in PCs /\ rpc[r] \in RPCs
         /\ sess[r] \in SessionType
         /\ walletNet[r] \in Int /\ tokenNet[r] \in Int /\ subNet[r] \in Int
         /\ due[r] \in Nat /\ impaired[r] \in BOOLEAN
BY ProfilesAssumption DEF TypeOK

\* The fields of a new session.
LEMMA Fresh ==
  \A s \in {"none", "wallet", "subscription"}, t \in BOOLEAN :
    /\ NewSession(s, t) \in SessionType
    /\ NewSession(s, t).source = s /\ NewSession(s, t).funded = 0
    /\ NewSession(s, t).pre = 0 /\ NewSession(s, t).tokenConsumed = 0
    /\ Unflagged(NewSession(s, t))
BY DEF NewSession, SessionType, Unflagged

\* The fields of no session.
LEMMA Blank ==
  /\ NoSession \in SessionType
  /\ NoSession.source = "none" /\ NoSession.funded = 0
  /\ NoSession.pre = 0 /\ NoSession.tokenConsumed = 0
  /\ Unflagged(NoSession)
BY Fresh DEF NoSession

\* What preConsume asks for is a natural number.
LEMMA WantNat ==
  ASSUME TypeOK, NEW r \in Requests
  PROVE  Want(r) \in Nat
BY Entries DEF Want, ProfileType



\* A step that changes the entries of r within their types keeps TypeOK.
LEMMA TypeByFrame ==
  ASSUME TypeOK, NEW r \in Requests, Frame(r), EntryOK(r)', RestOK'
  PROVE  TypeOK'
BY DEF TypeOK, Frame, EntryOK, RestOK

-----------------------------------------------------------------------------
(* Opening a session. *)

\* Authenticate keeps the invariant of its request and its frame.
LEMMA AuthenticateStep ==
  ASSUME IInv, NEW r \in Requests, Authenticate(r)
  PROVE  Preserves(r)
<1>1. TypeOK /\ WithinTotal /\ RInv(r) BY DEF IInv, RInv
<1>2. /\ pc[r] = "idle"
      /\ pc'[r] \in {"new", "done"}
      /\ UNCHANGED <<profile[r], rpc[r], sess[r], walletNet[r], tokenNet[r], subNet[r], due[r], impaired[r]>>
  BY <1>1 DEF Authenticate, TypeOK
<1>3. Frame(r)
  BY <1>1 DEF Frame, Authenticate, TypeOK
<1>4. EntryOK(r)'
  BY <1>1, <1>2, Entries, AmountsAssumption DEF EntryOK, PCs, OpeningPCs, RPCs
<1>5. RestOK' /\ WithinTotal'
  BY <1>1, AmountsAssumption, BoundsAssumption DEF RestOK, WithinTotal, TypeOK, Authenticate
<1>6. TypeOK' BY <1>1, <1>3, <1>4, <1>5, TypeByFrame
<1>7. LedgerExact(r)'
  BY <1>1, <1>2, <1>4, Entries, Blank
  DEF RInv, EntryOK, LedgerExact, LedgerCovers, SessionShape, Alive, FundingHeld, FundingDue, TokenHeld, TokenDue, OpeningPCs
<1>8. LedgerCovers(r)'
  BY <1>1, <1>2, <1>4, Entries, Blank
  DEF RInv, EntryOK, LedgerCovers, SessionShape, FundingHeld, TokenHeld, OpeningPCs
<1>9. SessionShape(r)'
  BY <1>1, <1>2, <1>4, Entries, Blank
  DEF RInv, EntryOK, SessionShape, OpeningPCs, Want
<1> QED BY <1>6, <1>3, <1>5, <1>7, <1>8, <1>9 DEF Preserves, RInv

\* ChooseSource keeps the invariant of its request and its frame.
LEMMA ChooseSourceStep ==
  ASSUME IInv, NEW r \in Requests, ChooseSource(r)
  PROVE  Preserves(r)
<1>1. TypeOK /\ WithinTotal /\ RInv(r) BY DEF IInv, RInv
<1>2. /\ pc[r] = "new"
      /\ \/ pc'[r] = "readWallet" /\ sess'[r] = sess[r]
         \/ pc'[r] = "checkToken" /\ sess'[r] = NewSession("subscription", FALSE)
         \/ pc'[r] = "done" /\ sess'[r] = NoSession
      /\ UNCHANGED <<profile[r], rpc[r], walletNet[r], tokenNet[r], subNet[r], due[r], impaired[r]>>
  BY <1>1 DEF ChooseSource, TrySubscription, Refuse, UnchangedByRead, TypeOK
<1>3. /\ sess'[r] \in SessionType
      /\ sess'[r].pre = 0 /\ sess'[r].funded = 0 /\ sess'[r].tokenConsumed = 0 /\ Unflagged(sess'[r])
      /\ pc'[r] = "checkToken" => sess'[r].source = "subscription"
      /\ pc'[r] # "checkToken" => sess'[r] = NoSession
  BY <1>1, <1>2, Entries, Fresh, Blank DEF RInv, SessionShape
<1>4. Frame(r)
  BY <1>1 DEF Frame, ChooseSource, TrySubscription, Refuse, UnchangedByRead, TypeOK
<1>5. EntryOK(r)'
  BY <1>1, <1>2, <1>3, Entries, AmountsAssumption DEF EntryOK, PCs, OpeningPCs, RPCs
<1>6. RestOK' /\ WithinTotal'
  BY <1>1, AmountsAssumption, BoundsAssumption DEF RestOK, WithinTotal, TypeOK, ChooseSource, TrySubscription, Refuse, UnchangedByRead
<1>7. TypeOK' BY <1>1, <1>4, <1>5, <1>6, TypeByFrame
<1>8. LedgerExact(r)'
  BY <1>1, <1>2, <1>3, <1>5, Entries, Blank
  DEF RInv, EntryOK, LedgerExact, LedgerCovers, SessionShape, Alive, FundingHeld, FundingDue, TokenHeld, TokenDue, OpeningPCs
<1>9. LedgerCovers(r)'
  BY <1>1, <1>2, <1>3, <1>5, Entries, Blank
  DEF RInv, EntryOK, LedgerCovers, SessionShape, FundingHeld, TokenHeld, OpeningPCs
<1>10. SessionShape(r)'
  BY <1>1, <1>2, <1>3, <1>5, Entries, Blank
  DEF RInv, EntryOK, SessionShape, OpeningPCs, Want
<1> QED BY <1>7, <1>4, <1>6, <1>8, <1>9, <1>10 DEF Preserves, RInv

\* TryWallet keeps the invariant of its request and its frame.
LEMMA TryWalletStep ==
  ASSUME IInv, NEW r \in Requests, TryWallet(r)
  PROVE  Preserves(r)
<1>1. TypeOK /\ WithinTotal /\ RInv(r) BY DEF IInv, RInv
<1>2. ShouldTrust(r) \in BOOLEAN
  BY <1>1 DEF ShouldTrust
<1>3. \A t \in {ShouldTrust(r), FALSE} :
        /\ NewSession("wallet", t) \in SessionType /\ NewSession("wallet", t).source = "wallet"
        /\ NewSession("wallet", t).pre = 0 /\ NewSession("wallet", t).funded = 0
        /\ NewSession("wallet", t).tokenConsumed = 0 /\ Unflagged(NewSession("wallet", t))
  BY <1>1, <1>2, Fresh
<1>4. /\ pc[r] = "readWallet"
      /\ \/ pc'[r] = "fallbackSub" /\ sess'[r] = sess[r]
         \/ pc'[r] = "held" /\ sess'[r] = NewSession("wallet", ShouldTrust(r))
         \/ pc'[r] = "checkToken" /\ sess'[r] = NewSession("wallet", FALSE)
         \/ pc'[r] = "done" /\ sess'[r] = NoSession
      /\ UNCHANGED <<profile[r], rpc[r], walletNet[r], tokenNet[r], subNet[r], due[r], impaired[r]>>
  BY <1>1, <1>2, <1>3 DEF TryWallet, Refuse, UnchangedByRead, TypeOK
<1>5. /\ sess'[r] \in SessionType
      /\ sess'[r].pre = 0 /\ sess'[r].funded = 0 /\ sess'[r].tokenConsumed = 0 /\ Unflagged(sess'[r])
      /\ pc'[r] \in {"held", "checkToken"} => sess'[r].source = "wallet"
      /\ pc'[r] \in {"fallbackSub", "done"} => sess'[r] = NoSession
  BY <1>1, <1>2, <1>3, <1>4, Entries, Blank DEF RInv, SessionShape
<1>6. Frame(r)
  BY <1>1, <1>2, <1>3 DEF Frame, TryWallet, Refuse, UnchangedByRead, TypeOK
<1>7. EntryOK(r)'
  BY <1>1, <1>2, <1>3, <1>4, <1>5, Entries, AmountsAssumption DEF EntryOK, PCs, OpeningPCs, RPCs
<1>8. RestOK' /\ WithinTotal'
  BY <1>1, <1>2, <1>3, AmountsAssumption, BoundsAssumption DEF RestOK, WithinTotal, TypeOK, TryWallet, Refuse, UnchangedByRead
<1>9. TypeOK' BY <1>1, <1>6, <1>7, <1>8, TypeByFrame
<1>10. LedgerExact(r)'
  BY <1>1, <1>2, <1>3, <1>4, <1>5, <1>7, Entries, Blank
  DEF RInv, EntryOK, LedgerExact, LedgerCovers, SessionShape, Alive, FundingHeld, FundingDue, TokenHeld, TokenDue, OpeningPCs
<1>11. LedgerCovers(r)'
  BY <1>1, <1>2, <1>3, <1>4, <1>5, <1>7, Entries, Blank
  DEF RInv, EntryOK, LedgerCovers, SessionShape, FundingHeld, TokenHeld, OpeningPCs
<1>12. SessionShape(r)'
  BY <1>1, <1>2, <1>3, <1>4, <1>5, <1>7, Entries, Blank
  DEF RInv, EntryOK, SessionShape, OpeningPCs, Want
<1> QED BY <1>9, <1>6, <1>8, <1>10, <1>11, <1>12 DEF Preserves, RInv

\* FallbackToSubscription keeps the invariant of its request and its frame.
LEMMA FallbackToSubscriptionStep ==
  ASSUME IInv, NEW r \in Requests, FallbackToSubscription(r)
  PROVE  Preserves(r)
<1>1. TypeOK /\ WithinTotal /\ RInv(r) BY DEF IInv, RInv
<1>2. /\ pc[r] = "fallbackSub"
      /\ \/ pc'[r] = "checkToken" /\ sess'[r] = NewSession("subscription", FALSE)
         \/ pc'[r] = "done" /\ sess'[r] = NoSession
      /\ UNCHANGED <<profile[r], rpc[r], walletNet[r], tokenNet[r], subNet[r], due[r], impaired[r]>>
  BY <1>1 DEF FallbackToSubscription, TrySubscription, Refuse, UnchangedByRead, TypeOK
<1>3. /\ sess'[r] \in SessionType
      /\ sess'[r].pre = 0 /\ sess'[r].funded = 0 /\ sess'[r].tokenConsumed = 0 /\ Unflagged(sess'[r])
      /\ pc'[r] = "checkToken" => sess'[r].source = "subscription"
      /\ pc'[r] # "checkToken" => sess'[r] = NoSession
  BY <1>1, <1>2, Entries, Fresh, Blank DEF RInv, SessionShape
<1>4. Frame(r)
  BY <1>1 DEF Frame, FallbackToSubscription, TrySubscription, Refuse, UnchangedByRead, TypeOK
<1>5. EntryOK(r)'
  BY <1>1, <1>2, <1>3, Entries, AmountsAssumption DEF EntryOK, PCs, OpeningPCs, RPCs
<1>6. RestOK' /\ WithinTotal'
  BY <1>1, AmountsAssumption, BoundsAssumption DEF RestOK, WithinTotal, TypeOK, FallbackToSubscription, TrySubscription, Refuse, UnchangedByRead
<1>7. TypeOK' BY <1>1, <1>4, <1>5, <1>6, TypeByFrame
<1>8. LedgerExact(r)'
  BY <1>1, <1>2, <1>3, <1>5, Entries, Blank
  DEF RInv, EntryOK, LedgerExact, LedgerCovers, SessionShape, Alive, FundingHeld, FundingDue, TokenHeld, TokenDue, OpeningPCs
<1>9. LedgerCovers(r)'
  BY <1>1, <1>2, <1>3, <1>5, Entries, Blank
  DEF RInv, EntryOK, LedgerCovers, SessionShape, FundingHeld, TokenHeld, OpeningPCs
<1>10. SessionShape(r)'
  BY <1>1, <1>2, <1>3, <1>5, Entries, Blank
  DEF RInv, EntryOK, SessionShape, OpeningPCs, Want
<1> QED BY <1>7, <1>4, <1>6, <1>8, <1>9, <1>10 DEF Preserves, RInv

\* FallbackToWallet keeps the invariant of its request and its frame.
LEMMA FallbackToWalletStep ==
  ASSUME IInv, NEW r \in Requests, FallbackToWallet(r)
  PROVE  Preserves(r)
<1>1. TypeOK /\ WithinTotal /\ RInv(r) BY DEF IInv, RInv
<1>2. /\ pc[r] = "fallbackWallet"
      /\ pc'[r] \in {"readWallet", "done"}
      /\ sess'[r] = NoSession
      /\ UNCHANGED <<profile[r], rpc[r], walletNet[r], tokenNet[r], subNet[r], due[r], impaired[r]>>
  BY <1>1 DEF FallbackToWallet, Refuse, UnchangedByRead, TypeOK
<1>3. /\ sess'[r] \in SessionType
  BY <1>1, <1>2, Entries, Blank
<1>4. Frame(r)
  BY <1>1 DEF Frame, FallbackToWallet, Refuse, UnchangedByRead, TypeOK
<1>5. EntryOK(r)'
  BY <1>1, <1>2, <1>3, Entries, AmountsAssumption DEF EntryOK, PCs, OpeningPCs, RPCs
<1>6. RestOK' /\ WithinTotal'
  BY <1>1, AmountsAssumption, BoundsAssumption DEF RestOK, WithinTotal, TypeOK, FallbackToWallet, Refuse, UnchangedByRead
<1>7. TypeOK' BY <1>1, <1>4, <1>5, <1>6, TypeByFrame
<1>8. LedgerExact(r)'
  BY <1>1, <1>2, <1>3, <1>5, Entries, Blank
  DEF RInv, EntryOK, LedgerExact, LedgerCovers, SessionShape, Alive, FundingHeld, FundingDue, TokenHeld, TokenDue, OpeningPCs
<1>9. LedgerCovers(r)'
  BY <1>1, <1>2, <1>3, <1>5, Entries, Blank
  DEF RInv, EntryOK, LedgerCovers, SessionShape, FundingHeld, TokenHeld, OpeningPCs
<1>10. SessionShape(r)'
  BY <1>1, <1>2, <1>3, <1>5, Entries, Blank
  DEF RInv, EntryOK, SessionShape, OpeningPCs, Want
<1> QED BY <1>7, <1>4, <1>6, <1>8, <1>9, <1>10 DEF Preserves, RInv

\* CheckToken keeps the invariant of its request and its frame.
LEMMA CheckTokenStep ==
  ASSUME IInv, NEW r \in Requests, CheckToken(r)
  PROVE  Preserves(r)
<1>1. TypeOK /\ WithinTotal /\ RInv(r) BY DEF IInv, RInv
<1>2. Want(r) \in Nat
  BY <1>1, WantNat
<1>3. /\ pc[r] = "checkToken"
      /\ \/ pc'[r] = "preFunding" /\ profile[r].playground /\ sess'[r] = [sess[r] EXCEPT !.tokenConsumed = Want(r)]
         \/ pc'[r] = "takeToken" /\ ~profile[r].playground /\ sess'[r] = sess[r]
         \/ pc'[r] = "done" /\ sess'[r] = NoSession
      /\ UNCHANGED <<profile[r], rpc[r], walletNet[r], tokenNet[r], subNet[r], due[r], impaired[r]>>
  BY <1>1, <1>2 DEF CheckToken, Refuse, UnchangedByRead, TypeOK
<1>4. /\ sess'[r] \in SessionType
      /\ pc'[r] \in {"preFunding", "takeToken"} =>
           sess'[r].source = sess[r].source /\ sess'[r].pre = sess[r].pre /\ sess'[r].funded = sess[r].funded
      /\ pc'[r] = "takeToken" => sess'[r].tokenConsumed = sess[r].tokenConsumed
      /\ pc'[r] = "preFunding" => sess'[r].tokenConsumed = Want(r)
      /\ Unflagged(sess[r]) => Unflagged(sess'[r])
  BY <1>1, <1>2, <1>3, Entries, Blank DEF SessionType, Unflagged
<1>5. Frame(r)
  BY <1>1, <1>2 DEF Frame, CheckToken, Refuse, UnchangedByRead, TypeOK
<1>6. EntryOK(r)'
  BY <1>1, <1>2, <1>3, <1>4, Entries, AmountsAssumption DEF EntryOK, PCs, OpeningPCs, RPCs
<1>7. RestOK' /\ WithinTotal'
  BY <1>1, <1>2, AmountsAssumption, BoundsAssumption DEF RestOK, WithinTotal, TypeOK, CheckToken, Refuse, UnchangedByRead
<1>8. TypeOK' BY <1>1, <1>5, <1>6, <1>7, TypeByFrame
<1>9. LedgerExact(r)'
  BY <1>1, <1>2, <1>3, <1>4, <1>6, Entries, Blank
  DEF RInv, EntryOK, LedgerExact, LedgerCovers, SessionShape, Alive, FundingHeld, FundingDue, TokenHeld, TokenDue, OpeningPCs
<1>10. LedgerCovers(r)'
  BY <1>1, <1>2, <1>3, <1>4, <1>6, Entries, Blank
  DEF RInv, EntryOK, LedgerCovers, SessionShape, FundingHeld, TokenHeld, OpeningPCs
<1>11. SessionShape(r)'
  BY <1>1, <1>2, <1>3, <1>4, <1>6, Entries, Blank
  DEF RInv, EntryOK, SessionShape, OpeningPCs, Want
<1> QED BY <1>8, <1>5, <1>7, <1>9, <1>10, <1>11 DEF Preserves, RInv

\* OpeningFails keeps the invariant of its request and its frame.
LEMMA OpeningFailsStep ==
  ASSUME IInv, NEW r \in Requests, OpeningFails(r)
  PROVE  Preserves(r)
<1>1. TypeOK /\ WithinTotal /\ RInv(r) BY DEF IInv, RInv
<1>2. /\ pc[r] \in {"new", "readWallet", "fallbackSub", "fallbackWallet", "checkToken", "takeToken"}
      /\ pc'[r] = "done"
      /\ sess'[r] = NoSession
      /\ UNCHANGED <<profile[r], rpc[r], walletNet[r], tokenNet[r], subNet[r], due[r], impaired[r]>>
  BY <1>1 DEF OpeningFails, Refuse, UnchangedByRead, TypeOK
<1>3. /\ sess'[r] \in SessionType
  BY <1>1, <1>2, Entries, Blank
<1>4. Frame(r)
  BY <1>1 DEF Frame, OpeningFails, Refuse, UnchangedByRead, TypeOK
<1>5. EntryOK(r)'
  BY <1>1, <1>2, <1>3, Entries, AmountsAssumption DEF EntryOK, PCs, OpeningPCs, RPCs
<1>6. RestOK' /\ WithinTotal'
  BY <1>1, AmountsAssumption, BoundsAssumption DEF RestOK, WithinTotal, TypeOK, OpeningFails, Refuse, UnchangedByRead
<1>7. TypeOK' BY <1>1, <1>4, <1>5, <1>6, TypeByFrame
<1>8. LedgerExact(r)'
  BY <1>1, <1>2, <1>3, <1>5, Entries, Blank
  DEF RInv, EntryOK, LedgerExact, LedgerCovers, SessionShape, Alive, FundingHeld, FundingDue, TokenHeld, TokenDue, OpeningPCs
<1>9. LedgerCovers(r)'
  BY <1>1, <1>2, <1>3, <1>5, Entries, Blank
  DEF RInv, EntryOK, LedgerCovers, SessionShape, FundingHeld, TokenHeld, OpeningPCs
<1>10. SessionShape(r)'
  BY <1>1, <1>2, <1>3, <1>5, Entries, Blank
  DEF RInv, EntryOK, SessionShape, OpeningPCs, Want
<1> QED BY <1>7, <1>4, <1>6, <1>8, <1>9, <1>10 DEF Preserves, RInv

\* TakeToken keeps the invariant of its request and its frame.
LEMMA TakeTokenStep ==
  ASSUME IInv, NEW r \in Requests, TakeToken(r)
  PROVE  Preserves(r)
<1>1. TypeOK /\ WithinTotal /\ RInv(r) BY DEF IInv, RInv
<1>2. Want(r) \in Nat
  BY <1>1, WantNat
<1>3. /\ pc[r] = "takeToken"
      /\ pc'[r] = "preFunding"
      /\ sess'[r] = [sess[r] EXCEPT !.tokenConsumed = Want(r)]
      /\ tokenNet'[r] = tokenNet[r] + Want(r)
      /\ UNCHANGED <<profile[r], rpc[r], walletNet[r], subNet[r], due[r], impaired[r]>>
  BY <1>1, <1>2 DEF TakeToken, ChargeToken, TypeOK
<1>4. /\ sess'[r] \in SessionType
      /\ sess'[r].source = sess[r].source
      /\ sess'[r].pre = sess[r].pre
      /\ sess'[r].funded = sess[r].funded
      /\ sess'[r].tokenConsumed = Want(r)
      /\ Unflagged(sess[r]) => Unflagged(sess'[r])
  BY <1>1, <1>2, <1>3, Entries, Blank DEF SessionType, Unflagged
<1>5. Frame(r)
  BY <1>1, <1>2 DEF Frame, TakeToken, ChargeToken, TypeOK
<1>6. EntryOK(r)'
  BY <1>1, <1>2, <1>3, <1>4, Entries, AmountsAssumption DEF EntryOK, PCs, OpeningPCs, RPCs
<1>7. RestOK' /\ WithinTotal'
  BY <1>1, <1>2, AmountsAssumption, BoundsAssumption DEF RestOK, WithinTotal, TypeOK, TakeToken, ChargeToken
<1>8. TypeOK' BY <1>1, <1>5, <1>6, <1>7, TypeByFrame
<1>9. LedgerExact(r)'
  BY <1>1, <1>2, <1>3, <1>4, <1>6, Entries, Blank
  DEF RInv, EntryOK, LedgerExact, LedgerCovers, SessionShape, Alive, FundingHeld, FundingDue, TokenHeld, TokenDue, OpeningPCs
<1>10. LedgerCovers(r)'
  BY <1>1, <1>2, <1>3, <1>4, <1>6, Entries, Blank
  DEF RInv, EntryOK, LedgerCovers, SessionShape, FundingHeld, TokenHeld, OpeningPCs
<1>11. SessionShape(r)'
  BY <1>1, <1>2, <1>3, <1>4, <1>6, Entries, Blank
  DEF RInv, EntryOK, SessionShape, OpeningPCs, Want
<1> QED BY <1>8, <1>5, <1>7, <1>9, <1>10, <1>11 DEF Preserves, RInv

\* PreConsumeWallet keeps the invariant of its request and its frame.
LEMMA PreConsumeWalletStep ==
  ASSUME IInv, NEW r \in Requests, PreConsumeWallet(r)
  PROVE  Preserves(r)
<1>1. TypeOK /\ WithinTotal /\ RInv(r) BY DEF IInv, RInv
<1>2. Want(r) \in Nat
  BY <1>1, WantNat
<1>3. /\ pc[r] = "preFunding"
      /\ sess[r].source = "wallet"
      /\ pc'[r] = "held"
      /\ sess'[r] = [sess[r] EXCEPT !.funded = Want(r), !.pre = Want(r)]
      /\ walletNet'[r] = walletNet[r] + Want(r)
      /\ UNCHANGED <<profile[r], rpc[r], tokenNet[r], subNet[r], due[r], impaired[r]>>
  BY <1>1, <1>2 DEF PreConsumeWallet, ChargeWallet, TypeOK
<1>4. /\ Unflagged(sess[r]) => Unflagged(sess'[r])
      /\ sess'[r] \in SessionType
      /\ sess'[r].source = sess[r].source
      /\ sess'[r].pre = Want(r)
      /\ sess'[r].funded = Want(r)
      /\ sess'[r].tokenConsumed = sess[r].tokenConsumed
  BY <1>1, <1>2, <1>3, Entries, Blank DEF SessionType, Unflagged
<1>5. Frame(r)
  BY <1>1, <1>2 DEF Frame, PreConsumeWallet, ChargeWallet, TypeOK
<1>6. EntryOK(r)'
  BY <1>1, <1>2, <1>3, <1>4, Entries, AmountsAssumption DEF EntryOK, PCs, OpeningPCs, RPCs
<1>7. RestOK' /\ WithinTotal'
  BY <1>1, <1>2, AmountsAssumption, BoundsAssumption DEF RestOK, WithinTotal, TypeOK, PreConsumeWallet, ChargeWallet
<1>8. TypeOK' BY <1>1, <1>5, <1>6, <1>7, TypeByFrame
<1>9. LedgerExact(r)'
  BY <1>1, <1>2, <1>3, <1>4, <1>6, Entries, Blank
  DEF RInv, EntryOK, LedgerExact, LedgerCovers, SessionShape, Alive, FundingHeld, FundingDue, TokenHeld, TokenDue, OpeningPCs
<1>10. LedgerCovers(r)'
  BY <1>1, <1>2, <1>3, <1>4, <1>6, Entries, Blank
  DEF RInv, EntryOK, LedgerCovers, SessionShape, FundingHeld, TokenHeld, OpeningPCs
<1>11. SessionShape(r)'
  BY <1>1, <1>2, <1>3, <1>4, <1>6, Entries, Blank
  DEF RInv, EntryOK, SessionShape, OpeningPCs, Want
<1> QED BY <1>8, <1>5, <1>7, <1>9, <1>10, <1>11 DEF Preserves, RInv

\* PreConsumeSubscription keeps the invariant of its request and its frame.
LEMMA PreConsumeSubscriptionStep ==
  ASSUME IInv, NEW r \in Requests, PreConsumeSubscription(r)
  PROVE  Preserves(r)
<1>1. TypeOK /\ WithinTotal /\ RInv(r) BY DEF IInv, RInv
<1>2. Want(r) \in Nat
  BY <1>1, WantNat
<1>3. /\ pc[r] = "preFunding"
      /\ sess[r].source = "subscription"
      /\ pc'[r] = "held"
      /\ sess'[r] = [sess[r] EXCEPT !.funded = Want(r), !.pre = Want(r)]
      /\ subNet'[r] = subNet[r] + Want(r)
      /\ UNCHANGED <<profile[r], rpc[r], walletNet[r], tokenNet[r], due[r], impaired[r]>>
  BY <1>1, <1>2 DEF PreConsumeSubscription, ChargeSubscription, TypeOK
<1>4. /\ Unflagged(sess[r]) => Unflagged(sess'[r])
      /\ sess'[r] \in SessionType
      /\ sess'[r].source = sess[r].source
      /\ sess'[r].pre = Want(r)
      /\ sess'[r].funded = Want(r)
      /\ sess'[r].tokenConsumed = sess[r].tokenConsumed
  BY <1>1, <1>2, <1>3, Entries, Blank DEF SessionType, Unflagged
<1>5. Frame(r)
  BY <1>1, <1>2 DEF Frame, PreConsumeSubscription, ChargeSubscription, TypeOK
<1>6. EntryOK(r)'
  BY <1>1, <1>2, <1>3, <1>4, Entries, AmountsAssumption DEF EntryOK, PCs, OpeningPCs, RPCs
<1>7. RestOK' /\ WithinTotal'
  BY <1>1, <1>2, AmountsAssumption, BoundsAssumption DEF RestOK, WithinTotal, TypeOK, PreConsumeSubscription, ChargeSubscription, UsedAfter, SubscriptionCovers
<1>8. TypeOK' BY <1>1, <1>5, <1>6, <1>7, TypeByFrame
<1>9. LedgerExact(r)'
  BY <1>1, <1>2, <1>3, <1>4, <1>6, Entries, Blank
  DEF RInv, EntryOK, LedgerExact, LedgerCovers, SessionShape, Alive, FundingHeld, FundingDue, TokenHeld, TokenDue, OpeningPCs
<1>10. LedgerCovers(r)'
  BY <1>1, <1>2, <1>3, <1>4, <1>6, Entries, Blank
  DEF RInv, EntryOK, LedgerCovers, SessionShape, FundingHeld, TokenHeld, OpeningPCs
<1>11. SessionShape(r)'
  BY <1>1, <1>2, <1>3, <1>4, <1>6, Entries, Blank
  DEF RInv, EntryOK, SessionShape, OpeningPCs, Want
<1> QED BY <1>8, <1>5, <1>7, <1>9, <1>10, <1>11 DEF Preserves, RInv

\* PreConsumeShort keeps the invariant of its request and its frame.
LEMMA PreConsumeShortStep ==
  ASSUME IInv, NEW r \in Requests, PreConsumeShort(r)
  PROVE  Preserves(r)
<1>1. TypeOK /\ WithinTotal /\ RInv(r) BY DEF IInv, RInv
<1>2. /\ pc[r] = "preFunding"
      /\ pc'[r] = "rollbackShort"
      /\ UNCHANGED <<profile[r], rpc[r], sess[r], walletNet[r], tokenNet[r], subNet[r], due[r], impaired[r]>>
  BY <1>1 DEF PreConsumeShort, UnchangedByRead, TypeOK
<1>3. Frame(r)
  BY <1>1 DEF Frame, PreConsumeShort, UnchangedByRead, TypeOK
<1>4. EntryOK(r)'
  BY <1>1, <1>2, Entries, AmountsAssumption DEF EntryOK, PCs, OpeningPCs, RPCs
<1>5. RestOK' /\ WithinTotal'
  BY <1>1, AmountsAssumption, BoundsAssumption DEF RestOK, WithinTotal, TypeOK, PreConsumeShort, UnchangedByRead
<1>6. TypeOK' BY <1>1, <1>3, <1>4, <1>5, TypeByFrame
<1>7. LedgerExact(r)'
  BY <1>1, <1>2, <1>4, Entries, Blank
  DEF RInv, EntryOK, LedgerExact, LedgerCovers, SessionShape, Alive, FundingHeld, FundingDue, TokenHeld, TokenDue, OpeningPCs
<1>8. LedgerCovers(r)'
  BY <1>1, <1>2, <1>4, Entries, Blank
  DEF RInv, EntryOK, LedgerCovers, SessionShape, FundingHeld, TokenHeld, OpeningPCs
<1>9. SessionShape(r)'
  BY <1>1, <1>2, <1>4, Entries, Blank
  DEF RInv, EntryOK, SessionShape, OpeningPCs, Want
<1> QED BY <1>6, <1>3, <1>5, <1>7, <1>8, <1>9 DEF Preserves, RInv

\* PreConsumeFails keeps the invariant of its request and its frame.
LEMMA PreConsumeFailsStep ==
  ASSUME IInv, NEW r \in Requests, PreConsumeFails(r)
  PROVE  Preserves(r)
<1>1. TypeOK /\ WithinTotal /\ RInv(r) BY DEF IInv, RInv
<1>2. /\ pc[r] = "preFunding"
      /\ pc'[r] \in {"rollback", "rollbackShort"}
      /\ UNCHANGED <<profile[r], rpc[r], sess[r], walletNet[r], tokenNet[r], subNet[r], due[r], impaired[r]>>
  BY <1>1 DEF PreConsumeFails, Goto, UnchangedByRead, TypeOK
<1>3. Frame(r)
  BY <1>1 DEF Frame, PreConsumeFails, UnchangedByRead, TypeOK
<1>4. EntryOK(r)'
  BY <1>1, <1>2, Entries, AmountsAssumption DEF EntryOK, PCs, OpeningPCs, RPCs
<1>5. RestOK' /\ WithinTotal'
  BY <1>1, AmountsAssumption, BoundsAssumption DEF RestOK, WithinTotal, TypeOK, PreConsumeFails, UnchangedByRead
<1>6. TypeOK' BY <1>1, <1>3, <1>4, <1>5, TypeByFrame
<1>7. LedgerExact(r)'
  BY <1>1, <1>2, <1>4, Entries, Blank
  DEF RInv, EntryOK, LedgerExact, LedgerCovers, SessionShape, Alive, FundingHeld, FundingDue, TokenHeld, TokenDue, OpeningPCs
<1>8. LedgerCovers(r)'
  BY <1>1, <1>2, <1>4, Entries, Blank
  DEF RInv, EntryOK, LedgerCovers, SessionShape, FundingHeld, TokenHeld, OpeningPCs
<1>9. SessionShape(r)'
  BY <1>1, <1>2, <1>4, Entries, Blank
  DEF RInv, EntryOK, SessionShape, OpeningPCs, Want
<1> QED BY <1>6, <1>3, <1>5, <1>7, <1>8, <1>9 DEF Preserves, RInv

\* RollbackToken keeps the invariant of its request and its frame.
LEMMA RollbackTokenStep ==
  ASSUME IInv, NEW r \in Requests, RollbackToken(r)
  PROVE  Preserves(r)
<1>1. TypeOK /\ WithinTotal /\ RInv(r) BY DEF IInv, RInv
<1>2. sess[r].tokenConsumed \in Nat
  BY <1>1, Entries DEF SessionType
<1>3. /\ pc[r] \in {"rollback", "rollbackShort"}
      /\ pc'[r] \in {"fallbackWallet", "done"}
      /\ sess'[r] = NoSession
      /\ tokenNet'[r] = IF profile[r].playground THEN tokenNet[r] ELSE tokenNet[r] - sess[r].tokenConsumed
      /\ UNCHANGED <<profile[r], rpc[r], walletNet[r], subNet[r], due[r], impaired[r]>>
  BY <1>1, <1>2 DEF RollbackToken, RolledBack, Refuse, ChargeToken, TypeOK
<1>4. /\ sess'[r] \in SessionType
  BY <1>1, <1>2, <1>3, Entries, Blank
<1>5. Frame(r)
  BY <1>1, <1>2 DEF Frame, RollbackToken, RolledBack, Refuse, ChargeToken, TypeOK
<1>6. EntryOK(r)'
  BY <1>1, <1>2, <1>3, <1>4, Entries, AmountsAssumption DEF EntryOK, PCs, OpeningPCs, RPCs
<1>7. RestOK' /\ WithinTotal'
  BY <1>1, <1>2, AmountsAssumption, BoundsAssumption DEF RestOK, WithinTotal, TypeOK, RollbackToken, RolledBack, Refuse, ChargeToken
<1>8. TypeOK' BY <1>1, <1>5, <1>6, <1>7, TypeByFrame
<1>9. LedgerExact(r)'
  BY <1>1, <1>2, <1>3, <1>4, <1>6, Entries, Blank
  DEF RInv, EntryOK, LedgerExact, LedgerCovers, SessionShape, Alive, FundingHeld, FundingDue, TokenHeld, TokenDue, OpeningPCs
<1>10. LedgerCovers(r)'
  BY <1>1, <1>2, <1>3, <1>4, <1>6, Entries, Blank
  DEF RInv, EntryOK, LedgerCovers, SessionShape, FundingHeld, TokenHeld, OpeningPCs
<1>11. SessionShape(r)'
  BY <1>1, <1>2, <1>3, <1>4, <1>6, Entries, Blank
  DEF RInv, EntryOK, SessionShape, OpeningPCs, Want
<1> QED BY <1>8, <1>5, <1>7, <1>9, <1>10, <1>11 DEF Preserves, RInv

\* RollbackTokenFails keeps the invariant of its request and its frame.
LEMMA RollbackTokenFailsStep ==
  ASSUME IInv, NEW r \in Requests, RollbackTokenFails(r)
  PROVE  Preserves(r)
<1>1. TypeOK /\ WithinTotal /\ RInv(r) BY DEF IInv, RInv
<1>2. sess[r].tokenConsumed \in Nat
  BY <1>1, Entries DEF SessionType
<1>3. /\ pc[r] \in {"rollback", "rollbackShort"}
      /\ pc'[r] \in {"fallbackWallet", "done"}
      /\ sess'[r] = NoSession
      /\ impaired'[r] = TRUE
      /\ UNCHANGED <<profile[r], rpc[r], walletNet[r], tokenNet[r], subNet[r], due[r]>>
  BY <1>1, <1>2 DEF RollbackTokenFails, RolledBack, Refuse, TypeOK
<1>4. /\ sess'[r] \in SessionType
  BY <1>1, <1>2, <1>3, Entries, Blank
<1>5. Frame(r)
  BY <1>1, <1>2 DEF Frame, RollbackTokenFails, RolledBack, Refuse, TypeOK
<1>6. EntryOK(r)'
  BY <1>1, <1>2, <1>3, <1>4, Entries, AmountsAssumption DEF EntryOK, PCs, OpeningPCs, RPCs
<1>7. RestOK' /\ WithinTotal'
  BY <1>1, <1>2, AmountsAssumption, BoundsAssumption DEF RestOK, WithinTotal, TypeOK, RollbackTokenFails, RolledBack, Refuse
<1>8. TypeOK' BY <1>1, <1>5, <1>6, <1>7, TypeByFrame
<1>9. LedgerExact(r)'
  BY <1>1, <1>2, <1>3, <1>4, <1>6, Entries, Blank
  DEF RInv, EntryOK, LedgerExact, LedgerCovers, SessionShape, Alive, FundingHeld, FundingDue, TokenHeld, TokenDue, OpeningPCs
<1>10. LedgerCovers(r)'
  BY <1>1, <1>2, <1>3, <1>4, <1>6, Entries, Blank
  DEF RInv, EntryOK, LedgerCovers, SessionShape, FundingHeld, TokenHeld, OpeningPCs
<1>11. SessionShape(r)'
  BY <1>1, <1>2, <1>3, <1>4, <1>6, Entries, Blank
  DEF RInv, EntryOK, SessionShape, OpeningPCs, Want
<1> QED BY <1>8, <1>5, <1>7, <1>9, <1>10, <1>11 DEF Preserves, RInv

-----------------------------------------------------------------------------
(* Settling a session. *)

\* Serve keeps the invariant of its request and its frame.
LEMMA ServeStep ==
  ASSUME IInv, NEW r \in Requests, NEW a \in Actuals, Serve(r, a)
  PROVE  Preserves(r)
<1>1. TypeOK /\ WithinTotal /\ RInv(r) BY DEF IInv, RInv
<1>2. /\ pc[r] = "held"
      /\ pc'[r] = "settle"
      /\ due'[r] = a
      /\ UNCHANGED <<profile[r], rpc[r], sess[r], walletNet[r], tokenNet[r], subNet[r], impaired[r]>>
  BY <1>1 DEF Serve, TypeOK
<1>3. Frame(r)
  BY <1>1 DEF Frame, Serve, TypeOK
<1>4. EntryOK(r)'
  BY <1>1, <1>2, Entries, AmountsAssumption DEF EntryOK, PCs, OpeningPCs, RPCs
<1>5. RestOK' /\ WithinTotal'
  BY <1>1, AmountsAssumption, BoundsAssumption DEF RestOK, WithinTotal, TypeOK, Serve
<1>6. TypeOK' BY <1>1, <1>3, <1>4, <1>5, TypeByFrame
<1>7. LedgerExact(r)'
  BY <1>1, <1>2, <1>4, Entries, Blank
  DEF RInv, EntryOK, LedgerExact, LedgerCovers, SessionShape, Alive, FundingHeld, FundingDue, TokenHeld, TokenDue, OpeningPCs
<1>8. LedgerCovers(r)'
  BY <1>1, <1>2, <1>4, Entries, Blank
  DEF RInv, EntryOK, LedgerCovers, SessionShape, FundingHeld, TokenHeld, OpeningPCs
<1>9. SessionShape(r)'
  BY <1>1, <1>2, <1>4, Entries, Blank
  DEF RInv, EntryOK, SessionShape, OpeningPCs, Want
<1> QED BY <1>6, <1>3, <1>5, <1>7, <1>8, <1>9 DEF Preserves, RInv

\* SettleEven keeps the invariant of its request and its frame.
LEMMA SettleEvenStep ==
  ASSUME IInv, NEW r \in Requests, SettleEven(r)
  PROVE  Preserves(r)
<1>1. TypeOK /\ WithinTotal /\ RInv(r) BY DEF IInv, RInv
<1>2. sess[r].pre \in Nat /\ sess[r].funded \in Nat /\ sess[r].tokenConsumed \in Nat /\ due[r] \in Nat
  BY <1>1, Entries DEF SessionType
<1>3. /\ pc[r] = "settle"
      /\ due[r] = sess[r].pre
      /\ pc'[r] = "done"
      /\ sess'[r] = [sess[r] EXCEPT !.settled = TRUE]
      /\ UNCHANGED <<profile[r], rpc[r], walletNet[r], tokenNet[r], subNet[r], due[r], impaired[r]>>
  BY <1>1, <1>2 DEF SettleEven, Delta, UnchangedBySettle, TypeOK
<1>4. /\ sess'[r] \in SessionType
      /\ sess'[r].source = sess[r].source
      /\ sess'[r].pre = sess[r].pre
      /\ sess'[r].funded = sess[r].funded
      /\ sess'[r].tokenConsumed = sess[r].tokenConsumed
  BY <1>1, <1>2, <1>3, Entries, Blank DEF SessionType
<1>5. Frame(r)
  BY <1>1, <1>2 DEF Frame, SettleEven, Delta, UnchangedBySettle, TypeOK
<1>6. EntryOK(r)'
  BY <1>1, <1>2, <1>3, <1>4, Entries, AmountsAssumption DEF EntryOK, PCs, OpeningPCs, RPCs
<1>7. RestOK' /\ WithinTotal'
  BY <1>1, <1>2, AmountsAssumption, BoundsAssumption DEF RestOK, WithinTotal, TypeOK, SettleEven, Delta, UnchangedBySettle
<1>8. TypeOK' BY <1>1, <1>5, <1>6, <1>7, TypeByFrame
<1>9. LedgerExact(r)'
  BY <1>1, <1>2, <1>3, <1>4, <1>6, Entries, Blank
  DEF RInv, EntryOK, LedgerExact, LedgerCovers, SessionShape, Alive, FundingHeld, FundingDue, TokenHeld, TokenDue, OpeningPCs
<1>10. LedgerCovers(r)'
  BY <1>1, <1>2, <1>3, <1>4, <1>6, Entries, Blank
  DEF RInv, EntryOK, LedgerCovers, SessionShape, FundingHeld, TokenHeld, OpeningPCs
<1>11. SessionShape(r)'
  BY <1>1, <1>2, <1>3, <1>4, <1>6, Entries, Blank
  DEF RInv, EntryOK, SessionShape, OpeningPCs, Want
<1> QED BY <1>8, <1>5, <1>7, <1>9, <1>10, <1>11 DEF Preserves, RInv

\* SettleWallet keeps the invariant of its request and its frame.
LEMMA SettleWalletStep ==
  ASSUME IInv, NEW r \in Requests, SettleWallet(r)
  PROVE  Preserves(r)
<1>1. TypeOK /\ WithinTotal /\ RInv(r) BY DEF IInv, RInv
<1>2. sess[r].pre \in Nat /\ sess[r].funded \in Nat /\ sess[r].tokenConsumed \in Nat /\ due[r] \in Nat
  BY <1>1, Entries DEF SessionType
<1>3. /\ pc[r] = "settle"
      /\ sess[r].source = "wallet"
      /\ pc'[r] = "settleToken"
      /\ sess'[r] = [sess[r] EXCEPT !.fundingSettled = TRUE]
      /\ walletNet'[r] = walletNet[r] + (due[r] - sess[r].pre)
      /\ UNCHANGED <<profile[r], rpc[r], tokenNet[r], subNet[r], due[r], impaired[r]>>
  BY <1>1, <1>2 DEF SettleWallet, ChargeWallet, Delta, UnchangedBySettle, TypeOK
<1>4. /\ sess'[r] \in SessionType
      /\ sess'[r].source = sess[r].source
      /\ sess'[r].pre = sess[r].pre
      /\ sess'[r].funded = sess[r].funded
      /\ sess'[r].tokenConsumed = sess[r].tokenConsumed
  BY <1>1, <1>2, <1>3, Entries, Blank DEF SessionType
<1>5. Frame(r)
  BY <1>1, <1>2 DEF Frame, SettleWallet, ChargeWallet, Delta, UnchangedBySettle, TypeOK
<1>6. EntryOK(r)'
  BY <1>1, <1>2, <1>3, <1>4, Entries, AmountsAssumption DEF EntryOK, PCs, OpeningPCs, RPCs
<1>7. RestOK' /\ WithinTotal'
  BY <1>1, <1>2, AmountsAssumption, BoundsAssumption DEF RestOK, WithinTotal, TypeOK, SettleWallet, ChargeWallet, Delta, UnchangedBySettle
<1>8. TypeOK' BY <1>1, <1>5, <1>6, <1>7, TypeByFrame
<1>9. LedgerExact(r)'
  BY <1>1, <1>2, <1>3, <1>4, <1>6, Entries, Blank
  DEF RInv, EntryOK, LedgerExact, LedgerCovers, SessionShape, Alive, FundingHeld, FundingDue, TokenHeld, TokenDue, OpeningPCs
<1>10. LedgerCovers(r)'
  BY <1>1, <1>2, <1>3, <1>4, <1>6, Entries, Blank
  DEF RInv, EntryOK, LedgerCovers, SessionShape, FundingHeld, TokenHeld, OpeningPCs
<1>11. SessionShape(r)'
  BY <1>1, <1>2, <1>3, <1>4, <1>6, Entries, Blank
  DEF RInv, EntryOK, SessionShape, OpeningPCs, Want
<1> QED BY <1>8, <1>5, <1>7, <1>9, <1>10, <1>11 DEF Preserves, RInv

\* SettleSubscription keeps the invariant of its request and its frame.
LEMMA SettleSubscriptionStep ==
  ASSUME IInv, NEW r \in Requests, SettleSubscription(r)
  PROVE  Preserves(r)
<1>1. TypeOK /\ WithinTotal /\ RInv(r) BY DEF IInv, RInv
<1>2. sess[r].pre \in Nat /\ sess[r].funded \in Nat /\ sess[r].tokenConsumed \in Nat /\ due[r] \in Nat
  BY <1>1, Entries DEF SessionType
<1>3. /\ pc[r] = "settle"
      /\ sess[r].source = "subscription"
      /\ pc'[r] = "settleToken"
      /\ sess'[r] = [sess[r] EXCEPT !.fundingSettled = TRUE]
      /\ subNet'[r] = subNet[r] + (due[r] - sess[r].pre)
      /\ UNCHANGED <<profile[r], rpc[r], walletNet[r], tokenNet[r], due[r], impaired[r]>>
  BY <1>1, <1>2 DEF SettleSubscription, ChargeSubscription, Delta, UnchangedBySettle, TypeOK
<1>4. /\ sess'[r] \in SessionType
      /\ sess'[r].source = sess[r].source
      /\ sess'[r].pre = sess[r].pre
      /\ sess'[r].funded = sess[r].funded
      /\ sess'[r].tokenConsumed = sess[r].tokenConsumed
  BY <1>1, <1>2, <1>3, Entries, Blank DEF SessionType
<1>5. Frame(r)
  BY <1>1, <1>2 DEF Frame, SettleSubscription, ChargeSubscription, Delta, UnchangedBySettle, TypeOK
<1>6. EntryOK(r)'
  BY <1>1, <1>2, <1>3, <1>4, Entries, AmountsAssumption DEF EntryOK, PCs, OpeningPCs, RPCs
<1>7. RestOK' /\ WithinTotal'
  BY <1>1, <1>2, AmountsAssumption, BoundsAssumption DEF RestOK, WithinTotal, TypeOK, SettleSubscription, ChargeSubscription, Delta, UnchangedBySettle, UsedAfter, DeltaAccepted
<1>8. TypeOK' BY <1>1, <1>5, <1>6, <1>7, TypeByFrame
<1>9. LedgerExact(r)'
  BY <1>1, <1>2, <1>3, <1>4, <1>6, Entries, Blank
  DEF RInv, EntryOK, LedgerExact, LedgerCovers, SessionShape, Alive, FundingHeld, FundingDue, TokenHeld, TokenDue, OpeningPCs
<1>10. LedgerCovers(r)'
  BY <1>1, <1>2, <1>3, <1>4, <1>6, Entries, Blank
  DEF RInv, EntryOK, LedgerCovers, SessionShape, FundingHeld, TokenHeld, OpeningPCs
<1>11. SessionShape(r)'
  BY <1>1, <1>2, <1>3, <1>4, <1>6, Entries, Blank
  DEF RInv, EntryOK, SessionShape, OpeningPCs, Want
<1> QED BY <1>8, <1>5, <1>7, <1>9, <1>10, <1>11 DEF Preserves, RInv

\* SettleRefused keeps the invariant of its request and its frame.
LEMMA SettleRefusedStep ==
  ASSUME IInv, NEW r \in Requests, SettleRefused(r)
  PROVE  Preserves(r)
<1>1. TypeOK /\ WithinTotal /\ RInv(r) BY DEF IInv, RInv
<1>2. sess[r].pre \in Nat /\ sess[r].funded \in Nat /\ sess[r].tokenConsumed \in Nat /\ due[r] \in Nat
  BY <1>1, Entries DEF SessionType
<1>3. /\ pc[r] = "settle"
      /\ sess[r].source = "subscription"
      /\ pc'[r] = "done"
      /\ due'[r] = sess[r].pre
      /\ UNCHANGED <<profile[r], rpc[r], sess[r], walletNet[r], tokenNet[r], subNet[r], impaired[r]>>
  BY <1>1, <1>2 DEF SettleRefused, Delta, UnchangedBySettle, TypeOK
<1>4. Frame(r)
  BY <1>1, <1>2 DEF Frame, SettleRefused, Delta, UnchangedBySettle, TypeOK
<1>5. EntryOK(r)'
  BY <1>1, <1>2, <1>3, Entries, AmountsAssumption DEF EntryOK, PCs, OpeningPCs, RPCs
<1>6. RestOK' /\ WithinTotal'
  BY <1>1, <1>2, AmountsAssumption, BoundsAssumption DEF RestOK, WithinTotal, TypeOK, SettleRefused, Delta, UnchangedBySettle
<1>7. TypeOK' BY <1>1, <1>4, <1>5, <1>6, TypeByFrame
<1>8. LedgerExact(r)'
  BY <1>1, <1>2, <1>3, <1>5, Entries, Blank
  DEF RInv, EntryOK, LedgerExact, LedgerCovers, SessionShape, Alive, FundingHeld, FundingDue, TokenHeld, TokenDue, OpeningPCs
<1>9. LedgerCovers(r)'
  BY <1>1, <1>2, <1>3, <1>5, Entries, Blank
  DEF RInv, EntryOK, LedgerCovers, SessionShape, FundingHeld, TokenHeld, OpeningPCs
<1>10. SessionShape(r)'
  BY <1>1, <1>2, <1>3, <1>5, Entries, Blank
  DEF RInv, EntryOK, SessionShape, OpeningPCs, Want
<1> QED BY <1>7, <1>4, <1>6, <1>8, <1>9, <1>10 DEF Preserves, RInv

\* SettleFails keeps the invariant of its request and its frame.
LEMMA SettleFailsStep ==
  ASSUME IInv, NEW r \in Requests, SettleFails(r)
  PROVE  Preserves(r)
<1>1. TypeOK /\ WithinTotal /\ RInv(r) BY DEF IInv, RInv
<1>2. sess[r].pre \in Nat /\ sess[r].funded \in Nat /\ sess[r].tokenConsumed \in Nat /\ due[r] \in Nat
  BY <1>1, Entries DEF SessionType
<1>3. /\ pc[r] = "settle"
      /\ pc'[r] = "done"
      /\ impaired'[r] = TRUE
      /\ UNCHANGED <<profile[r], rpc[r], sess[r], walletNet[r], tokenNet[r], subNet[r], due[r]>>
  BY <1>1, <1>2 DEF SettleFails, Delta, UnchangedBySettle, TypeOK
<1>4. Frame(r)
  BY <1>1, <1>2 DEF Frame, SettleFails, Delta, UnchangedBySettle, TypeOK
<1>5. EntryOK(r)'
  BY <1>1, <1>2, <1>3, Entries, AmountsAssumption DEF EntryOK, PCs, OpeningPCs, RPCs
<1>6. RestOK' /\ WithinTotal'
  BY <1>1, <1>2, AmountsAssumption, BoundsAssumption DEF RestOK, WithinTotal, TypeOK, SettleFails, Delta, UnchangedBySettle
<1>7. TypeOK' BY <1>1, <1>4, <1>5, <1>6, TypeByFrame
<1>8. LedgerExact(r)'
  BY <1>1, <1>2, <1>3, <1>5, Entries, Blank
  DEF RInv, EntryOK, LedgerExact, LedgerCovers, SessionShape, Alive, FundingHeld, FundingDue, TokenHeld, TokenDue, OpeningPCs
<1>9. LedgerCovers(r)'
  BY <1>1, <1>2, <1>3, <1>5, Entries, Blank
  DEF RInv, EntryOK, LedgerCovers, SessionShape, FundingHeld, TokenHeld, OpeningPCs
<1>10. SessionShape(r)'
  BY <1>1, <1>2, <1>3, <1>5, Entries, Blank
  DEF RInv, EntryOK, SessionShape, OpeningPCs, Want
<1> QED BY <1>7, <1>4, <1>6, <1>8, <1>9, <1>10 DEF Preserves, RInv

\* SettleToken keeps the invariant of its request and its frame.
LEMMA SettleTokenStep ==
  ASSUME IInv, NEW r \in Requests, SettleToken(r)
  PROVE  Preserves(r)
<1>1. TypeOK /\ WithinTotal /\ RInv(r) BY DEF IInv, RInv
<1>2. sess[r].pre \in Nat /\ sess[r].funded \in Nat /\ sess[r].tokenConsumed \in Nat /\ due[r] \in Nat
  BY <1>1, Entries DEF SessionType
<1>3. /\ pc[r] = "settleToken"
      /\ pc'[r] = "done"
      /\ sess'[r] = [sess[r] EXCEPT !.settled = TRUE]
      /\ tokenNet'[r] = IF profile[r].playground THEN tokenNet[r] ELSE tokenNet[r] + (due[r] - sess[r].pre)
      /\ UNCHANGED <<profile[r], rpc[r], walletNet[r], subNet[r], due[r], impaired[r]>>
  BY <1>1, <1>2 DEF SettleToken, ChargeToken, Delta, UnchangedBySettle, TypeOK
<1>4. /\ sess'[r] \in SessionType
      /\ sess'[r].source = sess[r].source
      /\ sess'[r].pre = sess[r].pre
      /\ sess'[r].funded = sess[r].funded
      /\ sess'[r].tokenConsumed = sess[r].tokenConsumed
  BY <1>1, <1>2, <1>3, Entries, Blank DEF SessionType
<1>5. Frame(r)
  BY <1>1, <1>2 DEF Frame, SettleToken, ChargeToken, Delta, UnchangedBySettle, TypeOK
<1>6. EntryOK(r)'
  BY <1>1, <1>2, <1>3, <1>4, Entries, AmountsAssumption DEF EntryOK, PCs, OpeningPCs, RPCs
<1>7. RestOK' /\ WithinTotal'
  BY <1>1, <1>2, AmountsAssumption, BoundsAssumption DEF RestOK, WithinTotal, TypeOK, SettleToken, ChargeToken, Delta, UnchangedBySettle
<1>8. TypeOK' BY <1>1, <1>5, <1>6, <1>7, TypeByFrame
<1>9. LedgerExact(r)'
  BY <1>1, <1>2, <1>3, <1>4, <1>6, Entries, Blank
  DEF RInv, EntryOK, LedgerExact, LedgerCovers, SessionShape, Alive, FundingHeld, FundingDue, TokenHeld, TokenDue, OpeningPCs
<1>10. LedgerCovers(r)'
  BY <1>1, <1>2, <1>3, <1>4, <1>6, Entries, Blank
  DEF RInv, EntryOK, LedgerCovers, SessionShape, FundingHeld, TokenHeld, OpeningPCs
<1>11. SessionShape(r)'
  BY <1>1, <1>2, <1>3, <1>4, <1>6, Entries, Blank
  DEF RInv, EntryOK, SessionShape, OpeningPCs, Want
<1> QED BY <1>8, <1>5, <1>7, <1>9, <1>10, <1>11 DEF Preserves, RInv

\* SettleTokenFails keeps the invariant of its request and its frame.
LEMMA SettleTokenFailsStep ==
  ASSUME IInv, NEW r \in Requests, SettleTokenFails(r)
  PROVE  Preserves(r)
<1>1. TypeOK /\ WithinTotal /\ RInv(r) BY DEF IInv, RInv
<1>2. sess[r].pre \in Nat /\ sess[r].funded \in Nat /\ sess[r].tokenConsumed \in Nat /\ due[r] \in Nat
  BY <1>1, Entries DEF SessionType
<1>3. /\ pc[r] = "settleToken"
      /\ pc'[r] = "done"
      /\ sess'[r] = [sess[r] EXCEPT !.settled = TRUE]
      /\ impaired'[r] = TRUE
      /\ UNCHANGED <<profile[r], rpc[r], walletNet[r], tokenNet[r], subNet[r], due[r]>>
  BY <1>1, <1>2 DEF SettleTokenFails, UnchangedBySettle, TypeOK
<1>4. /\ sess'[r] \in SessionType
      /\ sess'[r].source = sess[r].source
      /\ sess'[r].pre = sess[r].pre
      /\ sess'[r].funded = sess[r].funded
      /\ sess'[r].tokenConsumed = sess[r].tokenConsumed
  BY <1>1, <1>2, <1>3, Entries, Blank DEF SessionType
<1>5. Frame(r)
  BY <1>1, <1>2 DEF Frame, SettleTokenFails, UnchangedBySettle, TypeOK
<1>6. EntryOK(r)'
  BY <1>1, <1>2, <1>3, <1>4, Entries, AmountsAssumption DEF EntryOK, PCs, OpeningPCs, RPCs
<1>7. RestOK' /\ WithinTotal'
  BY <1>1, <1>2, AmountsAssumption, BoundsAssumption DEF RestOK, WithinTotal, TypeOK, SettleTokenFails, UnchangedBySettle
<1>8. TypeOK' BY <1>1, <1>5, <1>6, <1>7, TypeByFrame
<1>9. LedgerExact(r)'
  BY <1>1, <1>2, <1>3, <1>4, <1>6, Entries, Blank
  DEF RInv, EntryOK, LedgerExact, LedgerCovers, SessionShape, Alive, FundingHeld, FundingDue, TokenHeld, TokenDue, OpeningPCs
<1>10. LedgerCovers(r)'
  BY <1>1, <1>2, <1>3, <1>4, <1>6, Entries, Blank
  DEF RInv, EntryOK, LedgerCovers, SessionShape, FundingHeld, TokenHeld, OpeningPCs
<1>11. SessionShape(r)'
  BY <1>1, <1>2, <1>3, <1>4, <1>6, Entries, Blank
  DEF RInv, EntryOK, SessionShape, OpeningPCs, Want
<1> QED BY <1>8, <1>5, <1>7, <1>9, <1>10, <1>11 DEF Preserves, RInv

-----------------------------------------------------------------------------
(* Failing, and the violation fee. *)

\* Fail keeps the invariant of its request and its frame.
LEMMA FailStep ==
  ASSUME IInv, NEW r \in Requests, NEW f \in Fees, Fail(r, f)
  PROVE  Preserves(r)
<1>1. TypeOK /\ WithinTotal /\ RInv(r) BY DEF IInv, RInv
<1>2. sess[r].pre \in Nat /\ sess[r].funded \in Nat /\ sess[r].tokenConsumed \in Nat /\ due[r] \in Nat
  BY <1>1, Entries DEF SessionType
<1>3. ~NeedsRefund(r) => sess[r].tokenConsumed = 0 /\ sess[r].funded = 0
  BY <1>1, <1>2 DEF Fail, RInv, SessionShape, NeedsRefund, Unflagged
<1>4. /\ pc[r] = "held"
      /\ pc'[r] \in {"done", "fee"}
      /\ pc'[r] = "done" => f = 0
      /\ due'[r] = f
      /\ \/ NeedsRefund(r) /\ rpc'[r] = "funding" /\ sess'[r] = [sess[r] EXCEPT !.refunded = TRUE]
         \/ ~NeedsRefund(r) /\ rpc'[r] = rpc[r] /\ sess'[r] = sess[r]
      /\ UNCHANGED <<profile[r], walletNet[r], tokenNet[r], subNet[r], impaired[r]>>
  BY <1>1, <1>2, <1>3 DEF Fail, TypeOK
<1>5. /\ sess'[r] \in SessionType
      /\ sess'[r].source = sess[r].source
      /\ sess'[r].pre = sess[r].pre
      /\ sess'[r].funded = sess[r].funded
      /\ sess'[r].tokenConsumed = sess[r].tokenConsumed
  BY <1>1, <1>2, <1>3, <1>4, Entries, Blank DEF SessionType
<1>6. Frame(r)
  BY <1>1, <1>2, <1>3 DEF Frame, Fail, TypeOK
<1>7. EntryOK(r)'
  BY <1>1, <1>2, <1>3, <1>4, <1>5, Entries, AmountsAssumption DEF EntryOK, PCs, OpeningPCs, RPCs
<1>8. RestOK' /\ WithinTotal'
  BY <1>1, <1>2, <1>3, AmountsAssumption, BoundsAssumption DEF RestOK, WithinTotal, TypeOK, Fail
<1>9. TypeOK' BY <1>1, <1>6, <1>7, <1>8, TypeByFrame
<1>10. LedgerExact(r)'
  BY <1>1, <1>2, <1>3, <1>4, <1>5, <1>7, Entries, Blank
  DEF RInv, EntryOK, LedgerExact, LedgerCovers, SessionShape, Alive, FundingHeld, FundingDue, TokenHeld, TokenDue, OpeningPCs
<1>11. LedgerCovers(r)'
  BY <1>1, <1>2, <1>3, <1>4, <1>5, <1>7, Entries, Blank
  DEF RInv, EntryOK, LedgerCovers, SessionShape, FundingHeld, TokenHeld, OpeningPCs
<1>12. SessionShape(r)'
  BY <1>1, <1>2, <1>3, <1>4, <1>5, <1>7, Entries, Blank
  DEF RInv, EntryOK, SessionShape, OpeningPCs, Want
<1> QED BY <1>9, <1>6, <1>8, <1>10, <1>11, <1>12 DEF Preserves, RInv

\* FeeWallet keeps the invariant of its request and its frame.
LEMMA FeeWalletStep ==
  ASSUME IInv, NEW r \in Requests, FeeWallet(r)
  PROVE  Preserves(r)
<1>1. TypeOK /\ WithinTotal /\ RInv(r) BY DEF IInv, RInv
<1>2. sess[r].pre \in Nat /\ sess[r].funded \in Nat /\ sess[r].tokenConsumed \in Nat /\ due[r] \in Nat
  BY <1>1, Entries DEF SessionType
<1>3. /\ pc[r] = "fee"
      /\ sess[r].source = "wallet"
      /\ pc'[r] = "feeToken"
      /\ walletNet'[r] = walletNet[r] + due[r]
      /\ UNCHANGED <<profile[r], rpc[r], sess[r], tokenNet[r], subNet[r], due[r], impaired[r]>>
  BY <1>1, <1>2 DEF FeeWallet, ChargeWallet, UnchangedByFee, TypeOK
<1>4. Frame(r)
  BY <1>1, <1>2 DEF Frame, FeeWallet, ChargeWallet, UnchangedByFee, TypeOK
<1>5. EntryOK(r)'
  BY <1>1, <1>2, <1>3, Entries, AmountsAssumption DEF EntryOK, PCs, OpeningPCs, RPCs
<1>6. RestOK' /\ WithinTotal'
  BY <1>1, <1>2, AmountsAssumption, BoundsAssumption DEF RestOK, WithinTotal, TypeOK, FeeWallet, ChargeWallet, UnchangedByFee
<1>7. TypeOK' BY <1>1, <1>4, <1>5, <1>6, TypeByFrame
<1>8. LedgerExact(r)'
  BY <1>1, <1>2, <1>3, <1>5, Entries, Blank
  DEF RInv, EntryOK, LedgerExact, LedgerCovers, SessionShape, Alive, FundingHeld, FundingDue, TokenHeld, TokenDue, OpeningPCs
<1>9. LedgerCovers(r)'
  BY <1>1, <1>2, <1>3, <1>5, Entries, Blank
  DEF RInv, EntryOK, LedgerCovers, SessionShape, FundingHeld, TokenHeld, OpeningPCs
<1>10. SessionShape(r)'
  BY <1>1, <1>2, <1>3, <1>5, Entries, Blank
  DEF RInv, EntryOK, SessionShape, OpeningPCs, Want
<1> QED BY <1>7, <1>4, <1>6, <1>8, <1>9, <1>10 DEF Preserves, RInv

\* FeeSubscription keeps the invariant of its request and its frame.
LEMMA FeeSubscriptionStep ==
  ASSUME IInv, NEW r \in Requests, FeeSubscription(r)
  PROVE  Preserves(r)
<1>1. TypeOK /\ WithinTotal /\ RInv(r) BY DEF IInv, RInv
<1>2. sess[r].pre \in Nat /\ sess[r].funded \in Nat /\ sess[r].tokenConsumed \in Nat /\ due[r] \in Nat
  BY <1>1, Entries DEF SessionType
<1>3. /\ pc[r] = "fee"
      /\ sess[r].source = "subscription"
      /\ pc'[r] = "feeToken"
      /\ subNet'[r] = subNet[r] + due[r]
      /\ UNCHANGED <<profile[r], rpc[r], sess[r], walletNet[r], tokenNet[r], due[r], impaired[r]>>
  BY <1>1, <1>2 DEF FeeSubscription, ChargeSubscription, UnchangedByFee, TypeOK
<1>4. Frame(r)
  BY <1>1, <1>2 DEF Frame, FeeSubscription, ChargeSubscription, UnchangedByFee, TypeOK
<1>5. EntryOK(r)'
  BY <1>1, <1>2, <1>3, Entries, AmountsAssumption DEF EntryOK, PCs, OpeningPCs, RPCs
<1>6. RestOK' /\ WithinTotal'
  BY <1>1, <1>2, AmountsAssumption, BoundsAssumption DEF RestOK, WithinTotal, TypeOK, FeeSubscription, ChargeSubscription, UnchangedByFee, UsedAfter, DeltaAccepted
<1>7. TypeOK' BY <1>1, <1>4, <1>5, <1>6, TypeByFrame
<1>8. LedgerExact(r)'
  BY <1>1, <1>2, <1>3, <1>5, Entries, Blank
  DEF RInv, EntryOK, LedgerExact, LedgerCovers, SessionShape, Alive, FundingHeld, FundingDue, TokenHeld, TokenDue, OpeningPCs
<1>9. LedgerCovers(r)'
  BY <1>1, <1>2, <1>3, <1>5, Entries, Blank
  DEF RInv, EntryOK, LedgerCovers, SessionShape, FundingHeld, TokenHeld, OpeningPCs
<1>10. SessionShape(r)'
  BY <1>1, <1>2, <1>3, <1>5, Entries, Blank
  DEF RInv, EntryOK, SessionShape, OpeningPCs, Want
<1> QED BY <1>7, <1>4, <1>6, <1>8, <1>9, <1>10 DEF Preserves, RInv

\* FeeWaived keeps the invariant of its request and its frame.
LEMMA FeeWaivedStep ==
  ASSUME IInv, NEW r \in Requests, FeeWaived(r)
  PROVE  Preserves(r)
<1>1. TypeOK /\ WithinTotal /\ RInv(r) BY DEF IInv, RInv
<1>2. sess[r].pre \in Nat /\ sess[r].funded \in Nat /\ sess[r].tokenConsumed \in Nat /\ due[r] \in Nat
  BY <1>1, Entries DEF SessionType
<1>3. /\ pc[r] = "fee"
      /\ pc'[r] = "done"
      /\ due'[r] = 0
      /\ UNCHANGED <<profile[r], rpc[r], sess[r], walletNet[r], tokenNet[r], subNet[r], impaired[r]>>
  BY <1>1, <1>2 DEF FeeWaived, UnchangedByFee, TypeOK
<1>4. Frame(r)
  BY <1>1, <1>2 DEF Frame, FeeWaived, UnchangedByFee, TypeOK
<1>5. EntryOK(r)'
  BY <1>1, <1>2, <1>3, Entries, AmountsAssumption DEF EntryOK, PCs, OpeningPCs, RPCs
<1>6. RestOK' /\ WithinTotal'
  BY <1>1, <1>2, AmountsAssumption, BoundsAssumption DEF RestOK, WithinTotal, TypeOK, FeeWaived, UnchangedByFee
<1>7. TypeOK' BY <1>1, <1>4, <1>5, <1>6, TypeByFrame
<1>8. LedgerExact(r)'
  BY <1>1, <1>2, <1>3, <1>5, Entries, Blank
  DEF RInv, EntryOK, LedgerExact, LedgerCovers, SessionShape, Alive, FundingHeld, FundingDue, TokenHeld, TokenDue, OpeningPCs
<1>9. LedgerCovers(r)'
  BY <1>1, <1>2, <1>3, <1>5, Entries, Blank
  DEF RInv, EntryOK, LedgerCovers, SessionShape, FundingHeld, TokenHeld, OpeningPCs
<1>10. SessionShape(r)'
  BY <1>1, <1>2, <1>3, <1>5, Entries, Blank
  DEF RInv, EntryOK, SessionShape, OpeningPCs, Want
<1> QED BY <1>7, <1>4, <1>6, <1>8, <1>9, <1>10 DEF Preserves, RInv

\* FeeToken keeps the invariant of its request and its frame.
LEMMA FeeTokenStep ==
  ASSUME IInv, NEW r \in Requests, FeeToken(r)
  PROVE  Preserves(r)
<1>1. TypeOK /\ WithinTotal /\ RInv(r) BY DEF IInv, RInv
<1>2. sess[r].pre \in Nat /\ sess[r].funded \in Nat /\ sess[r].tokenConsumed \in Nat /\ due[r] \in Nat
  BY <1>1, Entries DEF SessionType
<1>3. /\ pc[r] = "feeToken"
      /\ pc'[r] = "done"
      /\ tokenNet'[r] = IF profile[r].playground THEN tokenNet[r] ELSE tokenNet[r] + due[r]
      /\ UNCHANGED <<profile[r], rpc[r], sess[r], walletNet[r], subNet[r], due[r], impaired[r]>>
  BY <1>1, <1>2 DEF FeeToken, ChargeToken, UnchangedByFee, TypeOK
<1>4. Frame(r)
  BY <1>1, <1>2 DEF Frame, FeeToken, ChargeToken, UnchangedByFee, TypeOK
<1>5. EntryOK(r)'
  BY <1>1, <1>2, <1>3, Entries, AmountsAssumption DEF EntryOK, PCs, OpeningPCs, RPCs
<1>6. RestOK' /\ WithinTotal'
  BY <1>1, <1>2, AmountsAssumption, BoundsAssumption DEF RestOK, WithinTotal, TypeOK, FeeToken, ChargeToken, UnchangedByFee
<1>7. TypeOK' BY <1>1, <1>4, <1>5, <1>6, TypeByFrame
<1>8. LedgerExact(r)'
  BY <1>1, <1>2, <1>3, <1>5, Entries, Blank
  DEF RInv, EntryOK, LedgerExact, LedgerCovers, SessionShape, Alive, FundingHeld, FundingDue, TokenHeld, TokenDue, OpeningPCs
<1>9. LedgerCovers(r)'
  BY <1>1, <1>2, <1>3, <1>5, Entries, Blank
  DEF RInv, EntryOK, LedgerCovers, SessionShape, FundingHeld, TokenHeld, OpeningPCs
<1>10. SessionShape(r)'
  BY <1>1, <1>2, <1>3, <1>5, Entries, Blank
  DEF RInv, EntryOK, SessionShape, OpeningPCs, Want
<1> QED BY <1>7, <1>4, <1>6, <1>8, <1>9, <1>10 DEF Preserves, RInv

\* FeeTokenFails keeps the invariant of its request and its frame.
LEMMA FeeTokenFailsStep ==
  ASSUME IInv, NEW r \in Requests, FeeTokenFails(r)
  PROVE  Preserves(r)
<1>1. TypeOK /\ WithinTotal /\ RInv(r) BY DEF IInv, RInv
<1>2. sess[r].pre \in Nat /\ sess[r].funded \in Nat /\ sess[r].tokenConsumed \in Nat /\ due[r] \in Nat
  BY <1>1, Entries DEF SessionType
<1>3. /\ pc[r] = "feeToken"
      /\ pc'[r] = "done"
      /\ impaired'[r] = TRUE
      /\ UNCHANGED <<profile[r], rpc[r], sess[r], walletNet[r], tokenNet[r], subNet[r], due[r]>>
  BY <1>1, <1>2 DEF FeeTokenFails, UnchangedByFee, TypeOK
<1>4. Frame(r)
  BY <1>1, <1>2 DEF Frame, FeeTokenFails, UnchangedByFee, TypeOK
<1>5. EntryOK(r)'
  BY <1>1, <1>2, <1>3, Entries, AmountsAssumption DEF EntryOK, PCs, OpeningPCs, RPCs
<1>6. RestOK' /\ WithinTotal'
  BY <1>1, <1>2, AmountsAssumption, BoundsAssumption DEF RestOK, WithinTotal, TypeOK, FeeTokenFails, UnchangedByFee
<1>7. TypeOK' BY <1>1, <1>4, <1>5, <1>6, TypeByFrame
<1>8. LedgerExact(r)'
  BY <1>1, <1>2, <1>3, <1>5, Entries, Blank
  DEF RInv, EntryOK, LedgerExact, LedgerCovers, SessionShape, Alive, FundingHeld, FundingDue, TokenHeld, TokenDue, OpeningPCs
<1>9. LedgerCovers(r)'
  BY <1>1, <1>2, <1>3, <1>5, Entries, Blank
  DEF RInv, EntryOK, LedgerCovers, SessionShape, FundingHeld, TokenHeld, OpeningPCs
<1>10. SessionShape(r)'
  BY <1>1, <1>2, <1>3, <1>5, Entries, Blank
  DEF RInv, EntryOK, SessionShape, OpeningPCs, Want
<1> QED BY <1>7, <1>4, <1>6, <1>8, <1>9, <1>10 DEF Preserves, RInv

-----------------------------------------------------------------------------
(* The goroutine started by Refund. *)

\* RefundWallet keeps the invariant of its request and its frame.
LEMMA RefundWalletStep ==
  ASSUME IInv, NEW r \in Requests, RefundWallet(r)
  PROVE  Preserves(r)
<1>1. TypeOK /\ WithinTotal /\ RInv(r) BY DEF IInv, RInv
<1>2. sess[r].pre \in Nat /\ sess[r].funded \in Nat /\ sess[r].tokenConsumed \in Nat /\ due[r] \in Nat
  BY <1>1, Entries DEF SessionType
<1>3. /\ rpc[r] = "funding"
      /\ sess[r].source = "wallet"
      /\ rpc'[r] = "token"
      /\ walletNet'[r] = walletNet[r] - sess[r].funded
      /\ UNCHANGED <<profile[r], pc[r], sess[r], tokenNet[r], subNet[r], due[r], impaired[r]>>
  BY <1>1, <1>2 DEF RefundWallet, ChargeWallet, UnchangedByRefund, TypeOK
<1>4. Frame(r)
  BY <1>1, <1>2 DEF Frame, RefundWallet, ChargeWallet, UnchangedByRefund, TypeOK
<1>5. EntryOK(r)'
  BY <1>1, <1>2, <1>3, Entries, AmountsAssumption DEF EntryOK, PCs, OpeningPCs, RPCs
<1>6. RestOK' /\ WithinTotal'
  BY <1>1, <1>2, AmountsAssumption, BoundsAssumption DEF RestOK, WithinTotal, TypeOK, RefundWallet, ChargeWallet, UnchangedByRefund
<1>7. TypeOK' BY <1>1, <1>4, <1>5, <1>6, TypeByFrame
<1>8. LedgerExact(r)'
  BY <1>1, <1>2, <1>3, <1>5, Entries, Blank
  DEF RInv, EntryOK, LedgerExact, LedgerCovers, SessionShape, Alive, FundingHeld, FundingDue, TokenHeld, TokenDue, OpeningPCs
<1>9. LedgerCovers(r)'
  BY <1>1, <1>2, <1>3, <1>5, Entries, Blank
  DEF RInv, EntryOK, LedgerCovers, SessionShape, FundingHeld, TokenHeld, OpeningPCs
<1>10. SessionShape(r)'
  BY <1>1, <1>2, <1>3, <1>5, Entries, Blank
  DEF RInv, EntryOK, SessionShape, OpeningPCs, Want
<1> QED BY <1>7, <1>4, <1>6, <1>8, <1>9, <1>10 DEF Preserves, RInv

\* RefundWalletFails keeps the invariant of its request and its frame.
LEMMA RefundWalletFailsStep ==
  ASSUME IInv, NEW r \in Requests, RefundWalletFails(r)
  PROVE  Preserves(r)
<1>1. TypeOK /\ WithinTotal /\ RInv(r) BY DEF IInv, RInv
<1>2. sess[r].pre \in Nat /\ sess[r].funded \in Nat /\ sess[r].tokenConsumed \in Nat /\ due[r] \in Nat
  BY <1>1, Entries DEF SessionType
<1>3. /\ rpc[r] = "funding"
      /\ rpc'[r] = "token"
      /\ impaired'[r] = TRUE
      /\ UNCHANGED <<profile[r], pc[r], sess[r], walletNet[r], tokenNet[r], subNet[r], due[r]>>
  BY <1>1, <1>2 DEF RefundWalletFails, UnchangedByRefund, TypeOK
<1>4. Frame(r)
  BY <1>1, <1>2 DEF Frame, RefundWalletFails, UnchangedByRefund, TypeOK
<1>5. EntryOK(r)'
  BY <1>1, <1>2, <1>3, Entries, AmountsAssumption DEF EntryOK, PCs, OpeningPCs, RPCs
<1>6. RestOK' /\ WithinTotal'
  BY <1>1, <1>2, AmountsAssumption, BoundsAssumption DEF RestOK, WithinTotal, TypeOK, RefundWalletFails, UnchangedByRefund
<1>7. TypeOK' BY <1>1, <1>4, <1>5, <1>6, TypeByFrame
<1>8. LedgerExact(r)'
  BY <1>1, <1>2, <1>3, <1>5, Entries, Blank
  DEF RInv, EntryOK, LedgerExact, LedgerCovers, SessionShape, Alive, FundingHeld, FundingDue, TokenHeld, TokenDue, OpeningPCs
<1>9. LedgerCovers(r)'
  BY <1>1, <1>2, <1>3, <1>5, Entries, Blank
  DEF RInv, EntryOK, LedgerCovers, SessionShape, FundingHeld, TokenHeld, OpeningPCs
<1>10. SessionShape(r)'
  BY <1>1, <1>2, <1>3, <1>5, Entries, Blank
  DEF RInv, EntryOK, SessionShape, OpeningPCs, Want
<1> QED BY <1>7, <1>4, <1>6, <1>8, <1>9, <1>10 DEF Preserves, RInv

\* RefundSubscription keeps the invariant of its request and its frame.
LEMMA RefundSubscriptionStep ==
  ASSUME IInv, NEW r \in Requests, RefundSubscription(r)
  PROVE  Preserves(r)
<1>1. TypeOK /\ WithinTotal /\ RInv(r) BY DEF IInv, RInv
<1>2. sess[r].pre \in Nat /\ sess[r].funded \in Nat /\ sess[r].tokenConsumed \in Nat /\ due[r] \in Nat
  BY <1>1, Entries DEF SessionType
<1>3. /\ rpc[r] = "funding"
      /\ sess[r].source = "subscription"
      /\ rpc'[r] = "mark"
      /\ subNet'[r] = subNet[r] - sess[r].funded
      /\ UNCHANGED <<profile[r], pc[r], sess[r], walletNet[r], tokenNet[r], due[r], impaired[r]>>
  BY <1>1, <1>2 DEF RefundSubscription, ChargeSubscription, UnchangedByRefund, TypeOK
<1>4. Frame(r)
  BY <1>1, <1>2 DEF Frame, RefundSubscription, ChargeSubscription, UnchangedByRefund, TypeOK
<1>5. EntryOK(r)'
  BY <1>1, <1>2, <1>3, Entries, AmountsAssumption DEF EntryOK, PCs, OpeningPCs, RPCs
<1>6. RestOK' /\ WithinTotal'
  BY <1>1, <1>2, AmountsAssumption, BoundsAssumption DEF RestOK, WithinTotal, TypeOK, RefundSubscription, ChargeSubscription, UnchangedByRefund, UsedAfter, DeltaAccepted
<1>7. TypeOK' BY <1>1, <1>4, <1>5, <1>6, TypeByFrame
<1>8. LedgerExact(r)'
  BY <1>1, <1>2, <1>3, <1>5, Entries, Blank
  DEF RInv, EntryOK, LedgerExact, LedgerCovers, SessionShape, Alive, FundingHeld, FundingDue, TokenHeld, TokenDue, OpeningPCs
<1>9. LedgerCovers(r)'
  BY <1>1, <1>2, <1>3, <1>5, Entries, Blank
  DEF RInv, EntryOK, LedgerCovers, SessionShape, FundingHeld, TokenHeld, OpeningPCs
<1>10. SessionShape(r)'
  BY <1>1, <1>2, <1>3, <1>5, Entries, Blank
  DEF RInv, EntryOK, SessionShape, OpeningPCs, Want
<1> QED BY <1>7, <1>4, <1>6, <1>8, <1>9, <1>10 DEF Preserves, RInv

\* RefundMark keeps the invariant of its request and its frame.
LEMMA RefundMarkStep ==
  ASSUME IInv, NEW r \in Requests, RefundMark(r)
  PROVE  Preserves(r)
<1>1. TypeOK /\ WithinTotal /\ RInv(r) BY DEF IInv, RInv
<1>2. sess[r].pre \in Nat /\ sess[r].funded \in Nat /\ sess[r].tokenConsumed \in Nat /\ due[r] \in Nat
  BY <1>1, Entries DEF SessionType
<1>3. /\ rpc[r] = "mark"
      /\ rpc'[r] = "token"
      /\ UNCHANGED <<profile[r], pc[r], sess[r], walletNet[r], tokenNet[r], subNet[r], due[r], impaired[r]>>
  BY <1>1, <1>2 DEF RefundMark, UnchangedByRefund, TypeOK
<1>4. Frame(r)
  BY <1>1, <1>2 DEF Frame, RefundMark, UnchangedByRefund, TypeOK
<1>5. EntryOK(r)'
  BY <1>1, <1>2, <1>3, Entries, AmountsAssumption DEF EntryOK, PCs, OpeningPCs, RPCs
<1>6. RestOK' /\ WithinTotal'
  BY <1>1, <1>2, AmountsAssumption, BoundsAssumption DEF RestOK, WithinTotal, TypeOK, RefundMark, UnchangedByRefund
<1>7. TypeOK' BY <1>1, <1>4, <1>5, <1>6, TypeByFrame
<1>8. LedgerExact(r)'
  BY <1>1, <1>2, <1>3, <1>5, Entries, Blank
  DEF RInv, EntryOK, LedgerExact, LedgerCovers, SessionShape, Alive, FundingHeld, FundingDue, TokenHeld, TokenDue, OpeningPCs
<1>9. LedgerCovers(r)'
  BY <1>1, <1>2, <1>3, <1>5, Entries, Blank
  DEF RInv, EntryOK, LedgerCovers, SessionShape, FundingHeld, TokenHeld, OpeningPCs
<1>10. SessionShape(r)'
  BY <1>1, <1>2, <1>3, <1>5, Entries, Blank
  DEF RInv, EntryOK, SessionShape, OpeningPCs, Want
<1> QED BY <1>7, <1>4, <1>6, <1>8, <1>9, <1>10 DEF Preserves, RInv

\* RefundSubscriptionFails keeps the invariant of its request and its frame.
LEMMA RefundSubscriptionFailsStep ==
  ASSUME IInv, NEW r \in Requests, RefundSubscriptionFails(r)
  PROVE  Preserves(r)
<1>1. TypeOK /\ WithinTotal /\ RInv(r) BY DEF IInv, RInv
<1>2. sess[r].pre \in Nat /\ sess[r].funded \in Nat /\ sess[r].tokenConsumed \in Nat /\ due[r] \in Nat
  BY <1>1, Entries DEF SessionType
<1>3. /\ rpc[r] = "funding"
      /\ sess[r].source = "subscription"
      /\ \/ rpc'[r] = "funding" /\ impaired'[r] = impaired[r]
         \/ rpc'[r] = "token" /\ impaired'[r] = TRUE
      /\ UNCHANGED <<profile[r], pc[r], sess[r], walletNet[r], tokenNet[r], subNet[r], due[r]>>
  BY <1>1, <1>2 DEF RefundSubscriptionFails, Retry, UnchangedByRefund, TypeOK
<1>4. Frame(r)
  BY <1>1, <1>2 DEF Frame, RefundSubscriptionFails, Retry, UnchangedByRefund, TypeOK
<1>5. EntryOK(r)'
  BY <1>1, <1>2, <1>3, Entries, AmountsAssumption DEF EntryOK, PCs, OpeningPCs, RPCs
<1>6. RestOK' /\ WithinTotal'
  BY <1>1, <1>2, AmountsAssumption, BoundsAssumption DEF RestOK, WithinTotal, TypeOK, RefundSubscriptionFails, Retry, UnchangedByRefund
<1>7. TypeOK' BY <1>1, <1>4, <1>5, <1>6, TypeByFrame
<1>8. LedgerExact(r)'
  BY <1>1, <1>2, <1>3, <1>5, Entries, Blank
  DEF RInv, EntryOK, LedgerExact, LedgerCovers, SessionShape, Alive, FundingHeld, FundingDue, TokenHeld, TokenDue, OpeningPCs
<1>9. LedgerCovers(r)'
  BY <1>1, <1>2, <1>3, <1>5, Entries, Blank
  DEF RInv, EntryOK, LedgerCovers, SessionShape, FundingHeld, TokenHeld, OpeningPCs
<1>10. SessionShape(r)'
  BY <1>1, <1>2, <1>3, <1>5, Entries, Blank
  DEF RInv, EntryOK, SessionShape, OpeningPCs, Want
<1> QED BY <1>7, <1>4, <1>6, <1>8, <1>9, <1>10 DEF Preserves, RInv

\* RefundMarkFails keeps the invariant of its request and its frame.
LEMMA RefundMarkFailsStep ==
  ASSUME IInv, NEW r \in Requests, RefundMarkFails(r)
  PROVE  Preserves(r)
<1>1. TypeOK /\ WithinTotal /\ RInv(r) BY DEF IInv, RInv
<1>2. sess[r].pre \in Nat /\ sess[r].funded \in Nat /\ sess[r].tokenConsumed \in Nat /\ due[r] \in Nat
  BY <1>1, Entries DEF SessionType
<1>3. /\ rpc[r] = "mark"
      /\ rpc'[r] \in {"funding", "token"}
      /\ impaired'[r] = TRUE
      /\ UNCHANGED <<profile[r], pc[r], sess[r], walletNet[r], tokenNet[r], subNet[r], due[r]>>
  BY <1>1, <1>2 DEF RefundMarkFails, Retry, UnchangedByRefund, TypeOK
<1>4. Frame(r)
  BY <1>1, <1>2 DEF Frame, RefundMarkFails, Retry, UnchangedByRefund, TypeOK
<1>5. EntryOK(r)'
  BY <1>1, <1>2, <1>3, Entries, AmountsAssumption DEF EntryOK, PCs, OpeningPCs, RPCs
<1>6. RestOK' /\ WithinTotal'
  BY <1>1, <1>2, AmountsAssumption, BoundsAssumption DEF RestOK, WithinTotal, TypeOK, RefundMarkFails, Retry, UnchangedByRefund
<1>7. TypeOK' BY <1>1, <1>4, <1>5, <1>6, TypeByFrame
<1>8. LedgerExact(r)'
  BY <1>1, <1>2, <1>3, <1>5, Entries, Blank
  DEF RInv, EntryOK, LedgerExact, LedgerCovers, SessionShape, Alive, FundingHeld, FundingDue, TokenHeld, TokenDue, OpeningPCs
<1>9. LedgerCovers(r)'
  BY <1>1, <1>2, <1>3, <1>5, Entries, Blank
  DEF RInv, EntryOK, LedgerCovers, SessionShape, FundingHeld, TokenHeld, OpeningPCs
<1>10. SessionShape(r)'
  BY <1>1, <1>2, <1>3, <1>5, Entries, Blank
  DEF RInv, EntryOK, SessionShape, OpeningPCs, Want
<1> QED BY <1>7, <1>4, <1>6, <1>8, <1>9, <1>10 DEF Preserves, RInv

\* RefundToken keeps the invariant of its request and its frame.
LEMMA RefundTokenStep ==
  ASSUME IInv, NEW r \in Requests, RefundToken(r)
  PROVE  Preserves(r)
<1>1. TypeOK /\ WithinTotal /\ RInv(r) BY DEF IInv, RInv
<1>2. sess[r].pre \in Nat /\ sess[r].funded \in Nat /\ sess[r].tokenConsumed \in Nat /\ due[r] \in Nat
  BY <1>1, Entries DEF SessionType
<1>3. /\ rpc[r] = "token"
      /\ rpc'[r] = "done"
      /\ tokenNet'[r] = IF profile[r].playground THEN tokenNet[r] ELSE tokenNet[r] - sess[r].tokenConsumed
      /\ UNCHANGED <<profile[r], pc[r], sess[r], walletNet[r], subNet[r], due[r], impaired[r]>>
  BY <1>1, <1>2 DEF RefundToken, ChargeToken, UnchangedByRefund, TypeOK
<1>4. Frame(r)
  BY <1>1, <1>2 DEF Frame, RefundToken, ChargeToken, UnchangedByRefund, TypeOK
<1>5. EntryOK(r)'
  BY <1>1, <1>2, <1>3, Entries, AmountsAssumption DEF EntryOK, PCs, OpeningPCs, RPCs
<1>6. RestOK' /\ WithinTotal'
  BY <1>1, <1>2, AmountsAssumption, BoundsAssumption DEF RestOK, WithinTotal, TypeOK, RefundToken, ChargeToken, UnchangedByRefund
<1>7. TypeOK' BY <1>1, <1>4, <1>5, <1>6, TypeByFrame
<1>8. LedgerExact(r)'
  BY <1>1, <1>2, <1>3, <1>5, Entries, Blank
  DEF RInv, EntryOK, LedgerExact, LedgerCovers, SessionShape, Alive, FundingHeld, FundingDue, TokenHeld, TokenDue, OpeningPCs
<1>9. LedgerCovers(r)'
  BY <1>1, <1>2, <1>3, <1>5, Entries, Blank
  DEF RInv, EntryOK, LedgerCovers, SessionShape, FundingHeld, TokenHeld, OpeningPCs
<1>10. SessionShape(r)'
  BY <1>1, <1>2, <1>3, <1>5, Entries, Blank
  DEF RInv, EntryOK, SessionShape, OpeningPCs, Want
<1> QED BY <1>7, <1>4, <1>6, <1>8, <1>9, <1>10 DEF Preserves, RInv

\* RefundTokenFails keeps the invariant of its request and its frame.
LEMMA RefundTokenFailsStep ==
  ASSUME IInv, NEW r \in Requests, RefundTokenFails(r)
  PROVE  Preserves(r)
<1>1. TypeOK /\ WithinTotal /\ RInv(r) BY DEF IInv, RInv
<1>2. sess[r].pre \in Nat /\ sess[r].funded \in Nat /\ sess[r].tokenConsumed \in Nat /\ due[r] \in Nat
  BY <1>1, Entries DEF SessionType
<1>3. /\ rpc[r] = "token"
      /\ rpc'[r] = "done"
      /\ impaired'[r] = TRUE
      /\ UNCHANGED <<profile[r], pc[r], sess[r], walletNet[r], tokenNet[r], subNet[r], due[r]>>
  BY <1>1, <1>2 DEF RefundTokenFails, UnchangedByRefund, TypeOK
<1>4. Frame(r)
  BY <1>1, <1>2 DEF Frame, RefundTokenFails, UnchangedByRefund, TypeOK
<1>5. EntryOK(r)'
  BY <1>1, <1>2, <1>3, Entries, AmountsAssumption DEF EntryOK, PCs, OpeningPCs, RPCs
<1>6. RestOK' /\ WithinTotal'
  BY <1>1, <1>2, AmountsAssumption, BoundsAssumption DEF RestOK, WithinTotal, TypeOK, RefundTokenFails, UnchangedByRefund
<1>7. TypeOK' BY <1>1, <1>4, <1>5, <1>6, TypeByFrame
<1>8. LedgerExact(r)'
  BY <1>1, <1>2, <1>3, <1>5, Entries, Blank
  DEF RInv, EntryOK, LedgerExact, LedgerCovers, SessionShape, Alive, FundingHeld, FundingDue, TokenHeld, TokenDue, OpeningPCs
<1>9. LedgerCovers(r)'
  BY <1>1, <1>2, <1>3, <1>5, Entries, Blank
  DEF RInv, EntryOK, LedgerCovers, SessionShape, FundingHeld, TokenHeld, OpeningPCs
<1>10. SessionShape(r)'
  BY <1>1, <1>2, <1>3, <1>5, Entries, Blank
  DEF RInv, EntryOK, SessionShape, OpeningPCs, Want
<1> QED BY <1>7, <1>4, <1>6, <1>8, <1>9, <1>10 DEF Preserves, RInv

-----------------------------------------------------------------------------
(* The invariant. *)

\* A step of r leaves what the invariant says of another request alone.
LEMMA OthersKept ==
  ASSUME IInv, NEW r \in Requests, Preserves(r), NEW q \in Requests, q # r
  PROVE  RInv(q)'
<1>1. UNCHANGED <<profile[q], pc[q], sess[q], rpc[q], walletNet[q], tokenNet[q], subNet[q],
                  due[q], impaired[q]>>
  BY DEF Preserves, Frame, IInv, TypeOK
<1>2. RInv(q) BY DEF IInv, RInv
<1>3. LedgerExact(q)'
  BY <1>1, <1>2 DEF RInv, LedgerExact, Alive, FundingHeld, FundingDue, TokenHeld, TokenDue
<1>4. LedgerCovers(q)'
  BY <1>1, <1>2 DEF RInv, LedgerCovers, FundingHeld, TokenHeld
<1>5. SessionShape(q)'
  BY <1>1, <1>2 DEF RInv, SessionShape, Want
<1> QED BY <1>3, <1>4, <1>5 DEF RInv

\* A step of one request keeps its part of the invariant and its frame.
LEMMA RequestPreserves ==
  ASSUME IInv, NEW r \in Requests, Opening(r) \/ Answered(r) \/ Closing(r) \/ Refunding(r)
  PROVE  Preserves(r)
<1>1. CASE Opening(r)
  BY <1>1, AuthenticateStep, ChooseSourceStep, TryWalletStep, FallbackToSubscriptionStep,
     FallbackToWalletStep, CheckTokenStep, TakeTokenStep, OpeningFailsStep,
     PreConsumeWalletStep, PreConsumeSubscriptionStep, PreConsumeShortStep,
     PreConsumeFailsStep, RollbackTokenStep, RollbackTokenFailsStep
  DEF Opening
<1>2. CASE Answered(r)
  BY <1>2, ServeStep, FailStep DEF Answered
<1>3. CASE Closing(r)
  BY <1>3, SettleEvenStep, SettleWalletStep, SettleSubscriptionStep, SettleRefusedStep,
     SettleFailsStep, SettleTokenStep, SettleTokenFailsStep, FeeWalletStep,
     FeeSubscriptionStep, FeeWaivedStep, FeeTokenStep, FeeTokenFailsStep
  DEF Closing
<1>4. CASE Refunding(r)
  BY <1>4, RefundWalletStep, RefundWalletFailsStep, RefundSubscriptionStep,
     RefundSubscriptionFailsStep, RefundMarkStep, RefundMarkFailsStep, RefundTokenStep,
     RefundTokenFailsStep
  DEF Refunding
<1> QED BY <1>1, <1>2, <1>3, <1>4

\* A step of one request keeps the invariant.
LEMMA RequestStep ==
  ASSUME IInv, NEW r \in Requests, Opening(r) \/ Answered(r) \/ Closing(r) \/ Refunding(r)
  PROVE  IInv'
<1>1. Preserves(r) BY RequestPreserves
<1>2. \A q \in Requests : RInv(q)' BY <1>1, OthersKept DEF Preserves
<1> QED BY <1>1, <1>2 DEF Preserves, IInv, RInv

\* The death of the process keeps the invariant: the balances stay as they are.
LEMMA CrashStep ==
  ASSUME IInv, Crash
  PROVE  IInv'
<1>1. TypeOK /\ WithinTotal BY DEF IInv
<1>2. TypeOK'
  <2>1. pc' \in [Requests -> PCs]
    BY <1>1 DEF Crash, TypeOK, PCs
  <2>2. rpc' \in [Requests -> RPCs]
    BY <1>1 DEF Crash, TypeOK, RPCs
  <2>3. crashes' \in 0 .. MaxCrashes
    BY <1>1, BoundsAssumption DEF Crash, TypeOK
  <2>4. UNCHANGED <<userQuota, tokenQuota, tokenStatus, sub, profile, sess, tokenSnap, record,
                    attempts, faults, walletNet, tokenNet, subNet, due, impaired>>
    BY DEF Crash, balances, nets
  <2> QED BY <1>1, <2>1, <2>2, <2>3, <2>4 DEF TypeOK
<1>3. WithinTotal' BY <1>1 DEF WithinTotal, Crash
<1>4. ASSUME NEW r \in Requests PROVE RInv(r)'
  <2>1. RInv(r) BY DEF IInv, RInv
  <2>2. /\ UNCHANGED <<profile[r], sess[r], walletNet[r], tokenNet[r], subNet[r], due[r],
                       impaired[r]>>
        /\ pc'[r] = IF pc[r] \in {"idle", "done"} THEN pc[r] ELSE "dead"
        /\ rpc'[r] = IF rpc[r] \in {"none", "done"} THEN rpc[r] ELSE "dead"
    BY <1>1 DEF Crash, TypeOK
  <2>3. sess[r].funded \in Nat /\ sess[r].tokenConsumed \in Nat
    BY <1>1, Entries DEF SessionType
  <2>4. LedgerExact(r)'
    BY <1>1, <2>1, <2>2, Entries
    DEF RInv, LedgerExact, Alive, FundingHeld, FundingDue, TokenHeld, TokenDue
  <2>5. LedgerCovers(r)'
    BY <1>1, <2>1, <2>2, <2>3, Entries DEF RInv, LedgerCovers, FundingHeld, TokenHeld
  <2>6. SessionShape(r)'
    BY <2>1, <2>2 DEF RInv, SessionShape, OpeningPCs, Want
  <2> QED BY <2>4, <2>5, <2>6 DEF RInv
<1> QED BY <1>2, <1>3, <1>4 DEF IInv, RInv

\* Steps that leave every per-request variable alone keep the invariant.
LEMMA QuietStep ==
  ASSUME IInv, ExpireSubscription \/ UNCHANGED vars
  PROVE  IInv'
<1>1. UNCHANGED <<profile, pc, sess, rpc, walletNet, tokenNet, subNet, due, impaired>>
  BY DEF ExpireSubscription, vars
<1>2. TypeOK' BY DEF IInv, TypeOK, ExpireSubscription, vars
<1>3. WithinTotal' BY DEF IInv, TypeOK, WithinTotal, ExpireSubscription, vars
<1>4. ASSUME NEW r \in Requests PROVE RInv(r)'
  BY <1>1 DEF IInv, RInv, LedgerExact, LedgerCovers, SessionShape, Alive, FundingHeld,
     FundingDue, TokenHeld, TokenDue, Want
<1> QED BY <1>2, <1>3, <1>4 DEF IInv, RInv

\* Nothing is held or owed before the first request arrives.
LEMMA InitInv == Init => IInv
<1> SUFFICES ASSUME Init PROVE IInv OBVIOUS
<1>1. TypeOK
  BY Blank, AmountsAssumption, BoundsAssumption DEF Init, TypeOK, PCs, RPCs
<1>2. WithinTotal BY AmountsAssumption DEF Init, WithinTotal
<1>3. ASSUME NEW r \in Requests PROVE RInv(r)
  BY Blank DEF Init, RInv, LedgerExact, LedgerCovers, SessionShape, Alive, FundingHeld,
     FundingDue, TokenHeld, TokenDue, OpeningPCs
<1> QED BY <1>1, <1>2, <1>3 DEF IInv, RInv

\* The inductive invariant holds in every reachable state, whatever the number of
\* requests, faults and crashes.
THEOREM Invariance == Spec => []IInv
<1>1. IInv /\ [Next]_vars => IInv'
  BY RequestStep, CrashStep, QuietStep DEF Next, Terminated
<1> QED BY <1>1, InitInv, PTL DEF Spec

-----------------------------------------------------------------------------
(* What the invariant gives. *)

\* Every variable keeps its type.
THEOREM TypeCorrect == Spec => []TypeOK
BY Invariance, PTL DEF IInv

\* No request gets back more than was taken from the wallet or the token, even
\* when writes fail and the process dies (Refund, Settle, preConsume's rollback).
THEOREM NoOverRefund == Spec => []NeverOverRefunded
<1>1. IInv => NeverOverRefunded
  <2> SUFFICES ASSUME IInv, NEW r \in Requests PROVE walletNet[r] >= 0 /\ tokenNet[r] >= 0
    BY DEF NeverOverRefunded
  <2>1. TypeOK /\ LedgerCovers(r) BY DEF IInv
  <2>2. sess[r].funded \in Nat /\ sess[r].tokenConsumed \in Nat
    BY <2>1, Entries DEF SessionType
  <2> QED BY <2>1, <2>2, Entries DEF LedgerCovers, FundingHeld, TokenHeld
<1> QED BY <1>1, Invariance, PTL

\* No request is charged to both sources (the fallbacks of NewBillingSession).
THEOREM SingleSource == Spec => []OneFundingSource
<1>1. IInv => OneFundingSource
  BY DEF IInv, SessionShape, OneFundingSource
<1> QED BY <1>1, Invariance, PTL

\* The subscription is never used beyond its total.
THEOREM NeverBeyondTotal == Spec => []WithinTotal
BY Invariance, PTL DEF IInv

\* An unimpaired request that is over was charged exactly what it owes.
THEOREM ExactCharge == Spec => []ChargedExactly
<1>1. IInv => ChargedExactly
  <2> SUFFICES ASSUME IInv, NEW r \in Requests, Closed(r), ~impaired[r]
               PROVE  Bill(r) = ExactBill(r, due[r])
    BY DEF ChargedExactly
  <2>1. LedgerExact(r) /\ SessionShape(r) /\ TypeOK BY DEF IInv
  <2>2. sess[r].source \in {"none", "wallet", "subscription"}
    BY <2>1, Entries DEF SessionType
  <2>3. /\ walletNet[r] = (IF sess[r].source = "wallet" THEN due[r] ELSE 0)
        /\ subNet[r] = (IF sess[r].source = "subscription" THEN due[r] ELSE 0)
        /\ tokenNet[r] = (IF profile[r].playground THEN 0 ELSE due[r])
    BY <2>1, <2>2, Entries DEF Closed, LedgerExact, SessionShape, Alive, FundingHeld,
       FundingDue, TokenHeld, TokenDue
  <2> QED BY <2>3 DEF Bill, ExactBill
<1> QED BY <1>1, Invariance, PTL

-----------------------------------------------------------------------------
(* The session keeps the promise of RequestBilling. *)

\* What a step of r means to the promise: r arrives, or it is open and stays open
\* or closes.  A request that is over takes no step.
Arrives(r) ==
  /\ pc[r] = "idle" /\ pc'[r] \in {"new", "done"}
  /\ UNCHANGED <<rpc[r], walletNet[r], subNet[r], tokenNet[r], impaired[r]>>

Proceeds(r) ==
  /\ pc[r] # "idle" /\ ~Over(r)
  /\ pc'[r] # "idle"
  /\ impaired[r] => impaired'[r]
  /\ pc[r] = "dead" => pc'[r] = "dead"
  /\ rpc[r] = "dead" => rpc'[r] = "dead"

\* The entries of the refinement mapping.
LEMMA Mapped ==
  ASSUME NEW r \in Requests
  PROVE  /\ BillPhase[r] = IF pc[r] = "idle" THEN "idle" ELSE IF Over(r) THEN "closed" ELSE "open"
         /\ FinalBill[r] = IF Over(r) THEN Bill(r) ELSE Billing!NoBill
         /\ Disturbed[r] = (impaired[r] \/ pc[r] = "dead" \/ rpc[r] = "dead")
BY DEF BillPhase, FinalBill, Disturbed, Billing!NoBill

\* Opening a session, once the request has arrived.
LEMMA OpeningProceeds ==
  ASSUME IInv, NEW r \in Requests, Opening(r), ~Authenticate(r)
  PROVE  Proceeds(r)
<1> USE DEF Over
<1>1. TypeOK /\ SessionShape(r) BY DEF IInv
<1>2. pc[r] \in PCs /\ rpc[r] \in RPCs /\ impaired[r] \in BOOLEAN BY <1>1, Entries
<1>3. CASE ChooseSource(r)
  BY <1>1, <1>2, <1>3 DEF ChooseSource, TrySubscription, Refuse, UnchangedByRead, Proceeds, TypeOK, SessionShape, OpeningPCs
<1>4. CASE TryWallet(r)
  BY <1>1, <1>2, <1>4 DEF TryWallet, Refuse, UnchangedByRead, Proceeds, TypeOK, SessionShape, OpeningPCs
<1>5. CASE FallbackToSubscription(r)
  BY <1>1, <1>2, <1>5 DEF FallbackToSubscription, TrySubscription, Refuse, UnchangedByRead, Proceeds, TypeOK, SessionShape, OpeningPCs
<1>6. CASE FallbackToWallet(r)
  BY <1>1, <1>2, <1>6 DEF FallbackToWallet, Refuse, UnchangedByRead, Proceeds, TypeOK, SessionShape, OpeningPCs
<1>7. CASE CheckToken(r)
  BY <1>1, <1>2, <1>7 DEF CheckToken, Refuse, UnchangedByRead, Proceeds, TypeOK, SessionShape, OpeningPCs
<1>8. CASE TakeToken(r)
  BY <1>1, <1>2, <1>8 DEF TakeToken, Proceeds, TypeOK, SessionShape, OpeningPCs
<1>9. CASE OpeningFails(r)
  BY <1>1, <1>2, <1>9 DEF OpeningFails, Refuse, UnchangedByRead, Proceeds, TypeOK, SessionShape, OpeningPCs
<1>10. CASE PreConsumeWallet(r)
  BY <1>1, <1>2, <1>10 DEF PreConsumeWallet, Proceeds, TypeOK, SessionShape, OpeningPCs
<1>11. CASE PreConsumeSubscription(r)
  BY <1>1, <1>2, <1>11 DEF PreConsumeSubscription, Proceeds, TypeOK, SessionShape, OpeningPCs
<1>12. CASE PreConsumeShort(r)
  BY <1>1, <1>2, <1>12 DEF PreConsumeShort, UnchangedByRead, Proceeds, TypeOK, SessionShape, OpeningPCs
<1>13. CASE PreConsumeFails(r)
  BY <1>1, <1>2, <1>13 DEF PreConsumeFails, UnchangedByRead, Proceeds, TypeOK, SessionShape, OpeningPCs
<1>14. CASE RollbackToken(r)
  BY <1>1, <1>2, <1>14 DEF RollbackToken, RolledBack, Refuse, Proceeds, TypeOK, SessionShape, OpeningPCs
<1>15. CASE RollbackTokenFails(r)
  BY <1>1, <1>2, <1>15 DEF RollbackTokenFails, RolledBack, Refuse, Proceeds, TypeOK, SessionShape, OpeningPCs
<1> QED BY <1>3, <1>4, <1>5, <1>6, <1>7, <1>8, <1>9, <1>10, <1>11, <1>12, <1>13, <1>14, <1>15 DEF Opening

\* The upstream's answer.
LEMMA AnsweredProceeds ==
  ASSUME IInv, NEW r \in Requests, Answered(r)
  PROVE  Proceeds(r)
<1> USE DEF Over
<1>1. TypeOK /\ SessionShape(r) BY DEF IInv
<1>2. pc[r] \in PCs /\ rpc[r] \in RPCs /\ impaired[r] \in BOOLEAN BY <1>1, Entries
<1>3. ASSUME NEW a \in Actuals, Serve(r, a) PROVE Proceeds(r)
  BY <1>1, <1>2, <1>3 DEF Serve, Proceeds, TypeOK
<1>4. ASSUME NEW f \in Fees, Fail(r, f) PROVE Proceeds(r)
  BY <1>1, <1>2, <1>4 DEF Fail, Proceeds, TypeOK, SessionShape
<1> QED BY <1>3, <1>4 DEF Answered

\* Settling, and charging a violation fee.
LEMMA ClosingProceeds ==
  ASSUME IInv, NEW r \in Requests, Closing(r)
  PROVE  Proceeds(r)
<1> USE DEF Over
<1>1. TypeOK /\ SessionShape(r) BY DEF IInv
<1>2. pc[r] \in PCs /\ rpc[r] \in RPCs /\ impaired[r] \in BOOLEAN BY <1>1, Entries
<1>3. CASE SettleEven(r)
  BY <1>1, <1>2, <1>3 DEF SettleEven, UnchangedBySettle, Proceeds, TypeOK, SessionShape, OpeningPCs
<1>4. CASE SettleWallet(r)
  BY <1>1, <1>2, <1>4 DEF SettleWallet, UnchangedBySettle, Proceeds, TypeOK, SessionShape, OpeningPCs
<1>5. CASE SettleSubscription(r)
  BY <1>1, <1>2, <1>5 DEF SettleSubscription, UnchangedBySettle, Proceeds, TypeOK, SessionShape, OpeningPCs
<1>6. CASE SettleRefused(r)
  BY <1>1, <1>2, <1>6 DEF SettleRefused, UnchangedBySettle, Proceeds, TypeOK, SessionShape, OpeningPCs
<1>7. CASE SettleFails(r)
  BY <1>1, <1>2, <1>7 DEF SettleFails, UnchangedBySettle, Proceeds, TypeOK, SessionShape, OpeningPCs
<1>8. CASE SettleToken(r)
  BY <1>1, <1>2, <1>8 DEF SettleToken, UnchangedBySettle, Proceeds, TypeOK, SessionShape, OpeningPCs
<1>9. CASE SettleTokenFails(r)
  BY <1>1, <1>2, <1>9 DEF SettleTokenFails, UnchangedBySettle, Proceeds, TypeOK, SessionShape, OpeningPCs
<1>10. CASE FeeWallet(r)
  BY <1>1, <1>2, <1>10 DEF FeeWallet, UnchangedByFee, Proceeds, TypeOK, SessionShape, OpeningPCs
<1>11. CASE FeeSubscription(r)
  BY <1>1, <1>2, <1>11 DEF FeeSubscription, UnchangedByFee, Proceeds, TypeOK, SessionShape, OpeningPCs
<1>12. CASE FeeWaived(r)
  BY <1>1, <1>2, <1>12 DEF FeeWaived, UnchangedByFee, Proceeds, TypeOK, SessionShape, OpeningPCs
<1>13. CASE FeeToken(r)
  BY <1>1, <1>2, <1>13 DEF FeeToken, UnchangedByFee, Proceeds, TypeOK, SessionShape, OpeningPCs
<1>14. CASE FeeTokenFails(r)
  BY <1>1, <1>2, <1>14 DEF FeeTokenFails, UnchangedByFee, Proceeds, TypeOK, SessionShape, OpeningPCs
<1> QED BY <1>3, <1>4, <1>5, <1>6, <1>7, <1>8, <1>9, <1>10, <1>11, <1>12, <1>13, <1>14 DEF Closing

\* The goroutine of Refund.
LEMMA RefundingProceeds ==
  ASSUME IInv, NEW r \in Requests, Refunding(r)
  PROVE  Proceeds(r)
<1> USE DEF Over
<1>1. TypeOK /\ SessionShape(r) BY DEF IInv
<1>2. pc[r] \in PCs /\ rpc[r] \in RPCs /\ impaired[r] \in BOOLEAN BY <1>1, Entries
<1>3. CASE RefundWallet(r)
  BY <1>1, <1>2, <1>3 DEF RefundWallet, UnchangedByRefund, Proceeds, TypeOK, SessionShape, OpeningPCs
<1>4. CASE RefundWalletFails(r)
  BY <1>1, <1>2, <1>4 DEF RefundWalletFails, UnchangedByRefund, Proceeds, TypeOK, SessionShape, OpeningPCs
<1>5. CASE RefundSubscription(r)
  BY <1>1, <1>2, <1>5 DEF RefundSubscription, UnchangedByRefund, Proceeds, TypeOK, SessionShape, OpeningPCs
<1>6. CASE RefundSubscriptionFails(r)
  BY <1>1, <1>2, <1>6 DEF RefundSubscriptionFails, UnchangedByRefund, Retry, Proceeds, TypeOK, SessionShape, OpeningPCs
<1>7. CASE RefundMark(r)
  BY <1>1, <1>2, <1>7 DEF RefundMark, UnchangedByRefund, Proceeds, TypeOK, SessionShape, OpeningPCs
<1>8. CASE RefundMarkFails(r)
  BY <1>1, <1>2, <1>8 DEF RefundMarkFails, UnchangedByRefund, Retry, Proceeds, TypeOK, SessionShape, OpeningPCs
<1>9. CASE RefundToken(r)
  BY <1>1, <1>2, <1>9 DEF RefundToken, UnchangedByRefund, Proceeds, TypeOK, SessionShape, OpeningPCs
<1>10. CASE RefundTokenFails(r)
  BY <1>1, <1>2, <1>10 DEF RefundTokenFails, UnchangedByRefund, Proceeds, TypeOK, SessionShape, OpeningPCs
<1> QED BY <1>3, <1>4, <1>5, <1>6, <1>7, <1>8, <1>9, <1>10 DEF Refunding

\* Every bill of a request that is over is tolerable, and exact unless disturbed.
BillsFit ==
  \A r \in Requests : Over(r) =>
    /\ Billing!Tolerable(Bill(r))
    /\ ~(impaired[r] \/ pc[r] = "dead" \/ rpc[r] = "dead") => Billing!Exact(Bill(r))

\* The ledger of the invariant makes the bills fit.
LEMMA BillsOfOver == IInv => BillsFit
<1> SUFFICES ASSUME IInv, NEW r \in Requests, Over(r)
             PROVE  /\ Billing!Tolerable(Bill(r))
                    /\ ~(impaired[r] \/ pc[r] = "dead" \/ rpc[r] = "dead") => Billing!Exact(Bill(r))
  BY DEF BillsFit
<1>1. TypeOK /\ LedgerExact(r) /\ LedgerCovers(r) /\ SessionShape(r) BY DEF IInv
<1>2. sess[r].funded \in Nat /\ sess[r].tokenConsumed \in Nat
      /\ sess[r].source \in {"none", "wallet", "subscription"}
  BY <1>1, Entries DEF SessionType
<1>3. /\ Bill(r).wallet = walletNet[r] /\ Bill(r).subscription = subNet[r]
      /\ Bill(r).token = tokenNet[r]
  BY DEF Bill
<1>4. walletNet[r] = 0 \/ subNet[r] = 0 BY <1>1 DEF SessionShape
<1>5. walletNet[r] >= 0 /\ tokenNet[r] >= 0
  BY <1>1, <1>2, Entries DEF LedgerCovers, FundingHeld, TokenHeld
<1>6. ASSUME ~(impaired[r] \/ pc[r] = "dead" \/ rpc[r] = "dead")
      PROVE  tokenNet[r] = 0 \/ tokenNet[r] = walletNet[r] + subNet[r]
  BY <1>1, <1>2, <1>6, Entries
  DEF Over, LedgerExact, SessionShape, Alive, FundingHeld, FundingDue, TokenHeld, TokenDue
<1> QED BY <1>3, <1>4, <1>5, <1>6 DEF Billing!Tolerable, Billing!Exact, Billing!OneSource

\* A step of r leaves the other requests' entries of the mapping alone.
LEMMA MappingKept ==
  ASSUME IInv, NEW r \in Requests, Frame(r), NEW q \in Requests, q # r
  PROVE  UNCHANGED <<BillPhase[q], FinalBill[q], Disturbed[q]>>
<1>1. UNCHANGED <<pc[q], rpc[q], walletNet[q], tokenNet[q], subNet[q], impaired[q]>>
  BY DEF Frame, IInv, TypeOK
<1> QED BY <1>1 DEF BillPhase, FinalBill, Disturbed, Over, Bill

\* A request that arrives is opened, or turned away without a bill.
LEMMA ArrivalKeepsPromise ==
  ASSUME IInv, NEW r \in Requests, Preserves(r), Arrives(r)
  PROVE  Billing!Open(r) \/ Billing!TurnAway(r)
<1>1. SessionShape(r) /\ TypeOK BY DEF IInv
<1>2. rpc[r] = "none" /\ walletNet[r] = 0 /\ subNet[r] = 0 /\ tokenNet[r] = 0
  BY <1>1 DEF Arrives, SessionShape
<1>3. BillPhase[r] = "idle" /\ BillPhase'[r] \in {"open", "closed"}
  BY <1>2 DEF BillPhase, Arrives, Over
<1>4. FinalBill'[r] = FinalBill[r]
  BY <1>2 DEF FinalBill, Arrives, Over, Bill
<1>5. Disturbed'[r] = Disturbed[r]
  BY <1>2 DEF Disturbed, Arrives
<1>6. \A q \in Requests \ {r} : UNCHANGED <<BillPhase[q], FinalBill[q], Disturbed[q]>>
  BY MappingKept DEF Preserves
<1>7. UNCHANGED FinalBill BY <1>4, <1>6 DEF FinalBill
<1>8. UNCHANGED Disturbed BY <1>5, <1>6 DEF Disturbed
<1>9. BillPhase' = [BillPhase EXCEPT ![r] = BillPhase'[r]] BY <1>6 DEF BillPhase
<1> QED BY <1>3, <1>7, <1>8, <1>9 DEF Billing!Open, Billing!TurnAway

\* An open request is disturbed, closed with a bill, or unchanged to the promise.
LEMMA ProgressKeepsPromise ==
  ASSUME IInv, IInv', NEW r \in Requests, Frame(r), Proceeds(r)
  PROVE  [Billing!Next]_(Billing!promise)
<1>1. \A q \in Requests \ {r} : UNCHANGED <<BillPhase[q], FinalBill[q], Disturbed[q]>>
  BY MappingKept
<1>2. BillPhase[r] = "open" /\ FinalBill[r] = Billing!NoBill
  BY Mapped DEF Proceeds
<1>3. Disturbed[r] \in BOOLEAN /\ Disturbed'[r] \in BOOLEAN
  BY DEF Disturbed, IInv, TypeOK
<1>4. Disturbed[r] => Disturbed'[r] BY DEF Disturbed, Proceeds
<1>5. CASE Over(r)'
  <2>1. BillPhase'[r] = "closed" BY <1>5 DEF BillPhase, Proceeds
  <2>2. FinalBill'[r] = Bill(r)' BY <1>5 DEF FinalBill
  <2>3. /\ Billing!Tolerable(FinalBill'[r])
        /\ ~Disturbed'[r] => Billing!Exact(FinalBill'[r])
    <3>1. BillsFit' BY BillsOfOver, PTL
    <3> QED BY <1>5, <2>2, <3>1
      DEF BillsFit, Bill, Over, Disturbed, Billing!Tolerable, Billing!Exact, Billing!OneSource
  <2>4. BillPhase' = [q \in Requests |-> IF q \in {r} THEN "closed" ELSE BillPhase[q]]
    BY <1>1, <2>1 DEF BillPhase
  <2>5. Billing!Close({r})
    BY <1>1, <1>2, <1>4, <2>3, <2>4 DEF Billing!Close
  <2> QED BY <2>5 DEF Billing!Next
<1>6. CASE ~Over(r)'
  <2>1. BillPhase'[r] = "open" BY <1>6 DEF BillPhase, Proceeds
  <2>2. FinalBill'[r] = Billing!NoBill BY <1>6 DEF FinalBill, Billing!NoBill
  <2>3. UNCHANGED BillPhase BY <1>1, <1>2, <2>1 DEF BillPhase
  <2>4. UNCHANGED FinalBill BY <1>1, <1>2, <2>2 DEF FinalBill
  <2>5. CASE Disturbed'[r] = Disturbed[r]
    <3>1. UNCHANGED Disturbed BY <1>1, <2>5 DEF Disturbed
    <3> QED BY <2>3, <2>4, <3>1 DEF Billing!promise
  <2>6. CASE Disturbed'[r] # Disturbed[r]
    <3>1. Disturbed'[r] = TRUE BY <1>3, <1>4, <2>6
    <3>2. Disturbed' = [Disturbed EXCEPT ![r] = TRUE] BY <1>1, <3>1 DEF Disturbed
    <3>3. Billing!Disturb(r) BY <1>2, <2>3, <2>4, <3>2 DEF Billing!Disturb
    <3> QED BY <3>3 DEF Billing!Next
  <2> QED BY <2>5, <2>6
<1> QED BY <1>5, <1>6

\* The death of the process closes every open request at once.
LEMMA CrashKeepsPromise ==
  ASSUME IInv, IInv', Crash
  PROVE  [Billing!Next]_(Billing!promise)
<1> DEFINE S == {q \in Requests : pc[q] # "idle" /\ ~Over(q)}
<1>1. ASSUME NEW q \in Requests
      PROVE  /\ UNCHANGED <<walletNet[q], tokenNet[q], subNet[q], impaired[q]>>
             /\ pc'[q] = IF pc[q] \in {"idle", "done"} THEN pc[q] ELSE "dead"
             /\ rpc'[q] = IF rpc[q] \in {"none", "done"} THEN rpc[q] ELSE "dead"
             /\ pc[q] \in PCs /\ rpc[q] \in RPCs
             /\ pc[q] = "idle" => rpc[q] = "none"
  BY DEF Crash, IInv, TypeOK, SessionShape
<1>2. S # {}
  BY <1>1 DEF Crash, InFlight, Over
<1>3. ASSUME NEW q \in S
      PROVE  /\ BillPhase[q] = "open" /\ BillPhase'[q] = "closed"
             /\ Over(q)' /\ FinalBill'[q] = Bill(q)' /\ Disturbed'[q] = TRUE
  BY <1>1 DEF BillPhase, FinalBill, Disturbed, Over
<1>4. ASSUME NEW q \in Requests \ S
      PROVE  UNCHANGED <<BillPhase[q], FinalBill[q], Disturbed[q]>>
  BY <1>1 DEF BillPhase, FinalBill, Disturbed, Over, Bill
<1>5. ASSUME NEW q \in S PROVE Billing!Tolerable(FinalBill'[q])
  <2>1. BillsFit' BY BillsOfOver, PTL
  <2> QED BY <1>3, <2>1 DEF BillsFit, Bill, Over, Billing!Tolerable, Billing!OneSource
<1>6. BillPhase' = [q \in Requests |-> IF q \in S THEN "closed" ELSE BillPhase[q]]
  BY <1>3, <1>4 DEF BillPhase
<1>7. Billing!Close(S)
  BY <1>2, <1>3, <1>4, <1>5, <1>6 DEF Billing!Close
<1> QED BY <1>7 DEF Billing!Next

\* The promise starts as the session does: nothing is open before the first request arrives.
LEMMA InitPromise == Init => Billing!Init
<1> SUFFICES ASSUME Init PROVE Billing!Init OBVIOUS
<1>1. BillPhase = [r \in Requests |-> "idle"] BY DEF Init, BillPhase
<1>2. FinalBill = [r \in Requests |-> Billing!NoBill]
  BY DEF Init, FinalBill, Over, Billing!NoBill
<1>3. Disturbed = [r \in Requests |-> FALSE] BY DEF Init, Disturbed
<1> QED BY <1>1, <1>2, <1>3 DEF Billing!Init

\* Every step of the session is a step of the promise or invisible to it.
LEMMA StepKeepsPromise ==
  ASSUME IInv, IInv', [Next]_vars
  PROVE  [Billing!Next]_(Billing!promise)
<1>1. ASSUME NEW r \in Requests, Opening(r) \/ Answered(r) \/ Closing(r) \/ Refunding(r)
      PROVE  [Billing!Next]_(Billing!promise)
  <2>1. Preserves(r) BY <1>1, RequestPreserves
  <2>2. CASE Authenticate(r)
    <3>1. Arrives(r) BY <2>2 DEF Authenticate, Arrives, IInv, TypeOK
    <3> QED BY <2>1, <3>1, ArrivalKeepsPromise DEF Billing!Next
  <2>3. CASE ~Authenticate(r)
    <3>1. Proceeds(r)
      BY <1>1, <2>3, OpeningProceeds, AnsweredProceeds, ClosingProceeds, RefundingProceeds
    <3> QED BY <2>1, <3>1, ProgressKeepsPromise DEF Preserves
  <2> QED BY <2>2, <2>3
<1>2. CASE Crash BY <1>2, CrashKeepsPromise
<1>3. CASE ExpireSubscription \/ UNCHANGED vars
  <2>1. UNCHANGED <<pc, rpc, walletNet, tokenNet, subNet, impaired>>
    BY <1>3 DEF ExpireSubscription, vars
  <2>2. UNCHANGED <<BillPhase, FinalBill, Disturbed>>
    BY <2>1 DEF BillPhase, FinalBill, Disturbed, Over, Bill
  <2> QED BY <2>2 DEF Billing!promise
<1> QED BY <1>1, <1>2, <1>3 DEF Next, Terminated

\* The session implements the promise of RequestBilling: a bill is written once, by
\* the step that ends the last goroutine of its request, and is final; it is exact
\* unless a write failed or the process died, and tolerable even then.
THEOREM PromiseKept == Spec => KeepsPromise
<1>1. IInv /\ IInv' /\ [Next]_vars => [Billing!Next]_(Billing!promise)
  BY StepKeepsPromise
<1> QED BY <1>1, InitPromise, Invariance, PTL DEF Spec, KeepsPromise, Billing!Promise
=============================================================================
