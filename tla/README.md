# A TLA+ verification of xinghai-api

xinghai-api is a gateway for AI services, written in Go: it relays users' requests
to upstream providers and keeps accounts of what they cost. Several nodes may run
behind one database (`README.md`, section on multi-machine deployment); every node
serves requests and webhooks, and the *master* nodes run the background tasks. The
web client (TypeScript, React) is served by the same program.

This directory holds TLA+ models of the parts that move money or hand out work, and of
the one part of the client where answers, timers and clicks race, the chat of the
playground; the TLC configurations that check them on small instances, and proofs, checked by TLAPS,
that the main properties hold for every value of the constants. `PROJECT.json` maps
each definition to the lines it models and lists the runs, the theorems, the hazards
and the findings.

Paths below are relative to the root of the repository.

## 1. Inventory

### 1.1 Components that carry the core logic

**Billing session of a request** (`service/billing_session.go`,
`service/funding_source.go`, `service/billing.go`, `service/quota.go`,
`service/violation_fee.go`, driven by `controller/relay.go`).
*State:* in memory, one `BillingSession` per request (source, pre-consumed quota,
consumed token quota, the flags settled / refunded / fundingSettled); in the
database the user's wallet, the token's remaining quota and status, the
subscription's usage and one `SubscriptionPreConsumeRecord` per request.
*Operations:* validate the token, choose a source by the user's preference, trust or
pre-consume, fall back to the other source, settle by the actual quota, refund in a
goroutine with retries, charge a violation fee.
*Hard:* each operation is several independent writes; two goroutines of one request
and other requests of the user run between them; nothing of a session survives a
crash. *Correct when* a request ends with one exact charge to one source and to the
token, whatever fails never gives back more than was taken, and the subscription
stays within its total.

**System tasks** (`model/system_task.go`, `service/system_task.go`,
`controller/system_task_handlers.go`).
*State:* task rows with a status and a unique `active_key`, one lock row per type with
holder and expiry. *Operations:* the loop of each master node (reap expired locks,
schedule, claim), the handler goroutine with its heartbeat, the administrator's
enqueue. *Hard:* several nodes, statements and not transactions, leases that expire
under live holders, nodes that die in any step. *Correct when* one row of a type is
active, it is executed once, and every row ends.

**Asynchronous tasks** (`service/task_polling.go`, `service/task_billing.go`,
`model/task.go`, `relay/relay_task.go`, `controller/relay.go`).
*State:* a row per task (status, progress, quota, submit time) and the charge to its
source and token. *Operations:* submit, the polling pass of a master node (timeout
sweep, Suno answers, video answers, bulk failure of a channel), refund, settlement, a
user's fetch that asks the upstream in real time. *Hard:* passes work on copies that
go stale, passes overlap when a lease expires, refund and settlement are several
writes after the status. *Correct when* a task that failed is refunded once, one that
succeeded is charged what it cost, and every task ends.

**Top-up orders** (`controller/topup*.go`, `model/topup.go`).
*State:* order rows, and in each process `orderLocks`, a map of reference-counted
mutexes. *Operations:* open an order, the webhooks of five providers, the
administrator's completion. *Hard:* notifications come late, repeated, concurrently
and on any node; the lock is a lock of one process; some paths read, save and credit
in separate statements. *Correct when* an order is credited exactly once and exactly
if it says success.

**Batch updater and quota caches** (`model/utils.go`, `model/user_cache.go`,
`common/redis.go`, `model/user.go`).
*State:* a user's quota in the row, the deltas gathered in `batchUpdateStores` of a
process, the hash `user:<id>` in Redis with its TTL. *Operations:* the check of a
request against the cached quota, charges through the store or to the row, credits and
overrides by others, the flush, the goroutines that fill or increment the hash, expiry.
*Hard:* three copies, each written by someone else at another time; increments on a key
that has just expired; deltas that exist in memory only. *Correct when* no accepted
change is lost or doubled, the overdraft of concurrent checks is bounded, and the cache
comes to agree with the row.

**Playground chat** (`web/default/src/features/playground`: `hooks/use-chat-handler.ts`,
`hooks/use-stream-request.ts`, `hooks/use-playground-state.ts`,
`hooks/use-playground-conversation.ts`, `lib/message/*`, `lib/storage.ts`).
*State:* the conversations (in memory and in `localStorage`), the refs of two hooks (SSE
source, abort controller, request number, chunks that wait, flush timer), the editor,
and what was last drawn. *Operations:* send, regenerate, edit, delete, clear, stop, the
conversations' own buttons, the events of the source, the answer of a plain request, the
timer, a reload. *Hard:* callbacks keep the conversation they were created for, handlers
of clicks work on the last drawing, two mergers each guess whether a chunk is a delta or
a snapshot, tags are cut by chunks. *Correct when* an answer gets all of its own text and
none of another's, and the page waits for an answer exactly while one is to come.

### 1.2 Interaction

A relayed request opens a billing session, is relayed, and is settled or refunded by
it. A submission of an asynchronous task does the same and then inserts a row; from
there on the polling handler, one of the system tasks, owns its bill, and its passes
are apart only as long as the lease of the system tasks keeps them apart. Top-up
orders (and subscriptions, redemption codes, check-ins) fill the wallets that sessions
and tasks draw on. Wallet, token and subscription are shared through the database. `QuotaCache`
opens up what `BillingSession` takes as one step, a read or a change of the wallet, for
the configurations with Redis or the batch updater. The playground sends relayed
requests like any other client; it sees of the server only events, answers and ends of
connections.

### 1.3 Components not modelled

| Component | Reason |
| --- | --- |
| Subscription orders, plans, upgrades; periodic reset | left for later (section 6) |
| Redemption codes, check-in | left for later |
| Relay retry loop, channel selection, affinity, disabling, channel quota | left for later; their outcome is an input of the models |
| Rate limiters, hybrid cache | left for later |
| Midjourney tasks | an older copy of the asynchronous tasks |
| Quota computation, prices, billing expressions | arithmetic; its results are inputs |
| Upstream adaptors and format conversion | data conversion, tied to external services |
| Authentication, options, logs, notifications, files | request-local or pure input and output |
| The rest of the web client, the desktop client | forms, tables and dialogs that show what the server answers; every rule is enforced there |

*Share of the code.* The modules follow the places where state is shared between
actors, a few thousand lines of Go and some eight hundred of TypeScript. By number of
lines most of the repository is the web client's forms, tables and translations, which
have no behaviour of this kind; measured against those lines the models cover very
little, and widening them would add size without adding a question worth asking.

## 2. Modules

| Module | Contents |
| --- | --- |
| `RequestBilling` | what billing promises of a request, without its steps |
| `BillingSession` | the billing session; `Billing == INSTANCE RequestBilling WITH ...` |
| `SystemTask` | rows, lock, loops and handlers of one task type |
| `TaskBilling` | asynchronous tasks and their bills |
| `TopUp` | orders, webhooks and the order lock |
| `QuotaCache` | a user's quota in row, batch store and Redis |
| `StreamText` | the text of one streamed answer: chunks, flush timer, tags |
| `Playground` | conversations, requests, refs, editor and reloads of the chat page |
| `MC...` | instances for TLC: profiles, submit times, placement of workers, symmetry |
| `...Proofs` | theorems and proofs about the module of that name; `SunoBillingProofs` continues `TaskBillingProofs` |

General conventions. A database statement, or a transaction, is one step; what a
goroutine computes between two of them belongs to the step before. A failing
statement is an action of its own (`...Fails`, bounded by `MaxFaults`), a crash loses
what is in memory (`MaxCrashes`). Amounts, statuses and positions are kept; texts,
times, logs and prices are not. History variables (what was written for a request, a
task or an order; which failures touched it) are read by properties only.

### 2.1 BillingSession

| State | Code |
| --- | --- |
| `userQuota`, `tokenQuota`, `tokenStatus`, `sub` | `users.quota`, `tokens.remain_quota`, `tokens.status`, the active subscription and its `amount_used` |
| `sess` | fields of `BillingSession` and its `FundingSource` |
| `pc`, `rpc` | position of the request's goroutine and of the one `Refund` starts |
| `tokenSnap` | `token_quota` in the gin context |
| `record` | status of the `SubscriptionPreConsumeRecord` |
| `walletNet`, `tokenNet`, `subNet`, `due`, `impaired` | history |

`Authenticate` is `ValidateUserToken`; `ChooseSource`, `TryWallet`,
`FallbackToSubscription`, `FallbackToWallet` are `NewBillingSession` with its closures;
`CheckToken`, `TakeToken`, `PreConsume...`, `Rollback...` are `preConsume`; `Serve`
with `Settle...` and `Fail` with `Refund...` and `Fee...` are the two ways a request
ends (`Relay`'s deferred function). The wallet decrement has no condition in the code
and has none in the model: the wallet may become negative.

The abstract `RequestBilling` knows a phase and a bill per request: a request is
opened once and closed once, its bill is written by the closing step, is final, and
charges one source (and the token the same) unless a failure disturbed it. The
refinement maps a request whose two goroutines are over to a closed one.

### 2.2 SystemTask

One type of task: rows and locks of different types share nothing. Times are kept
relative to a shared clock: `lock.left` is `locked_until - now`, `mage[r]` the age of
the timestamp runner r took before its current statements. `ScanLocks`, `ReapTask`,
`DropLock` are `ExpireStaleSystemTaskLocks`; `Schedule`, `ScheduleCreate` the
scheduler; `FindPending` to `UndoClaim` are `ClaimSystemTask`, one action per
statement; `Renew`, `Complete`, `Abandon`, `Finish`, `Release` the handler.
`Stalls` says whether a node may stand still for longer than the TTL between two
statements.

### 2.3 TaskBilling

`row` is the table, `work[p][t]` the copy of task t that the pass of poller p holds,
with what it will do next; `charged` and `token` are what source and token are charged
for the task. A submission is settled in two statements whose errors are only logged:
`SubmitUnsettled` has the source refusing or failing, which leaves both at what was
pre-consumed, and the token failing after the source was settled; `missed` and
`missedToken` are what the row claims and the one or the other was never charged.
An answer's own progress is stored as it is, so a row may be at 100% (`done`) and
unfinished, where no query finds it: `EveryTaskEnds` says that a task ends or comes there. `UpdateWithStatus` is the guard `Wins`; the Suno path saves without it
(`SunoSave`). `Overlap` says whether passes of two nodes may be at work at once: the
lease of `SystemTask` forbids it only while no node stalls (`OneWorker`). "realtime"
tasks (Gemini, Vertex) are the ones a user's fetch may write (`FetchStores`, bounded by
`MaxFetches`).

### 2.4 TopUp

`Enter`, `Acquire`, `Unlock`, `Leave` are the critical sections of `LockOrder` and
`UnlockOrder`; `users[m]` is the set a mutex's `refCount` counts. `Fulfill` and
`ManualComplete` are transactions with a row lock; `EpayRead`, `EpaySave`,
`EpayCredit` are three statements, `AsyncFailedRead` and `AsyncFailedSave` two. Their
saves, and the one of a refused Waffo request, write the whole row as it was read
(`StaleSave`); a save over a row that is not pending any more is recorded in `spoiled`,
and `Overtaken` says that it took two nodes. Stripe's session is opened before the row
is inserted, so a failing insert leaves a session without an order (`RequestPayFails`).
Amounts are left out: no property reads them.
The gateway (`Pay`, `Close`, external) decides which notifications are possible; they
may come at any time afterwards, any number of times, to any node.

### 2.5 QuotaCache

`db`, `store`, `taken` and `cache` are the row, the delta of the user in
`batchUpdateStores`, the one in the hands of `batchUpdate`, and the hash with what
matters of it: its quota, whether all fields are there, whether it has a TTL. `jobs` are
the goroutines that will write the hash; `TTL` and `Exec` are the two commands of
`RedisHIncrBy`, between which the key may expire. `config` (Redis on or off, updater on
or off) is fixed when the node starts and all four are explored. `ReadCache`, `ReadDB`,
`Decide` are `GetUserQuota` and the check of `tryWallet`; `Change` and `ChangeFails` are
`IncreaseUserQuota` and `DecreaseUserQuota`; `ChangeRow`, `Credit`, `Override` the
changes that go to the row past the store, each with what it does to the hash.
`InviteRead` and `InviteSave` are the two statements of `inviteUser`, which reads the
inviter's row without a lock and saves all of it: what reached the row in between is
undone, and `undone` says by how much. `HSetObj` sets an expiry: `RedisKeyCacheSeconds`
is taken to be positive, as `SyncFrequency` is.

### 2.6 StreamText

A text is a sequence of words and of halves of tags: `<think>` and `</think>` are two
tokens each, so that a chunk, and with it what the timer moves to the message, may end
inside a tag. Half a tag reads as plain text until the rest of it comes. `HandleStreamUpdate` merges a chunk
into `pending` (`mergePendingStreamChunk`), `FlushTimer` and the three ends of an answer
move `pending` to the message (`flushStreamUpdates`, `applyStreamingChunk`,
`getAppendableChunk`, `processStreamingContent`); `finalizeMessage` splits the content by
its tags. `parseThinkTags` is the code's scan; the reference it is checked against says
of each token whether it lies inside a block. The history variable `cut` says that the
timer once left the message with the first half of a block's `</think>` at its end: a block
that holds nothing else then keeps that half as the reasoning on the page, since
`processStreamingContent` replaces a reasoning only by one that is not empty.

### 2.7 Playground

An action is one JavaScript event. `view` is the last drawing: handlers of clicks use its
messages and its `isGenerating`, while callbacks of the network work on the state itself.
A click's own changes are drawn at once, others by `Render`, some time later. A message's
text is the set of requests that contributed to it (how, is `StreamText`).
`sendStreamingChat` and `sendNonStreamingChat` are the two ways of `sendChat`;
`HandleStreamUpdate` to `ConnectionEnds` the listeners of the source; `ResponseArrives`,
`RequestFails` and `Finally` the rest of a plain request after its await; `Reload` is a
reload of the page at any moment, with `sanitizeMessagesOnLoad`; it ends every request, as
closing the document does. An error or a plain answer adds to the set of a message's
contributors and removes none, since the code keeps the message's reasoning. Drawing is
external: React is not part of the repository. For the same reason leaving the page inside
the application is not modelled: the hooks then clear only the flush timer, source and
request go on, and what becomes of their updates of an unmounted page is React's.

The history variable `overlapped` holds the requests that were under way at the same time
as another. Every button that sends is off while the page waits, except the editor's: an
edit submitted while an answer arrives starts a second request. `sendChat` then neither
aborts a plain request that is under way nor clears the chunks that wait, so that they
write where the newer request's message now is. The properties on text and on unfinished
messages therefore speak of requests outside `overlapped`.

## 3. Runs

| Run | Instance | Shows |
| --- | --- | --- |
| `billing_safety` | 2 requests of every preference, wallet 4, token 4, subscription 3, one fault, one crash | `ChargedExactly`, `NeverOverRefunded`, `OneFundingSource`, `WithinTotal`, and the inductive invariant |
| `billing_promise` | 2 contending requests, wallet 1, subscription 1, fairness | `KeepsPromise` (refinement of `RequestBilling`), `NoneStuck` |
| `billing_refund_retry` | as `billing_safety` | **violation** of `RefundIdempotent` |
| `system_task_recovery` | 2 nodes, no stalls, 2 rows, one fault, one crash, fairness | `ExecutedOnce`, `OneLife`, `OneWorker`, `NoOrphan`, `RowsEnd`, and the inductive invariant |
| `task_overlap` | a video task, 2 overlapping passes, one fault, one crash | `VideoBill`, `EndIsFinal`, and the inductive invariant |
| `task_serial` | a task of any kind, passes of 2 nodes that take turns, one fetch, one fault, one crash, fairness | `SunoBill`, `NeverOverRefunded`, `EveryTaskEnds` |
| `task_realtime_refund` | one realtime task, no failures | **violation** of `NoDoubleRefund` |
| `topup_orders` | an order of any provider, 3 workers on 2 nodes, one fault, one crash | `OrderExclusive`, `NoLockLeak`, `CreditedOnce`, `CreditMatchesStatus`, `EndedStays`, and the inductive invariant |
| `topup_two_nodes` | an Epay order, 2 nodes | **violation** of `NoDoubleCredit` |
| `quota_cache` | 2 requests at a time, two changes (admissions, changes from outside or calls of `inviteUser`), 2 goroutines, one fault or crash; Redis and updater on or off; fairness | `Ledger`, `OverdraftBound`, `CacheHeals`, and the inductive invariant |
| `stream_text` | contents of up to 6 tokens (a tag is 2) in chunks of 1 to 3, reasoning of 1; fairness | `DeltasShown`, `SnapshotContent`, `FinalText`, `ChunksShown`, and the inductive invariant |
| `playground_chat` | 2 conversations, 2 requests after an earlier answer, 2 edits or deletions; fairness | `OwnText`, `PendingIffGenerating`, `OneUnfinished`, `FinishedStays`, `GenerationEnds`, and the inductive invariant |

*Bounds.* Two requests, two nodes, two passes are the smallest instances with a race,
and the code has no three-party coordination; three workers on two nodes give a race
on one node and one across nodes at the same time. Balances and estimates are chosen so that each request alone, and
both together, are below, at and above what is there, and so that trust (3) applies to
one and not to the other. One fault and one crash give every single point of failure
in every interleaving, including a crash after a failed write. A TTL of 1 with
timestamps of age up to 2 gives leases that are valid, at their last moment and
expired. Submit times lie on both sides of `legacyTaskCutoff`. Quotas of 1 and 3 with a hold of 2,
a cost of 0 or 3 and trust above 2 refuse, admit and trust requests, and let two overdraw;
two goroutines are what it takes to write the hash out of order. Six tokens of content
hold a whole `<think>` block with words inside and on either side, or three tags, nested,
unclosed or stray, each of them in one piece or cut by the timer; snapshots need chunks of
up to three tokens to grow twice. One fetch beside the passes of `task_serial` is what it
takes to write under a copy. Two requests in the playground are one that is ended and one that it could
disturb. The theorems of
section 4 hold without these bounds.

*Nodes that stall* are in no run any more, only in the theorems: `SingleActiveRow`,
`AtMostOnce` and `LifeCycle` hold with them, `MutualExclusion` and `Recoverable` are
theorems about nodes that do not stall.

*Deadlock.* `BillingSession` and `TopUp` are checked for deadlock (`BillingSession` has
`Terminated` for the state in which all requests are over). `SystemTask` and
`TaskBilling` may come to rest because their rows are bounded, or because every node
crashed; `QuotaCache`, `StreamText` and `Playground` when their requests are used up or the
answer has ended.

*Symmetry* is used for requests and pollers in runs of invariants and action
properties; no run with a liveness property uses it.

*Fairness.* `BillingSession`: a started goroutine is scheduled (weak fairness of
opening, closing and refunding); nothing is assumed of arrivals, of the upstream's
answer, of expiry or of crashes. `SystemTask`: the ticker drives the loop of a live
node (weak), its reaping scan comes round again and again (strong: `ScanLocks` is the first
statement of each pass, and is not enabled during the rest), handlers make progress and
honour their context (weak), time passes (weak). `TaskBilling`: the runner
keeps starting passes and a pass keeps going, time passes, a submission that is
charged is inserted or fails to be (weak each). `QuotaCache`:
`batchUpdate` runs every interval, started goroutines are scheduled, a key with a TTL
expires (weak each); nobody has to send requests. `StreamText`: the browser fires a timer
that is set. `Playground`: in addition the server ends every answer one way or another, and
React draws; no click is assumed. For a stream the relay sees to that (`STREAMING_TIMEOUT`,
300 seconds unless set); that a plain request is answered or its connection breaks is an
assumption on the environment, since `RELAY_TIMEOUT` is 0, no limit, unless set, and the
client sets no timeout of its own. No fairness is assumed of faults.

## 4. Proofs

Proved with TLAPS, for every value of the constants that satisfies the named
assumptions of the modules (types of the constants, ids of "none" outside their sets;
`TimesAssumption` in addition says that without stalls no timestamp in use is older
than the TTL):

| Module | Theorems |
| --- | --- |
| `BillingSessionProofs` | `Invariance`, `TypeCorrect`, `NoOverRefund`, `SingleSource`, `NeverBeyondTotal`, `ExactCharge`, `PromiseKept` |
| `SystemTaskProofs` | `Invariance`, `TypeCorrect`, `SingleActiveRow`, `AtMostOnce`, `LifeCycle`, `MutualExclusion`, `Recoverable` |
| `TaskBillingProofs` | `Invariance`, `VideoBilling`, `VideoEndIsFinal` |
| `SunoBillingProofs` | `SerialInvariance`, `SunoBilling`, `TaskNeverOverRefunded` |
| `TopUpProofs` | `Invariance`, `Exclusion`, `NoLeak`, `OneCredit`, `LedgerMatches`, `EndIsKept` |
| `QuotaCacheProofs` | `Invariance`, `LedgerBalances`, `BoundedOverdraft`, `WritesThrough` |
| `StreamTextProofs` | `Invariance`, `DeltasKept`, `SnapshotsShown`, `ParseIsReference`, `AnswerEndsSplit` |
| `PlaygroundProofs` | `RefsAgree`, `Invariance`, `AnswersKeepTheirText`, `WaitingIsShown`, `UnfinishedIsLast`, `FinishedAnswersStay` |

Each module has an inductive invariant `IInv`, which a run also checks; the proofs have
one lemma per action and combine them in `Invariance`.

*BillingSession.* The properties speak of requests that are over; the invariant has to
say what is held in between. `LedgerExact` reads the net charge of an undisturbed
request off the positions of its two goroutines: what is still held and will be given
back, plus what is owed for good. `LedgerCovers` is the part that survives failures:
what was taken covers what may still be given back. `SessionShape` ties the fields of
the session to the positions (for instance that a refund runs only beside the fee, and
that pre-consumed, funded and token amounts agree).

`PromiseKept` is the refinement of `RequestBilling`. The mapping reads the abstract phase
and bill off the positions of the two goroutines (`BillPhase`, `FinalBill`, `Disturbed`).
A lemma per kind of step says what it is above: an arrival opens the request or turns it
away, a failed write disturbs it, the step that ends the last of its two goroutines closes
it and writes the bill, a crash closes all open requests at once as disturbed ones, and
every other step is a stutter. That the bill so written charges one source, and the token
the same, is `LedgerExact` (`LedgerCovers` for a disturbed one).

*SystemTask.* `RowLife` (an active row has the key, a row has no handler before it runs)
is enough for `OneActiveRow`, `ExecutedOnce` and `OneLife`, with or without stalls.
Without stalls, `LeaseHeld` says that whoever is at work or in the middle of a claim
holds an unexpired lock, and `StampsFence` that the timestamp of a loop that may still
drop or take over a lock is older than any row that runs under it; together they give
`OneWorker` and `NoOrphan`.

*TaskBilling.* A bill has an owner: an open row is charged its quota and nobody bills
it, copies of it carry its quota (`OpenRow`), the pass that wins the status is the only
biller (`OneBiller`), and what it is about to change is what it has copied
(`WorkShape`). For source and token alike this is said of the charge together with what the
submission's settlement left out (`missed`, `missedToken`). `Undisturbed` relates bill and status when nothing failed.

Suno rows are saved without a condition on the status, so for them ownership comes from
the passes' taking turns. `SerialInv` adds to `IInv` that without `Overlap` at most one
pass has work in hand (`OnePass`) and, of a Suno task nothing disturbed, what row, charge
and copy are at each position of that pass between the refund and the save (`SunoWork`) and
between two passes (`SunoInv`).

*TopUp.* `LockSafe` and `MutexSafe` say that a mutex in use is the one in the map, is
counted by its users and held by at most one of them: so deletion by reference count
never lets two calls in. `OpenUncredited`, `Owns` and `Ledger` say that the credits
follow from the status and from the call between save and credit; `StaleSpoils` that only
Epay and Stripe orders, and only when two nodes serve them, are saved over another call's
end by a call inside the lock.

*QuotaCache.* `Ledger` is inductive with `OnlyBatchLoses` and `UpdaterIdle` (without the
updater the store is empty; an updater that has written holds nothing). A save of
`inviteUser` takes from the row what it adds to `undone`, so their sum is what it was; that
the loss is exactly this and no more is what `Ledger` says of it. The overdraft needs
`Exposure`: the row covers what every admitted request may still charge, down to the bound.
A request is admitted only against a row that covers its hold, and each step moves one
request from one of the two sets of `Exposure` to the next, so the proof is arithmetic on
cardinalities; what the administrator or a save of `inviteUser` takes off the row is the
term `cut`. `WritesThrough` is `OnlyBatchLoses` as a theorem of its own.

*StreamText.* While the answer streams, message and `pending` together are what was
received. For deltas that is `RawContent` and `RawReasoning`, provided no chunk was taken
for a snapshot. For cumulative chunks `SnapshotPrefix` says that the page has a beginning
of the last chunk and that `pending` is that chunk, or empty with the page up to date; the
lemmas on prefixes show that each merger keeps it, so that guessing twice does no harm.
`EndedIsFinal` and `RawText` say that the raw text stays in the message until the answer
ends. `Streams` is the conjunction of these that is inductive.

`ParseIsReference` says that the scan of `parseThinkTags` splits every text as the reference
does, which decides for each token by itself whether it is inside a block. The scan stands
at a position outside all blocks after every round (`Blocks`), and what it adds from there
on is the rest of what the reference picks (`ParseRest`); both are recursive functions, so
the proof first shows that they exist (`PickExists`, `ParseExists`) and then looks at the
greatest position at which they disagree. `TagsRead` carries this through the stream: without
`reasoning_content` the reasoning on the page is what the blocks of the content so far hold,
and as long as they hold nothing it is `reasoning_content`; it needs that blocks once begun
do not lose text when content is added (`ReasoningGrows`), which is so unless the text added
to ended in the first half of a block's `</think>`: hence `cut`. With `TagsRead`, `FinalText` is
inductive (`Split`).

*Playground.* The invariant has four layers. `Wired` (inductive with the types alone)
ties source, controller, request number and flags of the two hooks together, so that the
`finally` of an aborted request takes nothing from the next one and the stop button
reaches the request that runs. `Distinct` (the
question and the answer of a request occur once in all conversations) and `ViewFollows`
(the last drawing has the messages of the open conversation in the same places, and equals
them when it shows no answer under way) are what makes it harmless that clicks work on the
drawing and events on the state. `InFlight` says where the answer of a request under way is
to go: to the last message of the open conversation, which is the answer to the last
request. On these rest `OwnText` with `DrawnOwn` (the same of the drawing), `UnfinishedRuns`
with `DrawnFinished`, and `WaitsForMessage`. The proof has one lemma per action. The
updates of a conversation are told by what they change (only the last message, `Touched`),
clicks on a page that does not wait only drop messages (`From`), and requests replace the
open conversation by what was drawn and a new answer (`Asked`). Facts about all positions
of a filtered or cut sequence need the least position at which they fail (`LeastNat`, from
`WFMin` and `NatLessThanWellFounded`), in place of an induction.

Only model-checked: liveness (`NoneStuck`, `RowsEnd`, `EveryTaskEnds`, `CacheHeals`,
`ChunksShown`, `GenerationEnds`), which TLAPS does not do under fairness, and the
violations. Every invariant and action property that a passing run checks, and the
refinement, is a theorem.

## 5. Findings

1. **A subscription refund can be given back several times** (`billing_refund_retry`,
   `model/subscription.go:1833`). The usage is returned in a transaction of its own;
   if marking the record then fails, `refundWithRetry` returns it again, although the
   comment calls the function idempotent.
2. **A fetch revives a refunded task** (`task_realtime_refund`,
   `relay/relay_task.go:486`). The sweep fails and refunds a task; a fetch stores the
   upstream's "in progress"; the next sweep refunds it again.
3. **Two nodes credit one Epay order twice** (`topup_two_nodes`,
   `controller/topup.go:464`). The order lock belongs to one process, and `EpayNotify`
   takes no row lock.

Observations without a run: a claim that stalls for longer than the lease sets its row
running without a look at the lock, which another node may have reaped; no pass finds the
row again and its key blocks the type (`model/system_task.go:246`); the administrator's
completion of a Creem order multiplies the amount by `QuotaPerUnit`, which the webhook does
not (`model/topup.go:388`); an increment of a hash that expires between `TTL` and `HINCRBY`
leaves a hash of one field with a bare delta, which is read as the quota until it expires
(`common/redis.go:285`); a delta that begins with the text that waits is taken for a
snapshot and lost in part (`hooks/use-chat-handler.ts:58`); the message editor works while
an answer is received, and saving replaces the conversation by the last drawing
(`hooks/use-playground-conversation.ts:76`); submitting such an edit starts a request beside the one under way, whose late text
may land in the message of the second, or leave a message loading (`hooks/use-chat-handler.ts:231`); chunks that come in one piece with an event
that cannot be parsed reach the next answer (`hooks/use-stream-request.ts:92`); a connection
that ends without `[DONE]` leaves the page waiting until it is stopped; a task whose channel has vanished is failed in bulk and
not refunded (`service/task_polling.go:389`, against the warning at
`TaskBulkUpdateByID`); an unfinished task that an answer stores at 100% is in neither query
from then on and stays charged and unfinished (`service/task_polling.go:560`,
`model/task.go:295`, `model/task.go:311`); a submission whose token could not be adjusted
after its source was settled keeps the token at what was pre-consumed, and a refund later
returns the full quota to it (`service/billing_session.go:68`); Stripe's
`async_payment_failed` on one node saves its copy over `AdminCompleteTopUp` on another, and
the order says failed while the user keeps the credit (`controller/topup_stripe.go:252`);
`inviteUser` saves the inviter's row as it read it, which undoes the charges and credits in
between (`model/user.go:484`); an answer that begins `<think></thi`, `nk>hello` with the
timer between the two ends with `</thi` as its reasoning
(`lib/message/message-streaming-utils.ts:57`); `legacyTaskCutoff` is 2025-02-22 and its comment says 2026; Suno
tasks are refunded before their row is saved, so that a failed save refunds them again
on the next pass; any Waffo status but success fails the order; an Epay credit is lost
when the process dies between saving the order and crediting it; the branch for tasks
without an upstream id in `RunTaskPollingOnce` is never taken, since
`GetUpstreamTaskID` falls back to the task's own id; nothing calls
`BillingSession.Reserve`.

Where a property exempts a case (`missed`, `missedToken`, `disturbed`, `spoiled` with
`Overtaken`, `impaired`, `lost`, `undone`, `repeated`, `cut`, `broken`, `staleSave`,
`overlapped`), the code
really does otherwise there; the comment at the property and the hazard's note name it.

## 6. Not modelled, and what could follow

Written, in this order: `RequestBilling` and `BillingSession`, `SystemTask`,
`TaskBilling`, `TopUp`, `QuotaCache`, `StreamText`, `Playground`, each with its runs and
proofs. Of these parts the following is left out: the token's quota in `QuotaCache`; shared
conversations, messages of the old storage format, a second tab, leaving the page inside the
application, parameters and the image and speech generators in the playground; prices, signatures, texts and logs everywhere.

What a reader may want next, most useful first:

1. `SubscriptionQuota`: several subscriptions, the periodic reset between a
   pre-consumption and its refund, expiry; the abstract usage counter it implements.
2. `SubscriptionOrders`, `Redemption`, `Checkin`: the other ways of crediting a user,
   purchase limits under concurrency, the manual rollback on SQLite.
3. `ChannelSelection`: priorities, retries, groups, disabling of channels and keys, the
   cache beside the table; that the retry loop ends and uses enabled channels.
4. `RateLimit` and `HybridCache`.
5. `PolledTasks`: `SystemTask` and `TaskBilling` together, with `Overlap` replaced by
   the lease.
