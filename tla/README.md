# Formal models of the astrology server

The repository is a NestJS server (`src/src`) over MongoDB, with REST controllers, socket.io gateways and
cron jobs. People buy wallet money, spend it on chats, calls, gifts and live-stream calls with astrologers,
and astrologers withdraw half of what they earn. This directory holds TLA+ models of the parts that move
money, decide who may talk to whom, or keep state that several handlers change, TLC configurations that check them
on small instances, and proofs that TLAPS checks for every instance.

Contents: [the system](#1-the-system) · [the modules](#2-the-modules) ·
[the runs](#3-the-runs) · [the proofs](#4-the-proofs) ·
[where code and documents disagree](#5-where-code-and-documents-disagree) ·
[what is not modelled](#6-what-is-not-modelled) · [the plan](#7-the-plan)

To repeat a run: `tlc -workers 2 -config wallet_all.cfg MCWallet`; a proof: `tlapm WalletProofs.tla`.

## 1. The system

One Node process serves every request. JavaScript runs one handler at a time, but a handler gives way at
every `await`, and every database access is one: two handlers interleave between their reads and writes, not
inside them. Mongoose documents are read whole, changed in memory and `save()`d; a save writes the fields
that differ from what was read, and does not look at what was stored meanwhile (array pushes excepted).
Some handlers run in a MongoDB transaction, where a commit over a document changed since the
snapshot is refused. Timers, tickers, socket rooms and several `Set`s live in memory and are lost in a restart;
crons sweep what a lost timer left behind. These facts make the hard behaviours of every part below.

### 1.1 Components that are modelled

**User wallet and its ledger** (`payments/services/wallet.service.ts`, `gift.service.ts`, and the wallet writes of
the admin, AI chat and matrimony services).
State: `users.wallet` with `cashBalance`, `bonusBalance` and their sum `balance`; a `WalletTransaction` row for every
movement; gift cards with a redemption count; bank refund requests. Operations: fourteen handlers that debit,
credit, redeem, gift, adjust. Called by chats, calls, streams, matrimony and the administrator, directly.
Hard: handlers in a transaction, handlers that read before their transaction starts and handlers
without a transaction meet on one document; a restart between two saves. Correct when the rows add up to the
wallet, no balance is overdrawn, no card is redeemed beyond its limit.

**Recharges and refunds** (`wallet.service.ts`, `payment-webhook.controller.ts`, `razorpay.service.ts`,
`apple-iap.service.ts`). State: a recharge row from pending to completed, failed or refunded, the payment at the
gateway, the welcome claim. Operations: create, verify (by the app and by the webhook), refund by an admin, verify an
Apple receipt, take back on Apple's notification. Hard: app and webhook verify at once; the webhook comes again or
not; the gateway is called in the middle of a transaction that may abort afterwards; the bonus is priced outside the
transaction. Correct when no payment is credited twice or never, none is taken back twice, each bonus is granted once.

**Paid chats** (`chat/services/chat-session.service.ts`, `chat/gateways/chat.gateway.ts`,
`calls/services/session-cleanup.service.ts`). State: the session document (initiated, waiting, active, then ended,
cancelled or rejected), three timers and a ticker in memory, the astrologer's `busyUntil`. Operations: request,
accept, reject, cancel, join, start, extend after a recharge, end, pay, credit, complete, and two crons. Hard: end_chat,
ticker, timer, admin and cron end one chat at once and nothing locks it; late saves put an old status over a
new one; a restart loses the timers; the payment fails after the session was priced. Correct when a chat costs the minutes begun
within its limit and nothing without an answer, a closed request stays free, an astrologer
and a user have one chat at a time, and every chat and request comes to an end.

**Astrologer availability** (`astrologers/services/availability.service.ts` and its callers). State: `isOnline`, `isAvailable`,
`busyUntil`, `isLive` in the astrologer document, which chats, calls, conversation orders, streams, crons and the
astrologer set and clear, and the sessions that the check reads next to them. Hard: each writer knows of its own session only, and the
flags are written after the document. Correct when an astrologer in a session is not asked by a stranger and is not
left unavailable by a session that is over.

**Paid calls** (`calls/services/call-session.service.ts`, `calls/gateways/calls.gateway.ts`). As a chat, but the end is an
atomic `findOneAndUpdate`, the gateway keeps the set `processingEndCall` and its own count of seconds, and the
call starts when both `user_joined_agora` events have been stored. Hard: the two joins race; `save()`s of
accept, start, cancel and reject land after the lock; the ticker that measures the call is lost in a restart.
Correct when each opening is billed once and every connected call is billed, within its limit.

**Earnings, penalties, payouts** (`astrologers/services/earnings.service.ts`, `penalty.service.ts`,
`payments/services/payout.service.ts`, `admin/features/payments/services/admin-payments.service.ts`). State: six
running amounts in the astrologer document, the penalties, the payout requests. Hard: no handler uses
a transaction; amounts are recomputed from an astrologer read earlier while bills add to it; a handler is cut between
the payout's save and the amount's lock; a support ticket approves a payout whatever its status. Correct when one
payout is open, no more than half of the earnings is paid, and the amounts agree with the documents.

**Live streams** (`streaming/services`, `streaming/gateways`, `agora-recording.service.ts`). State: the stream document with its waitlist,
running call and revenue; a transaction per call; viewer records and a count; in memory the sockets, the room, the host's heartbeat
and the interval of a call; a cloud recorder. Operations: go live, join, leave, kick, ask for a call, accept, end the call, give, end
the stream (host, administrator, lost socket, missing heartbeat). Hard: every handler saves what it read, and Mongoose protects the waitlist
alone; a call ends by the interval, the host, the caller and the end of the stream at once. Correct when each call is billed once, an
ended stream has nobody waiting or talking, one stream per host is live, the count is of those who watch, no recorder is left running.

The other components are smaller: a few documents, a handful of handlers, and mostly no call between one and another.

| Component | State and operations | Hard | Correct when |
|---|---|---|---|
| Threads (`orders.service.ts`) | one order per user and astrologer: history, totals, recordings; session ordered, cancelled, ended, booked | two ends compute totals from one read, or book one chat twice; a late save reopens a call; the astrologer is credited twice | the history has a session as often as it was booked, the totals agree with it, and the astrologer was credited for all that was spent |
| Refunds of orders (`admin-orders.service.ts`) | request, approve, reject, refund directly | credit and save are two transactions; administrators overlap | an order says *refunded* only if it was, and a request is paid once |
| Reviews | review, moderation, the order's mark, the astrologer's rating | rating recomputed after the save, from another read | the rating is that of the approved reviews, one review per order |
| Remedies | suggestion, answer, purchase reported by a webhook | webhook and answer meet | what was bought is marked and is not waiting for an answer |
| AI chats | chat, wallet, greeting, grace after a disconnect, cron | ticker, user, grace and cron settle one chat; a restart | an ended chat is paid once, no wallet goes negative, it does end |
| AI voice calls | call, ticker, Gemini socket or Vapi call, webhook, transcript | socket, kill switch, report, cron and request end one call | paid once and within what the balance allowed; what Vapi does after the end is not reported |
| Login, codes, deletion | code with a timer, attempts, hourly limit; accounts deleted, restored, erased | timer of an older code, cron against restoring login | a code works once and as long as promised; what was restored is not erased |
| Tokens and devices | token pair, device, logout, suspension, change of number | a refresh reads an account that changes | who is let in has today's number, one device in single device mode |
| Administrators | accounts, login lock, roles | lock and suspension share one field | a lock is earned and lifts no suspension |
| Registration, profile, bank accounts | rounds and decision with the profile it creates; prices, rate, places; primary account | two administrators; save of a whole document | a decision is backed by a profile; earnings kept; one primary, no number twice |
| Blocking | two lists asked by chats, calls, streams | check and start are apart | nobody begins with whom they blocked |
| Messages and presence | messages, receipts, reactions, room, sockets | two tabs; leave between look and emit | each message is told and counted |
| Notifications, schedules | row, sockets, push; a cron that sends what is due | cron overlaps itself, restarts half-way | reached as recorded, not twice, *sent* means everybody |
| Gifts | wallet in a transaction, earnings and stream revenue after it | what follows the commit may fail | taken from bonus then cash; counted for the astrologer |
| Support tickets | ticket, its twin at Zoho, refund, webhook, access token | webhook and administrator close one ticket; token expires | refund paid once, both sides agree |
| Report and puja bookings | booking, signature, PDF | retry while a PDF is being made | paid means signed; made once |
| Matrimony | interests, matches, packs of messages | quota read before it is written | matches counted; each paid message can be sent |
| Readings, muhurats, the engine | manual texts, caches in memory and files, charts | two requests fill one cache; terms; restarts | an administrator's text first; the chart is that of who asked; limits hold |

### 1.2 Components that are not modelled

Pure functions of birth data (astronomy, numerology, compatibility), PDF layout, site content, search, analytics, uploads, the shop's mirror,
tokens for media, single-document edits and wiring: each writes one document in one step, calls an external
service or formats an answer, and has no state that two writes must agree on. Saved calculations of a user (the last fifty) are left out
for their size. Two services have no caller in the repository: the hold, charge and refund of
`order-payment.service.ts`, and `call-billing.service.ts`. `PROJECT.json` lists each with the reason.

## 2. The modules

All modules have the same shape. A **request slot** (`req[r]`, `Requests`) holds one running handler: its kind, where it
is (`pc`) and what it has read. A handler's first action makes the reads and checks that the code makes before its first write;
every later action is one write, or one transaction. So TLC explores exactly the interleavings that `await` allows, and the number of
slots bounds how many handlers overlap. Operators whose comment starts with `Fault:` are
wrong versions of the definition after them; they exist to show that a property can fail and occur in no specification.

| Module | Models | Extended by |
|---|---|---|
| `Account` | the abstract wallet: funds and statement move in one step | instance `A` of `Wallet` |
| `Wallet` | all handlers that move wallet money | `MCWallet`, `WalletProofs` |
| `Recharge` | Razorpay and Apple recharges, refunds, bonuses | `MCRecharge`, `PaymentProofs` |
| `ChatSession` | a chat from request to bill, and the busy flag | `MCChatSession`, `ChatProofs`; instance in `MCServices` |
| `CallSession` | a call from request to bill | `MCCallSession`, `CallProofs`, `MCServices`, `MCProgress` |
| `Payouts` | one astrologer's earnings, penalties and payouts | instances in `MCServices`, `PaymentProofs` |
| `Handlers` | the slots `work[r]` that the modules below share | all of the following but `Notices`, `Audience`, `Recording` |
| `Stream`, `Audience`, `Recording` | a live stream, who watches it, what records it | `MCStreaming` (`Stream` extended); `Stream` in `MCProgress`; `Audience`, `Recording` in `CallProofs` |
| `Availability` | the flags that chats, calls, streams and orders of one astrologer share | `MCServices`, `MCProgress`, `CallProofs` |
| `Threads`, `Refunds`, `Reviews`, `Remedies`, `Gifts` | what follows a session, and gifts | `MCServices` (`Refunds` extended); `Threads` in `ChatProofs`, `Gifts` in `PaymentProofs`, `Reviews`, `Remedies` in `WalletProofs` |
| `AiChat`, `AiVoice` | chats and calls with an AI astrologer | `MCServices`; `AiChat` in `MCProgress`, `ChatProofs`; `AiVoice` in `CallProofs` |
| `Login`, `Tokens`, `Admins` | codes and accounts; tokens and devices; administrators | `MCServices`, `PaymentProofs` |
| `Registration`, `Profile`, `BankAccounts`, `Bookings`, `Tickets`, `Matrimony`, `Blocking` | as named | `MCServices`; `Registration`, `Blocking` in `ChatProofs`, `Bookings`, `Tickets`, `Matrimony` in `WalletProofs`, `Profile`, `BankAccounts` in `PaymentProofs` |
| `Messages`, `Notices`, `Scheduler` | chat messages, notifications, scheduled ones | `MCServices`; `Messages`, `Notices` in `ChatProofs`; `Scheduler` extended by `MCProgress` |
| `Readings`, `Muhurat`, `Engine` | horoscopes, auspicious days, the answering engine | `MCServices` |
| `SumTheorems` | nothing: sums over finite sets, for proofs about money | `WalletProofs`, `PaymentProofs`, `ChatProofs` |

The proofs about `Wallet`, `Recharge`, `ChatSession` and `CallSession` have modules of their own; those about `Stream`, `Scheduler` and `Refunds`
follow the specification in its module, where the properties end. After its main component a proof module treats smaller ones, each through a plain instance of its specification:
`PaymentProofs` has `Payouts` (`P`), `Gifts` (`G`), `Profile` (`Prof`), `Login` (`L`), `BankAccounts` (`Acc`), `Admins` (`Adm`) and `Tokens` (`Tok`); `CallProofs` has `AiVoice` (`V`), `Availability` (`F`), `Recording` (`Rec`) and `Audience` (`W`); `ChatProofs` has `Blocking` (`B`), `Threads` (`H`), `Registration` (`R`), `AiChat` (`I`), `Notices` (`N`) and `Messages` (`Msg`); `WalletProofs` has
`Bookings` (`K`), `Tickets` (`T`), `Remedies` (`Y`), `Matrimony` (`M`) and `Reviews` (`Rev`).

### 2.1 Account and Wallet

`wallet[u]` keeps the three stored fields, `booked[u]` the signed sum of the user's rows, `redeemed[c]` a card's
count, `refund[q]` a bank refund request. The fourteen handlers differ in two things only: the function they apply
(`applyDebit`, `AdjustDown`, `SettleAi`, ..., chosen by `NewWallet`, checked by `Allowed`) and how they read and write, which makes four classes:

| Class | Handlers | Actions |
|---|---|---|
| `Transactional` | deductFromWallet, processSessionPayment, refundToWallet, creditToWallet, redeemGiftCard, addUserBonus, deductUserBonus | `Commit` (refused over a changed document), `Abort` |
| `StaleRead` | sendGift, processWalletRefund | `CommitStale`: the transaction starts after the read |
| `RowFirst` | deductFromUser, deductForMatrimonyChat | `SaveRow`, `SaveUserAfterRow` |
| `UserFirst` | adjustWalletUp, adjustWalletDown, settleAiSession | `SaveUser`, `SaveRowAfterUser` (the schema rejects the row of an admin deduction) |

`stale` in a slot says which documents others have changed since it read them. `torn[u]` is history: a wallet write was lost, or
left without its row. Lifetime totals (`totalSpent`, ...) are left out. The hold API, `createWalletRefundRequest`,
`creditToAstrologer` and `creditAstrologerEarnings` have no callers.

`Account` is what the wallet promises: one step moves funds and statement together, on a decision about the funds of that
moment. `ImplementsAccount` maps `funds` to the stored cash and bonus and `statement` to `booked`.

### 2.2 Recharge

`row[t]` is a recharge's row, `gate[t]` the payment at the gateway (external), `taken[p]` the refund row of an Apple
purchase, which states the whole price, and `forgiven[u]` (history) what such rows state and the wallet did not have. `VerifyBegin`, `PriceBonus` and `CommitCredit`/`CommitFailed` are `verifyPayment`, begun by the app
(`ClientVerify`) or by the webhook (`Webhook`); `RefundBegin`, `RefundApi`, `CommitRefund` are
`refundRazorpayTransaction`; `AppleBegin` joins `CommitCredit`; `AppleRefundBegin` and `CommitAppleRefund` are the
notification. `Abort` is a write conflict, `Crash` a restart, `Spend` another handler's payment from the same wallet.
The claim row kept per phone hash over deleted accounts is the user's own welcome row here.

### 2.3 ChatSession and CallSession

`ses[s]` is the document, `timer[s]` what is armed in memory, `elapsed[s]` the seconds since `startTime`, looked at in
`Moments`. A **closing** handler (reject, cancel, timeouts, the hung-request cron) is one pattern with a target status.
`EndBegin` reads and prices, `Pay` and `Credit` are the two calls of the payment's `try`, `Unpaid` its `catch`,
`EndSave` the save, `CompleteSession` the order's booking. `Wait`, `Ages` and `BusyLapses` pass time; `Spend` and
`Recharge` are other handlers on the wallet; `HandlerFails` is a database error outside the `try`; `Restart` empties memory.
In `CallSession` the end is `Lock`, the atomic update, and `ending` is `processingEndCall`. `joined` keeps the two Agora
flags, and a `JoinSave` writes only the flag its handler set. History variables: `longest` (longest limit given), `shut`
(cancelled or rejected), `opened` and `bills`.

Simplifications, each where the code allows it: the two ways to create a call differ in their timer only and are one
action; arming a call's timers takes no minute; the penalty of an unanswered request, the order's own status, rooms,
recordings and AI voice calls are left out; a call does not touch the busy flag here (the chat module shows what it does).

### 2.4 Payouts

`earnings` holds the six amounts. `UpdateEarnings` is one atomic `$inc` and may happen between any two steps of a
handler. `RequestBegin`, `CapCheck`, `OpenCheck`, `RequestSave`, `LockAmount` are `requestPayout` in its order;
`HandleBegin`, `CompleteCheck`, `HandleSave`, `ReleaseAmount`, `Deduct` are the administrator's four handlers;
`ApproveByTicket` is the support ticket's approval; `PenaltyBegin`/`PenaltySave` apply or waive; `StatsBegin`, `StatsSum`,
`StatsSave` are the recount in `getPayoutStats`, whose two parallel aggregations read one state here. `torn` marks a
handler cut between its two writes, or one that overwrote an earning, until a recount; `reopened` the payouts
a ticket approved after they were closed. The commission is the default 50%; the order and minute counters of the `$inc` are left out.

### 2.5 Handlers and the smaller components

The later modules share `Handlers`: `work[r]` is `Idle` or the record of the handler in slot `r`, with `pc` the database call that
comes next and with what it has read; `Begin`, `Goto`, `Finish` start, advance and end it. `OneAtATime` says that there is one slot,
and a property that two overlapping handlers break says so by it: a module states what the code promises *one request after another*
and, where it is more, *however they overlap*. A handler that may be cut short has a `...Fails` action with a bound `MaxFailures`;
`Restart` empties what is kept in memory.

| Module | State and the code's | Actions worth knowing |
|---|---|---|
| `Stream` | `stream[s]` the document, `deal[c]` a call's transaction, `host` the astrologer's live flags, `timer` the armed intervals; `work[r].fresh` is Mongoose's version check of the waitlist | `GoLive`, `RequestCall`, `AcceptCall`, `Record`, `Pay`, `Clear`, `Close`, `TimerFires` |
| `Audience` | `viewing`, `count`, `barred` are documents; `mapped`, `room`, `hosting`, `beat` are the gateway's memory | `View`, `Unview`, `KickUser` (it throws before it removes anybody), `BeatTimeout` |
| `Recording` | `recorder` is the external service; `known` memory, `stored` the document | `ReadSession`, `File`; the recorder stops by itself when idle |
| `Availability` | `flag` the stored flags and `busyUntil` in minutes; `ses[s]` a session's status and timer; `others` what another feature writes | check, start, end, both crons, the switches, going live |
| `AiChat` | `chat[s]` with the length in seconds, `ticking`, `grace`, `answering` in memory, `cash` the wallet | the settlement reads, prices, charges and saves in that order |
| `AiVoice` | `ticker`, `voice`, `line`, `ending` in memory; `talk` what Vapi measured, `age` the wall clock of a call | endings by the caller, the switch-off, a lost socket, Vapi's report; `CleanupCalls` (the cron) and `EndCallSession` (REST), which bill the wall clock |
| `Threads` | the order document, `stage[s]` of a session; `opened`, `booked`, `income` are history | `EndSession`, `Pay`, `Close`, `Earn`, `Book`: an end credits, saves, credits again while the running commission is below 100 (`Full` is the income that makes it 100), and books with one `$push` and totals computed from the copy read; `SaveSession` reopens a call |
| `Refunds`, `Reviews`, `Gifts` | the order, review and stream documents; what was credited as history variables | reads and saves of one request, in the code's order |
| `Login`, `Tokens`, `Admins` | `Role` selects user or astrologer, whose code differs; time counts in days or steps | `Erase` is the cron, which works from a list read before |
| `Scheduler`, `Notices` | `status`, `due`; `sent` and `attempted` are history | `ProcessScheduled` and `JobSteps` are the cron, `SendTo` one recipient |
| `Tickets` | `desk` is Zoho (external), `hooks` the webhooks on their way, in order | `Pay`, `Saved`, `Throws`, the token's refresh and those who wait for it |
| `Readings`, `Muhurat`, `Engine` | caches as sequences in the order of insertion; texts and lists are numbers | cache, model, administrator's override; the hourly sweep |

`MCServices`, `MCStreaming` and `MCProgress` hold one or two instances of each. No step of one component in a group reads what another
writes, so their product would show nothing: `focus` chooses one instance in the first state, the instances share the
variables `v1`, `v2`, ..., and each property says which `focus` it is about. `CallSession`, `Refunds`, `Stream` and `Scheduler`
are extended by a group, so that TLC checks the very definitions that their theorems state; the smaller components are instantiated both there, with
small sets, and in a proof module, with any. What *does* connect components is modelled where it happens:
payments in `Wallet`, the flags in `Availability`, the bill of a gift in `Gifts` and on the stream in `Stream`, the payout that a ticket approves in `Payouts`.

## 3. The runs

Twelve configurations, nine expected to pass and three to be violated. Deadlock is not checked in any: all models
may stop, when the bounded calls, requests or payments are used up and no session is live.

| Run | Instance | Question | Properties |
|---|---|---|---|
| `wallet_all` | 1 user, 2 slots, all 14 handlers, amounts 1 and 2 on a wallet of 2 + 1, one card of one redemption, 3 calls | what can part a wallet from its rows? | `TypeOK`, `LedgerAgrees`, `CardWithinLimit` |
| `wallet_transactions` | 2 users, 2 slots, the transactional handlers, amounts 1 and 3, 4 calls | do transactions suffice? | `WalletMatchesLedger`, `ImplementsAccount` |
| `recharge_all` | 2 Razorpay orders at the welcome price, 1 Apple purchase with a pack, 1 user, 2 slots, restarts | is every payment credited and taken back once? | `TypeOK`, `CashAccounted`, `FirstBonusOnce`, `WelcomeOnce`, `GatewayAgrees`, `CapturedIsSettled` |
| `chat_concurrent` | 1 continued chat, 2 slots, a recharge of 60 and spending of 40 next to it | can one bill exceed the longest limit? | `BillWithinLimit` |
| `chat_restart` | 1 chat, 2 slots, one failure or restart anywhere | who pays, and does everything end? | `SilentIsFree`, `PaidWasCharged`, `ActiveEnds`, `PendingSettles` |
| `call_restart` | 1 call, 2 slots, recharges and spending of 40 next to it, one failure or restart anywhere | is each opening billed once? | `TypeOK`, `OneBillPerOpening`, `EndedIsBilled`, `PaidWasCharged`, `EndingIsHandled` |
| `streaming` | a stream, its audience, its recorders: one handler with failures and restarts, and two that overlap; 2 viewers, 2 streams, 2 calls | is each call billed once, and do stream, host, viewers and recorder agree? | `RevenueCovered`, `ChargedOnce`, `SettledAsCharged`, `LiveStreamsAgree` |
| `services` | 27 components: 26 in 46 instances of one or two slots, and `Refunds`, which is extended | the rules of section 1.1, below | `TypesOK`, `RequestPaidOnce`, `RefundedWasCredited`, `SessionsArePriced`, `EarningsAgree`, `PaidIsGiven`, `OneSessionAtATime`, `AccountsAreSafe`, `EveryoneIsTold`, `AnswersAreOwn`, `NothingIsTakenBack` |
| `progress` | a paid call, a stream, an AI chat, an astrologer, a scheduled notification, with failures and restarts | does everything come to its end? | `SentIsAll`, `GreetedOnce`, `DueIsProcessed`, `SessionsEnd` |
| `chat_overcharge` | 1 chat, 2 slots | violated: two endings of one chat | `NeverOvercharged` |
| `chat_revenue` | 1 chat, 1 slot | violated: one chat earned twice | `RevenueWasCharged` |
| `call_join_race` | 1 call, 2 slots | violated: both join at once | `JoinedCallStarts` |

### 3.1 What the passing runs show, and what they do not

* **Wallet.** Inside transactions the wallet is the account it promises, card limits included. Over all fourteen handlers
  the rows still add up, for every user whose wallet suffered none of the three things `torn` records.
  So the missing transactions, the reads before a transaction and the rejected row are *all* that is wrong with the ledger.
  The run does not claim that these do not happen: they do (section 5).
* **Recharge.** `CashAccounted` equates the cash in the wallet with what the rows credited, less what they took back, less what was spent, plus what the row of an Apple refund states and the wallet could not give, in
  every interleaving of app, webhook, admin, Apple and restarts; double credit and double refund are both excluded by it.
  `CapturedIsSettled`: a captured payment leaves `pending`; it may end as *failed* when the app had reported a failure.
* **Chat.** `BillWithinLimit` is about each payment, as the sum of two payments may exceed the limit (`chat_overcharge`). The booking rules hold
  with one slot only and are claimed, in `services`, for that case only.
* **Call.** `OneBillPerOpening` counts openings since a late save may reopen an ended call, which is then billed again; the atomic update
  cannot prevent that. `EndedIsBilled` is claimed while no fault has occurred: a crash between the update and the bill loses the bill.
* **Streams.** `ChargedOnce`: with one handler at a time a call is paid once, and once more at most for each failure, since a failing save or a
  restart may come between the payment and the save that records it, and the next end of the call pays again. What is ongoing is then what the stream shows. With two
  handlers, what survives is `RevenueCovered`, `SettledAsCharged` and `NeverOvercounted`; the rest is claimed for one handler only.
  `LiveStreamsAgree` collects the other rules: `OngoingIsShown`, `EndedIsQuiet`, `OneLiveStream`, `HostNamesLive` of the document and the host's flags, `RevenueCoveredByTwo` and
  `SettledByTwo` (two handlers), `NeverOvercounted`, `ViewersCounted`, `GoneHostEndsStream` of the audience, `NamedIsStopped`, `StoppedIsFiled` of the recorders, and the types.
* **Services.** Each listed property is the conjunction of named parts in `MCServices`, and a part names the instance it speaks of. A part
  stated for one request at a time says so in its comment; what overlapping requests do instead is in section 5. The parts:
  - `SessionsArePriced`: `ChatNotOvercharged`, `CallNotOvercharged` (all that is paid for a session), `EndedIsPaid`, `NeverBeyondBalance`, `FreeOnce` (AI chats),
    `AiCallPaidOnce`, `AffordableIsPaid`, `GhostNotReported` (AI calls: what Vapi does after `vapi_end` gets into no bill by a report or an end of the gateway; the cron and REST's end do bill it).
  - `EarningsAgree`: history, totals and income of a thread; gifts; `EarningsKept` next to a change of the rate; `OneOpenPayout`, `PaidWithinCap`, `BooksAgree` of payouts. Payouts have
    one slot, but earnings arrive between any two steps; `BooksAgree` speaks of moments between handlers and of histories without `torn`.
  - `PaidIsGiven`: packs, bookings, remedies, tickets, reviews. `OneSessionAtATime`: booking rules, blocking, availability. `AccountsAreSafe`: codes, tokens, devices, locks, decisions.
  - `EveryoneIsTold`: messages, transcripts, notifications. `AnswersAreOwn`: caches, manual texts, charts. `NothingIsTakenBack`: what a step may never do.
  - `NeverStuck` needs two slots to be of interest: however handlers overlap, fail or are lost, an astrologer who is online is marked unavailable
    for good only by the toggle or while on a stream.
* **Progress.** `SessionsEnd`: a paid call or the request for it ends although restarts lose its timers (one handler at a time, but recharges,
  spending and two faults come anywhere), a stream call ends by its interval, an AI chat that a restart left behind by the cron, and an astrologer whose session lost its
  handler or timer can be asked again. `DueIsProcessed`: a due notification is sent, failed or cancelled, with two runs of the job that overlap.

### 3.2 Bounds, and why they suffice

Two slots: each hazard of section 1 is a race of two handlers, or of one handler and a change that another action makes (`Spend`, `Recharge`,
`UpdateEarnings`, `Wait`), which needs no slot. Amounts are chosen to separate the cases of the code: spending within and
beyond the bonus, a refund above the cash left, a balance that pays exactly five minutes at `Rate` 10, `Opening` 50. `Moments` holds
61 (a second minute has begun) and 316 (beyond the limit of 300 by more than the crons' 15 seconds). `MaxFaults`, `MaxCalls`,
`MaxEarned`, `MaxTickets`, `MaxBalance`, `MaxRequests`, `MaxFailures`, `MaxRestarts`, `MaxTime` and the like are guards on counters and on money entering the model.
In the group modules each instance has the smallest sets in which its parts are violated by a wrong version of the code: two documents where one may be
mistaken for another, two sockets where one replaces the other, a cache of one key, a balance that pays one minute less than asked, one failure and one restart. Symmetry is over slots or payout
ids, in runs of safety properties only.

### 3.3 Fairness

The liveness properties of chats and recharges are checked under `FairSpec`, those of calls under the same assumptions in `progress`:

* a running handler goes on (weak; strong where another slot's write may disable it): the database answers;
* time passes in an active session, and a request grows old;
* an armed request or join timer fires, and each cron, which runs every minute, gets to every session it finds again and again. These are
  strong because a slot taken by another handler disables them in the model, and the server has no such limit;
* Razorpay delivers `payment.captured` again after the 400 that the webhook answers when verification throws (strong, per order).

In `progress`, for the other components, handlers go on (weak), an armed interval fires and the crons come round (strong, for the same reason), and minutes pass for the astrologer's flags.

Nothing is assumed of the users, the astrologers, the tickers and auto-end timers, or the administrator: `ActiveEnds` rests on the cron.
The number of faults is bounded, as no cron helps a server that keeps restarting.

## 4. The proofs

TLAPS proves these for every value of the constants that satisfies the named assumptions: `WalletAssumption`,
`RechargeAssumption`, `ChatAssumption`, `CallAssumption`, `StreamAssumption`, `NobodyAssumption` (no viewer is the absence of a caller) and, in `Refunds`, `Bounded`. They say that amounts, prices and rates are positive,
balances and bounds natural numbers, functions total and percentages at most 100; that every wallet handler is of one of the four classes; that a Razorpay order is not an Apple purchase; and,
where a proof counts or adds up, that the handlers (of `Wallet`, `CallSession`, `Stream`, `Refunds`) or the recharges are finitely many. Scheduling needs no assumption.
A component proved through an instance has its assumptions as hypotheses of the theorem: `PayoutBounds`, `VoiceBounds`, `ThreadBounds`, `BlockBounds`, `RegLimits`, `AiBounds`, `AudBounds`, `GiftBounds`, `MatBounds`, `RevBounds` and `LoginBounds` give the constants their types
and say what is finite; a payout is any natural amount, `Incomes` are natural and nothing is earned from nothing; the costs of a thread's sessions are natural and `Full` positive; the tiers of message packs and the stars of a review are natural, and no order is the absence of one. The host of a stream is no viewer of it; the administrators' e-mails are finitely many and `First`, who is there from the beginning, has one. `RoomAssumption` and `NamesApart` say that a socket is some party's, that nobody is alone in a chat, and that no device is called *closed* or *web*. Tokens need no assumption, nor do bookings, tickets, remedies, recorders, availability, bank accounts and the life of an account, or only that the slots are finitely many.

Most theorems hold for any number of overlapping handlers. Those about *one handler after another* say so: by the hypothesis `OneSlot` (payouts) or `OneHandler` (chats and calls; two of them also that no chat is continued,
`Continued` = {}), or within the property (`OneAtATime`, i.e. a single slot). Even then a handler that is cut off leaves its half-done work to the next, recharges, incomes and spending come at any moment,
and timers, messages and webhooks come between any two steps. The runs `chat_overcharge` and `chat_revenue` show what overlap breaks.

| Theorem | States | Inductive invariant |
|---|---|---|
| `WalletTypeOK` | `TypeOK` | `WInv` = `TypeOK` and `Checked`: a running handler passed its checks on the wallet it *saw*. Without it the difference it writes could be negative |
| `GiftCardLimit` | `CardWithinLimit`, all handlers | `CardInv` adds `Fresh`: what a running handler read is current unless marked stale, so a redemption that commits was checked against the stored count |
| `TransactionalLedger` | `WalletMatchesLedger`, if `Handlers` is within `Transactional` | `TxInv` adds `Books` (all three fields and the rows agree in every state) and `InTransactions` (nobody is half done) |
| `TransactionalHandlersImplementAccount` | `ImplementsAccount`, same condition | `TxInv`; `Commit` maps to the handler's `Account` step on the current funds, because `Fresh` makes what was seen current; all else stutters |
| `LedgerOfEveryHandler` | `LedgerAgrees`, all handlers | `LedgerInv`: `WInv`; what a handler that has yet to write the wallet read of it is current unless marked stale (`Current`); and the rows of a user add up to the wallet plus what the half-done calls *owe*: rows that were saved before their wallet, less wallets saved before their row |
| `RechargeTypeOK` | `TypeOK` | `RInv` = `TypeOK`, `Checked`, `GatewayAgrees` |
| `RechargeGateway` | `GatewayAgrees` | `RInv`; `Checked` carries what each handler knows of its payment from its first read to its commit |
| `RechargeFirstBonus`, `RechargeWelcome` | `FirstBonusOnce`, `WelcomeOnce` | `BonusInv` adds `FreshFirst`: a request that priced a first recharge, outside the transaction, is right until marked stale; and `OneFirst`, `OneWelcome`, both properties without counting |
| `RechargeCash` | `CashAccounted` | `CashInv` adds `Fresh`, by which what a request read of a row is current unless marked stale, and `Uncredited`: a row that is not completed carries no cash. Each commit changes one term of the sum by what it changes in the wallet |
| `ChatTypeOK` | `TypeOK` | `ChatInv` = `TypeOK`, `Checked`, `Limits`, `PaidWasCharged`, `SilentIsFree` |
| `ChatPaid` | `PaidWasCharged` | `ChatInv`; `Checked` carries what an ending handler computed at its first read to its save |
| `ChatSilentIsFree` | `SilentIsFree` | `ChatInv`; a handler about to pay saw a message, and messages are not taken back |
| `ChatBillWithinLimit` | `BillWithinLimit`, an action property | `ChatInv`; `Limits`: a chat's limit is whole minutes and never above the longest it was given, although extensions overlap |
| `CallTypeOK` | `TypeOK` | `CInv` = `TypeOK`, `Checked`, `PaidWasCharged` |
| `CallPaid` | `PaidWasCharged` | `CInv`; `Checked` says that a handler which will set `isPaid` took a payment |
| `CallOneBill` | `OneBillPerOpening` | `BillInv` adds `OpeningsAccounted`: payments taken, plus handlers about to take one, plus one if the call is open, never exceed the openings. The atomic update moves one from *open* to *about to* |
| `CallEndingIsHandled` | `EndingIsHandled` | `CInv` and `EndingAccounted`: a call that the gateway is ending has *exactly* one handler at its end, any other call none. With "at least one" the handler that leaves could strand the call |
| `CallEndedIsBilled` | `EndedIsBilled` | `BookInv` = `CreditedIsPriced`, `BillIsBooked`: before the first fault, an ended or paid call is booked, or has a handler that is about to book it |
| `StreamTypeOK` | `TypeOK` | `KInv` = `TypeOK`; `Made`: a transaction that was made has a caller; `Held`, what a handler knows of its transaction at each of its steps |
| `StreamRevenueCovered` | `RevenueCovered`, however many handlers overlap | `Covered`: stored revenue, and what any ending handler is about to store over it, leaves room for all gifts that were paid and not yet counted |
| `StreamSettledAsCharged` | `SettledAsCharged` | `Settled`: a handler that will settle a transaction as paid took the payment; `Billed` for the free ones |
| `StreamChargedOnce` | `ChargedOnce` | `Billed`: a transaction was paid no more often than there were failures, and once more only if it is closed or a handler is about to close it |
| `StreamOneLive` | `OneLiveStream`, a part of `LiveStreamsAgree` | `Lone`: who goes live takes down the only live stream there is, and creates one when none is |
| `StreamEndedIsQuiet` | `EndedIsQuiet`, a part of `LiveStreamsAgree` | `Silent`: who works on a waitlist works on that of a stream that has not ended, and a stream about to end has no call |
| `StreamHostNamesLive` | `HostNamesLive`, a part of `LiveStreamsAgree` | `Named`: the availability names the live stream in every state but those between the save of a stream and that of the availability, and who is about to save the end of a stream ends one that is live |
| `StreamOngoingIsShown` | `OngoingIsShown`, a part of `LiveStreamsAgree` | `Shown`: a stream shows the one transaction that is ongoing on it, but for the stream of the handler between the save of the transaction and that of the stream, and what a handler that ends a call has found is that transaction |
| `SentReachesAll` | `SentIsAll` | `SInv`: `Shape`, `SentIsAll` and `RestIsToDo`, by which a run that is sending has gone through everyone but those it has still to send to, although other runs and restarts interleave |
| `RefundsAreTrue` | `RefundedWasCredited` | `FInv`: `Shape`; `Honest`, by which what a handler is about to write was credited before; `Sole`, what one administrator at a time keeps |
| `RequestsArePaidOnce` | `RequestPaidOnce` | `FInv`: `Sole` counts a credit for the request and one for each failed save |
| `PayoutTypeOK`, `PayoutOneOpen`, `PayoutWithinCap`, `PayoutBooks` | `TypeOK`, `OneOpenPayout`, `PaidWithinCap`, `BooksAgree` (`Payouts`), one slot | `PInv`: `Held`, by which only incomes change the astrologer while a handler runs, so that what it read differs by what was earned since; `Capped`: the handler that passed the 50% rule has room for its payout; `Books`: the amounts agree with payouts and penalties up to what a handler between its two writes has *yet* to lock, release or deduct; `Counted`: what a recount has summed |
| `GiftIsTaken` | `GiftsAreTaken`, one slot | `Taken` of `GiftInv`: what the handler that will charge has read of the wallet is current; the rows add up to what is missing |
| `GiftIsCounted` | `GiftsAreCounted`, any overlap | `OnItsWay`: until a request fails, what is counted and what the handlers past their charge have *yet* to earn or to count is the sum over the rows |
| `ProfileEarningsKept` | `EarningsKept`, any overlap | `EarningsCurrent`: until a bill comes between, a commission rate is saved with the earnings of all settled bills |
| `ProfilePlacesDistinct` | `PlacesDistinct`, one request at a time | `PlacesFree`: a place that is about to be taken is free |
| `ChatNotOvercharged`, `ChatOneUser`, `ChatOneChat`, `ChatClosedIsFree` | the properties of the same names without `Chat`, `OneUserAtATime`, `OneChatPerUser`, `ClosedStaysFree`; one handler | `OneInv`: what a handler read of the status still holds when it saves; before a fault all that was taken is within the price of the minutes used, and a chat that was charged has ended or is in the hands of the handler that will end it; a closed chat stays closed; chats that are alive share neither user nor astrologer |
| `CallNotOvercharged` | `NotOvercharged`, one handler | `OneInv` of `CallProofs`: only an ended call is paid, and within its price; the ticker is never ahead of the call, and zero before it |
| `VoicePaidOnce`, `VoiceAffordable` | `AiCallPaidOnce`, `AffordableIsPaid`, any overlap | `VInv`: `BilledOnce`: at most one handler has the bill of a call, and before its payment nothing was taken; `Afforded`: a user who pays for nothing else has, from the start of the call to its bill, what the longest bill costs |
| `VoiceGhostNotReported` | `GhostNotReported`, any overlap | `GhostInv`: from `vapi_end` on the ticker is stopped and the document keeps the length that was signalled; whoever is about to lock, bill or save the call brings no more than that, or is the cron or REST's end, which bring no length; an open call has no bill |
| `ThreadHistory`, `ThreadTotals`, `ThreadIncome` | `HistoryKeepsAll`, `TotalsAgree`, `IncomeIsBooked`, any overlap; equality and income one at a time | `TInv`: `Openings` (bookings of a call, handlers that may book it, and one if it is open, never exceed its openings), `Listed` (the history has what was booked), `Covered` (no total that is stored, or was read and will be saved, exceeds the history); one at a time `EndedOnce`, `Even`, and `Earned`: the income is what the thread says plus what the handler has yet to say, and less than `Full` beyond |
| `BlockedNeverBegins` | `BlockedStartsNothing`, any overlap | `BInv`: the lists that a request has asked did not refuse it, and a list that refuses still holds the name |
| `BlockedIsOnce` | `BlockedOnce`, one request at a time | `OnceInv` adds `PushedOnce` to `BInv`: nobody is about to push into a list that has an entry |
| `FlagNeverStuck` | `NeverStuck`, any overlap, failures and restarts | `Wanted` of `FlagInv`, by which every write of the flags leaves an end or is asked for |
| `StrangerNeverAsks` | `StrangerIsKeptOut`, one handler, any failure | `Apart`: what a handler that is about to save a session found of the others still holds |
| `FlagOutlastsTimer` | `BusyWhileActive`, one handler | `Marked`: there is one session, and the flags are ahead of its timer, or the handler that is running is about to put them ahead |
| `RecorderIsStopped`, `RecordingIsFiled` | `NamedIsStopped`, `StoppedIsFiled`, parts of `LiveStreamsAgree`, any overlap, failures and restarts | `RecInv`: while nothing is lost after the end of a session whose document names its recorder, the recorder is off or the handler that will stop it is at work; before the first loss the file of a stopped recorder is in the document or in that handler's hands |
| `AudienceNotOvercounted` | `NeverOvercounted`, a part of `LiveStreamsAgree`, any overlap | `AudInv`: the count *with what is about to be added* never exceeds the records with those about to be taken off; a leave of a viewer whose record is no longer active makes it fall behind, no step makes it run ahead |
| `AudienceCounted` | `ViewersCounted`, a part of `LiveStreamsAgree`, one handler | `Exact`: the two sides are equal |
| `AudienceHostless` | `GoneHostEndsStream`, a part of `LiveStreamsAgree` | inductive by itself |
| `RegistrationBacked` | `DecisionIsBacked`, any overlap and failures | `RInv`: an advance is never past the last round, and whoever is about to be approved has a profile |
| `RegistrationFollowed` | `ProfileIsApproved`, one request at a time and no failure | `Followed`: who has a profile is answered by an approval, was decided upon late, or is in the hands of the handler about to approve; any other decision under way is on a candidate without a profile, or late |
| `AiWithinBalance`, `AiOneGreeting`, `AiPresent` | `NeverBeyondBalance`, `GreetedOnce`, `PresentIsKept`, any overlap | `AInv`: `Owned`: a settlement's cost is within the balance that it *read*, and what it writes is the difference; `Greeted`. `AiPresent` is inductive by itself |
| `AiOneChat`, `AiEndedIsPaid`, `AiFreeOnce` | `OneChatPerUser`, `EndedIsPaid`, `FreeOnce`, one slot | `AInv`: `Single`; `Billed`: what a settlement read is current, and an ended chat is paid or about to be; `Ledger`: a wallet and the sum of what its chats were paid make the opening; `Once`: the free chat of a user is the only one, until it is marked |
| `BookingIsSigned`, `BookingIsAlive`, `BookingMadeOnce` | `PaidIsSigned`, `GeneratingIsAlive`, `MadeOnce` | `BookInv`: `Signed`: what is paid, made, *or about to be* has a valid signature; `Attended`: somebody is at each PDF that is said to be generated; one at a time `Standing`, by which no handler that read the booking before is left to save it, and `Single` |
| `TicketRefreshedOnce`, `TicketPaidOnce` | `RefreshedOnce`, `PaidOnce` | `DeskInv`: `Awaited`; `Credited`: a handler past the payment of a refund did credit the wallet; one at a time and without a failure `PaidBy`: what was paid is processed, or in the hands of the handler that will save it |
| `TicketFirstNoteKept`, `TicketDeskAgrees` | `FirstNoteKept` (one at a time), `DeskAgrees` (any overlap) | `DeskInv`: `Reported`: the *last* report of a ticket on its way is its status at Zoho; `Told`: ticket and twin agree, or a report is on its way, or a handler has yet to tell Zoho the status that was saved; `Created`: only its creator knows of a ticket that is not saved; `NotedBy` |
| `RemedyAnswered`, `RemedyIsMarked`, `RemedyAnswerStands` | `BoughtIsAnswered`, any overlap; `PurchaseIsMarked`, `AnswerStands` (an action property), one request at a time | `RemedyInv`: `RemediesOwed`: what was bought is marked, or the webhook that is running has it to mark; `StillOpen`: what a running handler found unanswered is |
| `MatchesAreCounted` | `MatchesCounted`, any overlap | `Counted` of `MatInv`: a user's count *and the handlers about to add to it* make the number of accepted interests |
| `PacksAreKept`, `PackExhausted` | `PacksAgree`, `ExhaustedWhenUsed`, one request at a time | `Packed` of `MatInv`: the order that a handler read is as it was read; `Paid`: what was charged is the sum over the orders and what the running handler is *about to* put into one, and what they count as used is what was sent and the message about to be recorded |
| `RatingIsCurrent`, `ReviewedOnce` | `RatingMatchesApproved`, `OneReviewPerOrder`, one request at a time | `RevInv`: `Computing`: what a handler that recomputes has added up is the sum over the approved reviews; `Rated`, unless one is at work; `Sole`: an order that has a review has its mark too, or the running handler is about to set it, so that who found no mark finds no review |
| `LoginCodeOnce`, `LoginCodeLasts` | `CodeUsedOnce`, `CodeLasts`, any overlap of requests, timers and restarts | `CodeInv`: `Stored`: the code that is stored was never used and counts its wrong entries; `Timed`: a code that was sent while no timer ran has the only timer there is |
| `LoginErasedAfterGrace`, `LoginRestoredStays`, `LoginSuspendedStays` | `ErasedAfterGrace`, `RestoredIsNotErased`, `SuspendedStays` (action properties), one request at a time | `LifeInv`: `Dated`: a deleted account whose date has come was deleted two days before, or kept its date; what the running handler (the cron with its list, the login) read still holds |
| `BankOnePrimary`, `BankNumberOnce` | `OnePrimary`, `NumberOnce`, one request at a time | `BankInv`: `OneMarked`: one account is marked but between the two writes of the handler that moves the mark; `Unlisted`: the number about to be added is not in the list |
| `AdminFirstIsKept` | `FirstIsKept`, any overlap | `FirstHere`: the first administrator is there, and still a super administrator |
| `AdminLockIsEarned`, `AdminSuspendedStaysOut`, `AdminIdIsFree` | the properties of the same names without `Admin`, one request at a time | `LockEarned`: an account counts exactly the wrong passwords in a row, and a login that is about to compare read it as it is; `Numbered`: until a deletion no id is above the number of accounts, and who is about to be inserted has the next |
| `TokenNumberIsFresh`, `TokenLastsItsTime`, `TokenActiveIsRecorded` | `NumberIsFresh`, `TokensLast`, `ActiveIsRecorded`, any overlap | `TokenInv`: `Fits`: the hash in a token belongs to the number it was made for, which is what the check of a later request relies on |
| `NoticeMappedIsOpen`, `NoticeSentAsRecorded`, `NoticeNotTwice` | `MappedIsOpen`, `SentAsRecorded`, `NotTwice`, any overlap and failures | `NoticeInv`: for each stage of a notification, what it may have gone out by and what may be marked (`Undelivered`, `Unpushed`, `Sent`) |
| `MessageIsTold`, `MessagesAreCounted` | `EveryMessageIsTold`, `MessagesCounted`, any overlap | `MsgInv`: `Reaching`: who was seen in the room is there, or has left since; `Tally`: the count *and the handlers about to add to it* make the messages that are saved |
| `MessageStarsAgree`, `MessageReactedOnce`, `MessagePresence` | `StarsAgree`, `ReactedOnce`, `PresenceAgrees`, one request at a time | `OneByOne` of `MsgInv`: what a handler read of a message's marks is as it was; the document knows who has a socket, or is about to |

Each proof has one lemma per action (or group of actions with the same effect) and conjunct, a lemma for the whole step, and then the
theorem by `PTL`. The invariants were checked by TLC on small instances before.

`CashAccounted`, `LedgerAgrees`, `BooksAgree`, `TotalsAgree`, `EndedIsPaid` and the rules of gifts are about sums over sets, which the library defines by choosing elements one after the other. `SumTheorems` proves that the
order does not matter (`SumSplit`: a set is a sum of one element and the rest; `SumChange`: changing one term changes the sum by as much; `SumAdd`: sums add up term by
term; `SumNat`: natural terms have a natural sum) for every finite set.
The library's induction takes a predicate as a parameter, which the provers cannot instantiate; the proofs take induction over a *set of subsets* instead, whose smallest
counterexample exists as inclusion of finite sets is well-founded.

Model-checked only: liveness (`CapturedIsSettled`, `ActiveEnds`, `PendingSettles`, `DueIsProcessed`, `SessionsEnd`), since TLAPS has no
fairness rules or `ENABLED` here. The properties of `MCServices`, `MCProgress` and `MCStreaming` that speak of a whole group of instances are no theorems as they stand, for their instances are small; of their parts these are
proved for any constants:

* `LiveStreamsAgree`: all but the types of the audience and the recorders. `RevenueCoveredByTwo` and `SettledByTwo` restate proved properties for another instance.
* `SessionsArePriced`, `EarningsAgree`, `PaidIsGiven`, `GreetedOnce`: all.
* `OneSessionAtATime`: all.
* `AccountsAreSafe`: all but `OneDevice` and `LoggedOut`, which filter the list of devices with `SelectSeq`, an operator that the provers know nothing about. `NothingIsTakenBack`: all.
* `EveryoneIsTold`: the parts about messages and notifications; not `TranscriptIsKept`, `SentOnce`, `CancelledReachedNoOne`, `FailedIsAllOrNone`. `AnswersAreOwn`: nothing.

No module declares a recursive operator.

## 5. Where code and documents disagree

Three disagreements are runs whose property TLC finds violated:

* **A chat is charged twice** (`chat_overcharge`). `chat-session.service.ts:661` caps the duration "to prevent overcharging". `endSession`
  saves `ended` only after the payment, so a second ending that reads in between pays too.
* **A chat is earned twice** (`chat_revenue`). `earnings.service.ts:57` calls `totalEarned` the "Total revenue generated". `endSession` calls
  `updateEarnings`, and then `completeSession` does again, with the running commission as the percentage.
* **A joined call does not start** (`call_join_race`). `calls.gateway.ts:192` says "Both must be in Agora to start timer". Each join handler tests the copy it
  read, so two at once see only themselves; the join timer then ends the call.

Seen while modelling, described here without a run:

* Two overlapping handlers break `OneUserAtATime`, `OneChatPerUser` and `ClosedStaysFree`, which `services` shows for one at a time; an
  extension computed from an older balance may shorten a chat.
* Two overlapping payout requests break `OneOpenPayout` and `PaidWithinCap`; a ticket reopens a paid payout; a payout cut before its lock and
  rejected afterwards makes `pendingWithdrawal` negative.
* Without a transaction the wallet loses changes: a purchase from the bonus races an admin's credit; `processWalletRefund` may commit
  one request twice; the row of an admin deduction has a type that the schema's enum does not list, after the wallet was saved.
* A comment of the refund says "We allow negative balance"; the schema's `min: 0` aborts it. A recharge that failed first and was captured later can be refunded and takes cash
  it never credited. An Apple refund that meets a write conflict is answered 200 and lost; its row states
  the whole price although `Math.max(0, ...)` may have taken less from the wallet (`wallet.service.ts:848-863`).
* An end of a call before its bill, with a crash between, is never billed; after a restart the ticker is gone and the call is billed one minute.
* **Availability.** `continueCall` marks the astrologer available although another session runs; `continueChat` neither asks nor marks. A session's end, or a `busyUntil` that
  is healed, overrides an astrologer's own *unavailable*; going online resets busy; cancelling a conversation order frees an astrologer in a session.
* **Kick.** `kick_user` throws before it removes anybody: on a gateway with a namespace (`streaming.gateway.ts:36`) `this.server.sockets` is a Map already, so
  `sockets.sockets.get` (367) fails. The viewer is blocked and stays in the room; the comment at 375, "Force socket to leave the Socket.io room", is not reached.
* **Streams.** Waitlist places are given twice, and one viewer may wait twice; two `goLive` at once make two live streams; the interval's drift may bill a minute more than the balance allowed, so the payment fails;
  a payment followed by a failing `updateEarnings` marks the transaction failed although it was charged; the REST join does not ask whether the viewer is barred.
* **Second credits.** `completeSession` says "NO CHARGE HERE" (`orders.service.ts:439`) and credits a session that its end has credited already, as long as `earnings.platformCommission`,
  a running sum taken for a percentage (525-536), is below 100; overlapping ends of a chat push it twice (494), and so does an unpaid call that a late save reopened.
* **Orders.** User refund requests and reviews ask for *completed*, which a thread never becomes; a recording that arrives before the history entry is dropped; `refundOrderDirect` has no guard.
* **AI.** The cron (`session-cleanup.service.ts:36-88`) and `calls/sessions/end` end an AI call without a length, so that `call-session.service.ts:714-716` bills the wall clock since its start, silence after
  `vapi_end` included. Nothing sets `userStatus.isOnline` for AI calls, so that the cron ends each some 90 seconds after its start. Two AI calls at once may leave the second unpaid; `endSession` reads the transcript after `gemini_stop` and stores an empty one; deleting an active AI chat avoids its bill; the disconnect of an old socket, arriving late, ends a chat that was
  joined again.
* **Accounts.** Restoring an account by code leaves `permanentDeletionAt`; the erasing cron does not look again; a refresh after a logout or a suspension still yields a pair; an astrologer's refresh is cached under `astrologer_refresh_undefined`; the timer of an older code
  deletes the newer one; an overlapping login's save turns a suspension into a lock.
* **Tickets.** A second internal note is told to Zoho and not stored: it is pushed into the array that was read (`admin-support.controller.ts:602-613`; `metadata` is Mixed and not marked as modified).
* **Payments of others.** A gift reads the user before its transaction, so overlapping money is overwritten; a ticket refund retried after a failed save pays again, and *Refund processing failed* is also said when only Zoho's update failed; an overlapping invalid verification sets a paid
  booking back; a restart leaves a booking *generating* for good.
* **Interests and messages.** An accepted interest that is answered again is counted again; two messages count once; receipts that come late set a read message back; deleting for the sender hides a message from both.
* **Notifications.** A recipient without a device gets nothing by web socket; the schema's enum lacks `missed_call` and `missed_chat`; an old socket's disconnect drops the new mapping.
* **Readings.** The manual love text of the greatest date is served whatever the date (a comment says "most recently updated"); a failed lookup counts as *no override*; the muhurat cache in memory never expires; putting a key that is there into a full cache evicts another's.
* **Profiles.** Saving a commission rate overwrites earnings that came meanwhile; `updatePricing` re-enables disabled services and makes a busy astrologer available; `setPrimary` of a deleted bank account leaves none; the encryption's vector is new in each process, so after a restart duplicates are accepted.

## 6. What is not modelled

The components of section 1.2, and within the modelled ones: lifetime totals of the wallet, the penalties for unanswered requests, the weekly schedule and a `busyUntil` set by hand, what
voice and text say, an administrator's `cancelOrder`, the administration of gift cards, recharges during an AI call, e-mails, topics and texts of notifications, descriptive fields and listings everywhere.
Components that meet only in the wallet are checked apart from each other: the wallet's own module has all that they do to it. The database is taken to be
one replica that reads its own writes. Two processes behind a load balancer would double the timers and split what is kept in memory; `render.yaml` describes one service.
Two hazards have no property: an Apple refund that meets a write conflict is lost, and no property of the recharge run counts Apple's notifications; and the kick, which never gets to the removal.
`Tokens` throttles the last-active time within a day and lets the next day begin anew, so the five minutes are exact within a day only.

## 7. The plan

1. *Done:* the core (`Wallet`, `Recharge`, `ChatSession`, `CallSession`, `Payouts`), streams, availability, and the smaller components; the proofs of `Wallet`, `Recharge`, `ChatSession`, `CallSession`,
   `Payouts`, `Stream`, `Scheduler`, `Refunds`, `Threads`, `AiChat`, `AiVoice`, `Blocking`, `Registration`, `Bookings`, `Tickets`, `Availability`, `Recording`, `Audience`, `Gifts`, `Profile`, `Remedies`, `Matrimony`, `Reviews`, `Login`, `BankAccounts`, `Admins`, `Tokens`, `Notices`, `Messages`.
2. Proofs, in this order: the rest of `Scheduler`, then `Muhurat`, `Readings` and `Engine`.
3. Models: the user document's remaining writers, saved calculations, an administrator's `cancelOrder`, the administration of gift cards, Apple's repeated notifications.
