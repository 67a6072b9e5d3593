# Verification of the restaurant backend

TLA+ models of the backend in `src/` (Express, PostgreSQL through Prisma,
Redis, WhatsApp Cloud API), the TLC instances that check them, and TLAPS proofs
about them.  Source paths below are relative to `src/src/` unless they start
with another directory of the repository.

The program runs as several processes at once: serverless instances
(`vercel.json`, 300 s per call) or long-running servers, with the same
database, the same Redis and a cron that calls `routes/crm/cron.routes.ts`.
Nothing coordinates them but rows, keys and their guards.  That is what the
models are about: each one keeps every read, claim, write, early return and
error path of its component, and lets other processes run between the points
where the code gives up control.

## 1. Inventory

| Component | State | Operations | Interacts with |
|---|---|---|---|
| Deduction queue (`services/inventory/durable-deduction-queue.ts`, `deduction-queue.service.ts`) | Redis lists READY, PROCESSING, DEAD; a job key and a lock key per order; PENDING rows in the database; per process `running`, `recovered` | enqueue, drain (recover, claim, lock, handle, acknowledge), retry with backoff, dead letter, scan of PENDING rows | settlement inserts the PENDING row and calls enqueue after its commit; the cron calls the scan; the handler writes the stock ledger |
| Orders and checkout (`controllers/public.controller.ts`, `services/order.service.ts`, `services/crm/loyalty.service.ts`, `coupon.service.ts`) | orders, order items, payments, invoices, loyalty accounts and ledgers, coupon issuances, checkout keys | place, append, discount by points, change status, settle, cancel | settlement feeds the deduction queue, earns points and updates the customer's profile |
| Stock ledger (`services/inventory/{transfer,audit,wastage,raw-material}.service.ts`, `repositories/inventory/{purchase,raw-material}.repository.ts`, `lib/serializable-transaction.ts`) | raw materials (stock, average cost), ledger entries, transfers, purchase orders, supplier balance | create, adjust, waste, audit, send / approve / reject a transfer, create / edit / receive a purchase order, deduct a sale | the deduction queue's handler is the sale |
| Campaigns (`services/crm/campaign.service.ts`, `services/whatsapp.service.ts`) | campaign row, one log row per recipient, what Meta knows | queue a draft, dispatch, gate, provider call, record the answer, recover stale work, cancel, delivery webhook | run by the CRM scheduler, by requests, and by `routes/whatsapp.routes.ts` for webhooks |
| CRM scheduler (`services/crm/scheduler.service.ts`) | a Redis lock; per job a checkpoint and a failure flag per time bucket, an attempt counter and a retry time | one awaited cycle over three jobs | calls segments, campaigns, occasions |
| Sessions and accounts (`services/auth.service.ts`, `middlewares/auth.middleware.ts`, `controllers/{auth,waiter,superadmin}.controller.ts`) | users, waiters, restaurants, refresh sessions, the cookie of a browser | register, sign in, refresh (rotate), sign out, hire and edit waiters, suspend and delete a restaurant | every request |
| Subscriptions and plans (`controllers/{subscription,superadmin}.controller.ts`, `services/subscription.service.ts`) | plans, licence codes with a usage count, redemptions, subscriptions | create, change and delete a plan; generate, delete and redeem a code; ask for a subscription, set one | the limits of tables and menu items |
| Tables and menu items (`services/{table,menuItem}.service.ts`) | tables with a number, menu items | create, rename, switch off, delete | plans; orders are placed at tables |
| WhatsApp connection and templates (`services/crm/whatsapp-connection.service.ts`, `whatsapp-template-*.ts`, `meta-embedded-signup.service.ts`, `phone-verification.service.ts`, `consent.service.ts`) | connection row with a version, signup attempts, template rows, verification codes, the log of consents | sign up, save, synchronize, select and check a template, send and verify a code, opt in and out | a campaign checks connection and template before its gate; checkout and webhooks record consent |
| Customers, segments, rewards (`services/crm/{profiler,referral,coupon,segment,rfm,feedback,loyalty}.service.ts`) | brands, customers with a metadata document, profiles, segments, coupons, accounts and ledgers, feedback, tickets | link or create at checkout, refresh totals at payment, claim a referral, issue a coupon, evaluate segments and RFM, edit, rate | orders, campaigns, scheduler |
| Recipes, suppliers, reports; categories, settings, notifications; analytics | single rows | create, read, update, delete, aggregate | orders and stock read them |
| Health, monitoring, server | connections, counters | start, stop, report | Redis, database |

Hard behaviour and what must hold:

* **Deduction queue** - commands whose replies are lost, processes that die at
  any command, locks that expire under a stalled owner, recovery that takes
  entries away from live workers.  Correct: an order's stock is consumed at
  most once; an accepted job is never lost; `done` stands for a deduction and
  `failed` for an entry of the dead list; every settled order is deducted or
  reported.
* **Orders** - requests read first and claim later at READ COMMITTED.
  Correct: paid once, in full, over the bill of that moment; the bill is
  explained by items, points and coupon; points are neither lost, doubled nor
  overspent; a repeated checkout buys once.
* **Stock ledger** - read, compute, write in concurrent transactions.
  Correct: entries take up where the last one ended; transfers conserve; a
  purchase order is stocked once as it shows; average cost stays within the
  prices.
* **Campaigns** - an irreversible call to a third party between two
  statements, workers that overlap after a recovery, cancellation at any
  point, webhooks out of order.  Correct: at most one request per recipient;
  an outcome that is not known is left for reconciliation (not so after a
  timeout); the books agree with what Meta accepted; closed campaigns stay closed;
  queued campaigns are closed in the end.
* **Scheduler** - cycles overlap only if one outlives its lock; one job's
  failure ends the cycle before later jobs.  Correct: one cycle at a time, a
  bucket resolved once, at most three failures in it, nothing but failures
  holds a due job up.
* **Sessions** - tabs share a cookie and refresh at once; a sign-out, a
  deletion or a suspension falls between a read and its write.  Correct: a
  login is good for one live token; one that ended stays ended, and a sign-out
  ends it (not so when a refresh has just overtaken it); nothing outlives what
  it belongs to.
* **Plans and limits** - limits are read before the transaction or insertion
  that uses them up, while the administrator changes and deletes plans.
  Correct: uses are counted; a limit is exceeded by requests in flight
  together and by no others; no row refers to a deleted plan.
* **WhatsApp** - Meta is asked between two statements, and the connection may
  be replaced meanwhile.  Correct: what was begun under the old connection
  leaves no trace on the new one; a decision of the guest counts once and an
  old one never beats a newer one.
* **Guests and rewards** - check-then-write in single statements, and a few
  serializable transactions.  Correct: totals are those of the paid orders;
  points have ledger entries and tickets poor ratings behind them, wherever a
  request dies; what a guest holds is of his own business; a claim is rewarded
  once and a poor rating has a ticket (neither is so).

## 2. Modules

| Module | Models | Kind |
|---|---|---|
| `StockOutbox` | what settlement and queue promise together | abstract |
| `DeductionQueue` | the durable queue, its handler and the PENDING rows | detailed, refines `StockOutbox` |
| `DeductionQueueProofs` | its theorems | TLAPS |
| `OrderBook` | what the books promise of an order | abstract |
| `OrderLifecycle` | checkout, append, discount, status, settlement, with points, coupons, keys | detailed, refines `OrderBook` |
| `OrderLifecycleProofs` | its theorems | TLAPS |
| `StockLedger` | the movements of one ingredient in the branches of a brand | detailed |
| `StockLedgerProofs` | its theorems | TLAPS |
| `Campaign` | one campaign from draft to closed | detailed |
| `WhatsApp` | connection, signup, templates, the selection of a campaign, verification, consent | detailed |
| `MessagingProofs` | theorems of both | TLAPS |
| `CrmScheduler` | the cycles of the cron over the jobs that are due | detailed |
| `Guests` | checkout's guests and brands, totals, segments, referrals, coupons, feedback | detailed |
| `CrmProofs` | theorems of both | TLAPS |
| `AuthSessions` | accounts, refresh sessions, restaurants and their deletion | detailed |
| `AuthSessionsProofs` | its theorems | TLAPS |
| `Licences` | plans, codes, redemptions, subscriptions | detailed |
| `PlanLimits` | `Licences` composed with tables and menu items | composition |
| `PlanLimitsProofs` | theorems of both | TLAPS |
| `SumTheorems` | sums of functions with finite domains | TLAPS |
| `MC*` | model values, workloads and symmetry for TLC | |

### DeductionQueue

Each command to Redis and the handler's transaction is one action; between two
of them any other process runs.  `pc[p]` is the place in `drain()`, `job[p]`
the claimed entry, `count[p]` the loop counter, `recovered[p]` the flag of the
process.  `Settle` is `payOrder`'s commit with the PENDING row; `todo` holds
the enqueue calls that have been decided on and may still be lost.  `Deduct`
is `deductStockForOrder`: one serializable transaction, so one step; that two
workers deducting one order serialize is what `StockLedger!BookedOnce` checks
of the transaction itself.  `CommandFails` is a command that fails
before it executes; a command that executes and loses its reply is the same
step of the command followed by `CommandFails` at the next one, plus the
special case of `Claim`, whose entry is then known to nobody.  `Crash` loses
the process's memory.  `ExpireHeldLock` is a stalled owner.  All of these draw
on one budget, `MaxFaults`.

### OrderLifecycle

A request is `Ask...` (the reads that decide), `CheckRewards` (reads of balance
and coupon) and `Commit...` (the claim and the writes).  The writes are one
step because the first claim locks the order's row, or inserts the checkout
key, until the commit; what runs before it only reads.  A claim repeats status
and total in its WHERE, which is exactly what `Claimed` does.  `items`,
`ledger` and `bought` are history-like sums of the rows the code inserts, so
that the bill can be compared with what explains it.  Tax is zero: it is added
per line next to the subtotal.

### StockLedger

`Ask...` reads the material and the paper (transfer, purchase order, sale);
`Commit...` writes what was computed from them.  A transaction run by
`serializableTransaction` commits only if the rows it writes are still as read
(`RowKept`, `PaperKept`): that is PostgreSQL's first-updater-wins rule under
SERIALIZABLE, and the retry is `Abandon` and a new `Ask`.  `version`, the
length of the ledger, stands for the row's identity: a stock that went away and
came back is a changed row.  `createAudit` uses a plain transaction, so
`CommitAudit` has neither guard.  An adjustment books the type of entry that
the client names (`work.types`).  `work` is the workload of a behaviour, chosen
in `Init`: which operations are asked for, in which branches, at which prices,
and how many entries a ledger may have.  It bounds the instances and models no
code; `PlanLimits`, `WhatsApp` and `Guests` have one too.

### Campaign

One statement is one action; nothing but `queueDraft` spans two statements.
`job[w]` is what a worker has read (recipients to do, attempt counts, the
round), which may be old when it is used.  `Send` is the provider call with
every outcome in `Replies`: accepted, refused, lost (transport error after
dispatch), timeout.  `requests` counts the calls, `provider` what Meta made of
them; a timed-out call is recorded as a failure, as the code does.  `timedOut`
and `late` (recipients added by a second request to queue the draft) are
history.  `StatementFails` is a statement that throws, handled by the catch
blocks as written; `Crash` a worker that dies; `GoStale` the ten minutes of
`STALE_SENDING_MS`, which may pass while a worker is still alive: that is how
two workers come to overlap.  Webhooks read the row and later update it with
the status they have seen.

### CrmScheduler

A cycle is the loop of `runCycle` over the jobs, one action per command to
Redis: `Begin` is the SET NX of the lock, `ReadMarks` and `ReadRetry` the reads
that decide whether a job is due, `Succeed` and `Fail` the job itself,
`CountFailure`, `Bury` and `Defer` the three writes of `recordFailure`.  A
bucket is a number computed from the moment at which the cycle began, `at[c]`,
and may be past when it is written.  `CommandFails` ends a cycle the way the
`catch` and `finally` blocks do; `Die` leaves the lock to its TTL as `Orphan`.
`ExpireHeld` is the TTL of 600 s under a cycle still at work: not possible on
Vercel (300 s), possible on a server, and the source of every overlap.
`overrun`, `ran`, `failures`, `putOff` (the jobs whose retry was not due when a
cycle looked) and `missed` (the cycles that ended in a bucket of a job without
having resolved it or found it put off) are history for the properties.

### AuthSessions

A request reads (`Ask...`), then takes one step per statement or transaction,
and `Answer` sets or clears the cookie of the browser it came from: answers
arrive in any order, and `Abandon` loses one.  `Rotate` is the transaction of
`rotateRefreshSession`: a conditional UPDATE that consumes the token, and the
successor.  `Revoke` is the statement of a sign-out, which matches unrevoked
rows only; its answer is the same whether or not one matched.  `login` (the
first token of a chain) and `signedOut` (whether a sign-out has found the token
good) are history.  `Cascade` is the foreign keys' ON DELETE CASCADE.  `Context`
is what `resolveAccessToken` and `requireRestaurantContext` make of an account
at each request.

### Licences and PlanLimits

`AskRedeem` reads the code and the running subscription, `CommitRedeem` is the
transaction: the subscription is extended from the end that was read, the usage
count is incremented by the database.  A foreign key refuses a subscription or
a code of a plan deleted meanwhile.  `PlanLimits` extends `Licences`: every
step of it goes on, plans get their two limits (`allowance`), and tables and
menu items are counted against the limits of the current subscription and
inserted later.  `shown`, the largest limits a restaurant's requests have
read, is history.  Categories are left out: they are never deleted.

### WhatsApp

`Start`, `ClaimState`, `ExchangeCode`, `VerifyMeta`, `CheckIdentity`, `Upsert`,
`Complete` are the statements and calls of an embedded signup; `AskSave` and
`CommitSave` those of a connection entered by hand.  `AskSync` fetches the
pages of templates with the connection it read; `ReplaceSnapshot` locks the
connection row and goes on only if it is the same.  `AskPrepare` reads the
connection, `CheckChoice` the template, and `Queue` moves the draft: a queued
campaign holds the connection version and the template it chose.  Before each
message `AskDispatch` reads the connection, `CheckTemplate` the template,
`AssertCurrentVerified` the connection once more; `Dispatch` is the call, after
the two statements of the gate (which `Campaign` has) during which a
connection may still be replaced.  `overtaken`, the requests that had passed
the check when their connection was replaced, is history.  What Meta answers is
chosen when it is used.  `consent` is its table in the order of `recordedAt`.

### Guests

`AskLink` to `PlaceOrder` are the statements of `linkOrCreateCustomer` and of
the order: a restaurant without a brand gets one by two statements.  `Settle` is
the end of `payOrder`, a serializable transaction that commits only if the rows
it read are unchanged (`Seen`).  `FindReferee` to `MarkClaimed` are the
statements of `claimReferral`, `EnterPoints` and `CreditPoints` the two of
`adjustPointsBalance`.  `MatchSegment`, `ClearMembers`, `FillMembers` are an
evaluation: the members are read before the transaction that replaces them, and
two such transactions interleave as READ COMMITTED lets them (`overtaken`).
Metadata is what several writers write back whole: whether it holds a referral
code and the mark of a claim.  Staff may send any metadata, a mark without a
claim included (`work.sent`, a bound).  The tags of RFM are left out, since no
operation reads them; that scoring writes back metadata read before is kept.
`Request` lists what a request carries between its statements, by the statement
that comes next.

### Seeded faults

A definition preceded by a comment "Seeded fault" is a plausible bug of the
definition that follows it, e.g. `ReleaseAnyLock` beside `ReleaseLock`.  No
specification uses it.  Putting it in the place of the real one makes TLC find
the property it is listed for violated: this shows that the property can tell
right code from wrong.

## 3. Runs

Every passing run ends with no error.  Deadlock is checked in the queue and
scheduler runs.  It is not checked elsewhere because these systems really stop:
all orders are closed, the entries of a workload are used up, the campaign is
closed.

| Run | Instance | Shows |
|---|---|---|
| `queue` | 1 order, 2 processes, 2 attempts, 1 fault of any kind at any point, fair; 0.5 M states | safety of the queue, refinement of `StockOutbox`; every settled order is deducted or dead-lettered and PROCESSING runs empty |
| `orders` | 2 orders, 2 requests, 1 coupon, 1 key, items of 2 or 4 rupees, redemptions of 2; 2.4 M | every race for one bill, one balance and one coupon; refinement of `OrderBook` |
| `order_redeem_twice` | 1 order, 2 requests | *violation*: points redeemed twice on one order |
| `stock` | 2 sessions; over 2 branches 2 transfers, alone or with audits, or in one branch a purchase order that is edited, or waste and adjustments beside it; 0.8 M | conservation and cover of transfers, no lost update, one deduction per sale, one receipt per order, bounded average cost |
| `campaign_one` | 1 recipient, 2 workers, 1 operator, 1 webhook, 2 attempts, 1 crash, 1 failed statement, all replies, fair; 1.3 M | at most one request; acceptances whose reply was lost are kept apart; the books agree with what Meta accepted; closed stays closed and no report downgrades; a queued campaign is closed in the end |
| `campaign_timeout` | 1 recipient, 1 worker | *violation*: an accepted message whose request timed out is called FAILED |
| `campaign_retry` | 1 recipient, 1 worker | *violation*: a retry meets a gate that its first attempt closed |
| `crm_cycle` | 2 cycles, 2 jobs of different periods, 3 attempts, 1 fault; 2.0 M | cycles exclude one another; a bucket is resolved once, after a bounded number of failures; a due job is passed over for failures and faults only |
| `sessions` | 1 browser, 1 owner, 1 waiter, 2 addresses, 3 tokens, 2 requests; 1.4 M | one live token per login; no token after the end of a login, by a sign-out that found its token good or by time; no orphans |
| `licences` | 1 restaurant, 2 plans, 1 code, 2 subscriptions, 3 tables, 3 items, 2 requests; 2.1 M | uses are counted; limits are exceeded by requests in flight together only; rows refer to rows |
| `whatsapp` | 2 brands and 2 senders, or 1 brand with a template and a campaign, or a guest with 2 codes; 2 requests, 2 signups; 3.9 M | stale work leaves the new connection alone and sends nothing unchecked; decisions count once |
| `guests` | 2 restaurants, 2 customers, 2 phones, 2 orders, 2 coupons, 2 segments, 2 requests, 8 workloads; 1.2 M | totals and segments follow the paid orders; points and tickets are backed wherever requests die; nothing crosses a business |

Why these bounds are enough.  The hazards are races of two actors, so there are
two processes, sessions or workers, and one or two objects to race for; a
third actor that waits adds nothing that two do not show, since each claim is
won by one and lost by all others.  Orders of the queue share nothing but the
lists, and `BatchSize` is the only thing that couples them.  Two attempts are
the least with a retry and an exhaustion; the code's three differ only in the
number of retries (the scheduler's run, and the theorems, are for three and for
any number).  One fault reaches each command in each state of the other
process; a crash during the recovery from another fault takes two, which the
theorems of the queue cover, being for any number.  Prices
and points of the order runs are chosen so that an append and a discount can
cancel each other out (the way a claim by total could be fooled), and so that
two redemptions exceed the balance.  Two prices (1 and 4) make an average
that differs from both.  Three ledger entries leave room for a movement, one
that races it, and a receipt over both.  Where a module has many operations
that do not touch the same rows, a behaviour has a workload of those that do;
the workloads together ask for every operation.  Three tables (or items) are
what two requests in flight need to exceed a limit of one by more than they
may.  Three connection versions are a connection, its successor while stale
work is under way, and one more (beside a guest, a connection and its
successor are enough).  Three tokens are a login, a rotation and a
second one (or a second login) that races it.

### Fairness

*Queue*: a process that has begun goes on unless it dies; the cron and the
timers start drains and scans for ever; clocks advance.  This is what the cron
route and `schedule()` do; a crashed instance is replaced by a fresh one with
`recovered` unset.  Settlements and faults are not fair.  `DeductionResolves`
(its second part: PROCESSING runs empty) also needs `BatchSize` to cover the
entries in flight: `recover()` takes `BatchSize` entries from the left of
PROCESSING and sets `recovered` even if more are left, so with smaller batches
an entry orphaned behind entries of live workers stays in PROCESSING while its
`queued` key refuses every new enqueue.  In production the batch is 25.
*Campaign*: the cron calls again and again, a worker that has begun goes on,
a cancellation that has begun goes on, time passes.  Nobody has to cancel, and
Meta owes no report.
*Scheduler*: no liveness is claimed.  That every job is run in the end is not
so, since a job that fails in each call starves those after it (below); what is
checked instead is the safety property `OnlyFailuresHoldUp`.

### What the code does otherwise

Three runs are violations, with the text they contradict quoted in
`PROJECT.json`:

* `order_redeem_twice`: the discount checks for an earlier redemption by a
  read and claims the order by status and total only
  (`services/order.service.ts:187,207`).  A second discount and an append of
  the same worth bring the total back, and the claim succeeds.
* `campaign_retry`: `providerDispatchStartedAt` is never reset, so a refused
  recipient is claimed again, turned away at the gate and finally exhausted
  (`services/crm/campaign.service.ts:323`): retries of a refused send never
  reach Meta.
* `campaign_timeout`: the rejection of `AbortSignal.timeout` has a numeric
  legacy `code`, so it is not recognised as a transport failure
  (`services/whatsapp.service.ts:138`) and the recipient is recorded as FAILED,
  not for reconciliation, against the comment at lines 4-5.  The gate, which is
  never opened again, is what keeps the retry from sending the message twice
  (`AtMostOneRequest` holds with timeouts).

The models behave as follows too; no run is spent on it:

* an append can write a subtotal older than the items when the total has been
  restored in between (`controllers/public.controller.ts:385-391`);
* an audit overwrites a movement committed after its read, and its variance is
  then not what the stock was changed by (`audit.service.ts:42`);
* a receipt averages over a negative stock, which can make the average cost
  negative (`purchase.repository.ts:234`); `CostWithinPrices` therefore speaks
  of ledgers that never went below zero;
* when the UPDATE to SENT fails after an acceptance, the recipient becomes
  FAILED and a later cancellation turns it CANCELLED (`campaign.service.ts:469`);
  the second part of `BooksAgree` therefore assumes that no statement failed;
* the loser of two concurrent `queueDraft` calls commits the recipients it
  created (`campaign.service.ts:195`): those that it adds after the winner's
  worker has listed its recipients are never tried, so that a completed campaign
  can have pending recipients.  `CompletedIsReached`, the first part of
  `BooksAgree`, excepts those (`late`) and no others; the run has one operator,
  the theorem `BooksAreKept` any number;
* a recipient whose request timed out is FAILED, and a later cancellation turns
  it CANCELLED although Meta may have accepted the message: the second part of
  `BooksAgree` excepts it;
* a worker overtaken by the recovery finalizes its successor's round; if the
  successor then dies, its recipient stays DISPATCHING in a closed campaign
  (`campaign.service.ts:526`).  `CampaignSettles` speaks of the campaign only;
* a failing job ends the cycle, so with one call in each minute, and campaigns
  that fail in each, the job after them is never looked at
  (`scheduler.service.ts:80,133`; `campaigns` has a period of 60 s).
  `OnlyFailuresHoldUp` says that this is the only way: the cycles that pass a
  due job over are no more than the failures of it and of the jobs before it,
  and the faults;
* the failure counter is per job, not per bucket (`scheduler.service.ts:119`):
  after failures in two buckets, a third is given up at its first failure;
* the branch for recipients whose attempts are used up
  (`campaign.service.ts:438-445`) is never taken: the last part of `BooksAgree`
  shows why.

Sessions (`services/auth.service.ts` and its callers):

* a sign-out revokes the token it is shown if it is still good (line 92) and
  does not look at the count.  A refresh that has consumed that token just
  before leaves a live successor; the sign-out answers "Successfully logged
  out" (`auth.controller.ts:164`), and the refresh's answer, if it comes later,
  sets the successor's cookie: the browser is signed in again.  `LoginsEnd`
  therefore speaks of sign-outs that found the good token; those end the login
  whatever refresh had read it before;
* of two tabs that refresh at once the loser's answer clears the cookie the
  winner has set, and a lost answer to a refresh leaves a consumed token: both
  sign the browser out;
* `deleteRestaurant` interrupted between its statements leaves an owner without
  a restaurant (`superadmin.controller.ts:420`);
* a waiter of a suspended restaurant keeps his context while its owner does
  not; disabling a waiter does not revoke his sessions, it only stops their
  refresh; registration does not look among the waiters for the address.

Plans (`controllers/subscription.controller.ts`):

* a code is used more often than its limit by requests that read it together,
  and tables and items are created beyond their limit in the same way
  (`LimitsAreKept` says by how many); two such requests without a running
  subscription leave two ACTIVE ones, and an extension computed from the end
  that was read undoes one made meanwhile;
* the subscription that allows tables and items may be PENDING or have ended
  (`subscription.repository.ts:23`), and tables that are switched off keep
  counting.

WhatsApp:

* two signups that both read no connection replace each other's sender, though
  the comment at `meta-embedded-signup.service.ts:205` says "never a silent
  overwrite"; campaigns of the replaced sender are stopped;
* the source of an opt-in at checkout is the order, so a second opt-in on the
  same order, after an opt-out, is not recorded (`consent.service.ts:5`);
* a code whose message timed out is deleted although the guest may have got it,
  and used it; two requests for a code within a minute can both pass;
* `disconnect` and `markValidated` are called by nothing.

Guests:

* registration creates restaurants without a brand, so two first checkouts
  create two brands, and the guests of one of them are left in a brand without
  restaurant; a payment then sets such a guest's total to zero
  (`profiler.service.ts:79-94`).  `TotalsAgree` excepts them;
* the mark of a referral claim is read before the reward and written after it
  (`referral.service.ts:55,109`): two claims of one number at once are both
  rewarded, though line 56 refuses a second one.  `RewardsAreBacked` promises
  nothing there;
* a claim always answers with a failure, because its notification names a brand
  where a restaurant belongs (`referral.service.ts:121-136`); it finds customers
  of any generation and creates one of the default generation; interrupted, it
  leaves a ledger entry without its balance (`loyalty.service.ts:220`), which
  `RewardsAreBacked` allows;
* the ticket of a poor rating is a second statement (`feedback.service.ts:50`):
  a request that ends before it leaves the rating without a ticket, and a second
  rating of the order, which could file it, is refused;
* RFM, staff and the repair of a missing referral code write back metadata that
  they read before: a mark made meanwhile is lost, after which the guest may
  claim again; staff may also set or drop the mark by hand, since any JSON is
  stored (`controllers/crm/customer.controller.ts:17,162`);
* two evaluations of a segment at once leave the union of what they found; two
  issuances at once give a coupon twice (`coupon.service.ts:99-118`);
* `updateCustomer` stores a phone as it was typed, unlike the other writers.

## 4. Proofs

The `*Proofs` modules are checked by TLAPS to the last leaf, for every value
of the constants that meets the named assumptions: any number of processes,
workers, orders, branches, requests, jobs, faults.  Each of them has an
inductive invariant (theorem `Invariance`, or that name with the component's in
front of it), a lemma per action on it, and the
properties of the runs as consequences.  They are the same definitions that
TLC checks, so a run shows on an instance what a theorem says in general.

| Component | Theorems, with the property of the run |
|---|---|
| queue | `TypeCorrect`, `StockConsumedOnce` (`ConsumedOnce`), `KeysAreHonest` (`StatusIsHonest`), `LeasesExclude` (`LeaseExclusion`), `NoJobIsLost` (`NoLostJob`), `PromiseIsKept` (refinement of `StockOutbox`) |
| orders | `TypeCorrect`, `PaidOnce` (`PaidOnceInFull`), `BillExplained` (`BillIsExplained`), `PointsAreKept` (`PointsKept`), `SpentOnceOnly` (`SpentOnce`), `ClosedStays` (`ClosedIsFinal`), `BookIsKept` (refinement of `OrderBook`) |
| stock | `TypeCorrect`, `EntriesChain` (`LedgerChains`), `NothingIsLostOnTheWay` (`TransferConserves`), `NothingIsBookedTwice` (`BookedOnce`), `CostStaysWithinPrices` (`CostWithinPrices`) |
| campaigns | `TypeCorrect`, `RequestedOnce` (`AtMostOneRequest`), `DoubtIsReconciled` (`LostIsReconciled`), `ClosedIsFinal` (`ClosedStays`), `AttemptsAreBounded` (part of `BooksAgree`), `BooksAreKept` (`BooksAgree`) |
| scheduler | `TypeCorrect`, `WorkIsDoneOnce` (`OneCycle`), `DelaysAreFailures` (`OnlyFailuresHoldUp`) |
| sessions | `TypeCorrect`, `LoginsHaveOneToken` (`OneLiveToken`), `NothingOrphaned` (`NoOrphans`), `LoginsEndForGood` (`LoginsEnd`, from `SignOutsHold` and `EndedLoginsStayEnded`) |
| WhatsApp | `WhatsAppTypeCorrect` (`WhatsAppTypeOK`), `StaleWorkStaysHarmless` (`StaleWorkIsHarmless`), `OnlyGuestDecides` (`GuestDecides`) |
| guests and rewards | `GuestsTypeCorrect` (`GuestsTypeOK`), `TotalsStayTrue` (`TotalsAgree`), `RewardsStayBacked` (`RewardsAreBacked`) |
| plans, tables, items | `RowsStaySound` (`RowsAreSound`), `LimitsHold` (`LimitsAreKept`), `CodesAreCounted` (`UsageIsCounted`, for `Licences` alone) |

**DeductionQueue.**  `ConsumedOnce` is not inductive: a process between
`HandlerFails` and its retry, or between `Deduct` and `MarkDone`, must be known
to hold a job of a paid order whose stock is gone.  The invariant `IInv` adds
`JobHeld` (a process has a job exactly where its `pc` says so), `AboutPaid`
(every entry, job and request is about a settled order), `Deducted` (a process
past the handler's success stands for consumed stock) and `LeaseLocked` (an
unexpired lease is the lock's holder).  One lemma per part and per action, plus
lemmas on lists (`LRemProperties` and its companions) for the Redis commands.
`NoLostJob` needs an invariant of its own, `QueueInv`: LREM takes out one of
several equal strings, and recovery makes such copies, so copies are counted.
For an order whose key says `queued`, READY and PROCESSING together hold more
copies of its current request than there are processes about to remove one.
`PromiseIsKept` maps each step to one of `StockOutbox` (settle, take stock,
report) or to none.

**Orders.**  `Sound` says what an order's row, items, ledger, payments and
invoice say of one another.  A commit keeps it because its claim repeats status
and total of the row the request read: what the request carries (points, price,
target) was decided on the row it changes (`WellFormed`).  That the balance is
the sum over all orders follows from `SumFunctionUpdate`: a step changes one
summand.  The mapping to `OrderBook` has one step per commit.

**StockLedger.**  A movement appends one entry to one ledger, and each part of
`Books` is kept if the entry fits: its previous stock is the last new stock, it
is the first of its sale or receipt (`Unsold` says up to which version a sale is
known not to be in the ledger), it brings a transfer to what its paper says.
That it fits follows from what was read, since row, version and paper are
unchanged at the commit.  Two of the parts serve others: `StockIsLast`, and
`ReceivedOnce`, which names the one entry of a receipt.  `CostsWithin` also
speaks of the cost that a request under way has computed; its lemmas are about
`Rounded` division.

**Campaign.**  `AtMostOneRequest` needs to know that a recipient whose gate is
open was never asked for, and that of the workers between gate and call no two
are there for one recipient (`OneRequest`), which in turn needs that such a
worker has a recipient (`ActiveHasRecipient`).  What the rows say of a request
rests on `OutcomeInv`: as long as no message id is known a recipient is one
worker's (`Claimed`), so nobody else writes its row, and a worker that will
record a failure knows of no acceptance (`FailedUnsent`).  The books rest on
`BooksInv`: attempts of a recipient and workers that may still try it are
together at most the claims of the campaign (`OncePerClaim`), and a worker that
has missed nobody has reached all but those left on its list (`Covered`).
No theorem has a premise of its own: what timeouts and a second request to
queue the campaign do is recorded in `timedOut` and `late`, and the properties
say what holds of all the others.

**CrmScheduler.**  `OneCycle` allows one more outcome and `MaxAttempts` more
failures per fault, so the invariant is an account.  For each bucket of each
job: outcomes so far, plus one if the lock's holder may still produce one, plus
the cycles that have outlived their lock and may too, are at most one plus the
faults (`Settled`); and likewise for failures, where what may still come depends
on the attempt counter (`Retried`).  `Clocks` says that such cycles began
before the holder, hence that a later bucket is still untouched.
`OnlyFailuresHoldUp` is a second account (`LooksInv`): what a job has been
passed over, and the cycles that will end without having looked at it, are no
more than the failures alongside and the faults; a cycle has not passed over a
job that it has looked at (`LookedAt`).

**AuthSessions.**  A rotation creates its successor from the row it consumes,
so `OneLiveToken` needs that the unrevoked tokens of one login are one
(`OneUnrevoked`); and a new login must not find an old chain under its token,
which is why chains are `Rooted`: the first token stays, in the name of the
same account, as long as any of its successors.  `NoOrphans` needs `Leaving`,
what is known between the two statements that delete a restaurant and its
owner: the owner is there, has no restaurant, cannot get one, and has one
deleter.  One lemma says what each statement on the sessions table does
(`CascadeEffect`, `MintEffect`, `RotateEffect`, `RevokeEffect`).
`EndedLoginsStayEnded` is an action property: every token of the next state
continues one of this state, with its expiry, or begins a login
(`TokensContinue`).  `SignOutsHold` is an invariant: the row that a sign-out
found good is the unrevoked one of its login, and a rotation that had read it
before matches no row any more.

**Licences and PlanLimits.**  A count is read below its limit, and what it
counts is inserted later; the bound that is inductive is one on what is there
and what is on the way together (`Bounded`).  A request that reads a count
below the limit restores it whatever else is in flight (`BoundedAsk`, where the
number of sessions comes in); an insertion moves one from the second summand to
the first (`BoundedAdd`); everything else only takes away (`BoundedLess`).
Every step of `PlanLimits` is one of `Licences` or leaves its variables alone
(`LicenceStep`), so that the invariant of the latter is used as it is.

**WhatsApp.**  What matters is what a request was told before Meta was asked,
so the invariant has a part for it (`RequestsVouched`).  `ChannelVouches`: a
connection version is drawn once, so as long as the connection still has the
version that a request read, it has the sender it read too, and work on that
sender is current; if not, the statement that would write tells the versions
apart and writes nothing.  A message is sent by a request that
has been checked, and whose connection was current then (`CallsAreCleared`).
For a save or a signup there is nothing to know but that the version it draws is
new.  `GuestVouches` and `GuestRows`: a code has
given one token when it is verified and none before, so a decision to opt in,
which needs a session, was asked for under such a token (`Proved`).

**Guests.**  A request reads in one statement and writes in another, and most
of what it read cannot be undone by anyone: rows come and stay, a guest keeps
his brand, an order its guest (`Grows`), so what is known of a request
(`Vouches`) is stable under every step at once (`VouchedStays`).  Two things
are not stable: that an order is not placed yet and that a new brand is
nobody's yet (`Fresh`).  They are one request's each (`Apart`), and so survive
the steps of the others.  What the rows say is kept per group of tables; steps
that leave a group alone are dealt with once (`PeopleRest`, `OffersRest`, ...).
`TotalsAgree`: the payment's transaction has seen the rows as they are when it
commits (`Serialises`), so the sum it writes, over the profiles of the brand's
outlets, counts the visits of those outlets (`VisitsSummed`, from
`SumOfCardinalities`), which are all visits if each place that the guest paid
at is an outlet of his brand.  `RewardsAreBacked` is a bound that
counts: `Crediting(k)` and `Filing(o)` are the requests that are about to credit
the points or file the ticket, a step moves one request in or out of them
(`CreditingMoves`, `FilingMoves`), and what a row gains a request no longer has
to write.  A request that dies only takes away from the side that is bounded.

**Sums.**  The library's induction theorems take a predicate, which no
installed prover can instantiate.  `SumTheorems` proves the facts on
`SumFunction` without them: the set of sizes of counterexamples is a set of
naturals and would have a least element.  `SumOfCardinalities` is the fact that
totals rest on.

Assumptions.  All are named in the module that declares the constant, and TLC
evaluates them in the runs: ids and special values differ (`None`, `Null`,
`NoJob`, `Orphan`, `Gone`, `Deleted` are no ids, rows or requests; papers of
different kinds have different ids, and so have customers and orders; owners are
no waiters); a workload asks for what is there; prices, points, days, limits and
bounds are numbers of the sign the validators of the code demand; `JobOrder` is
a sequence without repetition; orders, restaurants, branches and purchase orders
are finite sets where they are counted or summed over, and there are finitely
many requests, one at least, where they are counted.

Only model-checked: liveness (`DeductionResolves`, `CampaignSettles`),
which is out of reach of the prover.  Every safety property
of a passing run is a theorem.

## 5. Not modelled

* The in-process fallback of the queue without Redis
  (`deduction-queue.service.ts:87-102`) and its branch for malformed payloads;
  a hundred permanently failed rows that hide younger ones from the scan
  (`take: 100`).
* Several ingredients per order, SKUs and units: a movement is one line.  The
  lookup of the receiving material by SKU (`transfer.service.ts:158`) is not
  covered.
* Drafts, audiences and message texts of campaigns; the text of templates.
* The in-process intervals of `CRMScheduler.start`, which run the jobs without
  lock or marks.
* Password resets and profile changes; prices of plans and their notification;
  the contents of menu items, and QR codes.
* Loyalty tiers and policies, occasions, notes, cart pings, the arithmetic of
  RFM scores; scripts for backfill and reset.
* Recipes, suppliers, reports, categories, settings, notifications: single-row
  operations.  Analytics: reads only.  Server, health, monitoring: I/O.
  `dist/` is generated from `src/`.

## 6. Plan

Done, in this order: the deduction queue with its abstract promise and its
proofs; orders with the abstract book; campaigns with proofs; the stock
ledger; the scheduler's cycles; sessions; plans with the limits of tables and
items; the WhatsApp channel; guests and rewards; the proofs of section 4, which
now cover every safety property that a passing run checks.  What would come
next:

1. An abstract specification of settlement.  Paying an order feeds the queue,
   the ledger and the guest's totals; `OrderLifecycle`, `DeductionQueue` and
   `Guests` each model their part of it, and it would tie them together.
2. The bounded scan (`take: 100`) and `recover()` with more entries in flight
   than a batch, the two limits without a property.
3. A signup that replaces another (`meta-embedded-signup.service.ts:206`):
   what the brand should be promised there is for its owners to say.
