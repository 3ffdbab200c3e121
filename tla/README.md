# MITx Online in TLA+

TLA+ models of the parts of MITx Online that carry its own logic and state, the
TLC configurations that check them, and TLAPS proofs about them. Paths below are
relative to the repository.

## The system

MITx Online is a Django application on Postgres (read committed, no
`ATOMIC_REQUESTS`), with celery workers, redis, an Open edX instance, two payment
gateways (Stripe and CyberSource), Keycloak, HubSpot and Google Sheets around it.

| component | state it keeps | operations | talks to | what is hard |
|---|---|---|---|---|
| baskets and codes (`ecommerce/views`, `ecommerce/api.py`) | one basket per user with items and at most one code | add, redeem, clear, check out, claim an anonymous basket | orders | a code is checked long before it is used |
| orders (`ecommerce/models.py`, `ecommerce/api.py`) | orders with lines, redemption, transactions; `PaidCourseRun` | reuse or create the pending order, fulfil, decline, cancel, error, refund | gateways, enrollments, HubSpot | handlers without lock or transaction, sessions that outlive each other, late and repeated events, crashes between commits |
| Stripe webhooks, CyberSource callbacks | `StripeEventLog` | completed, expired; accepted, declined, error, cancel | orders | delivery at least once, late, out of order |
| pending-order resolution, refund command | none | `resolve_pending_order`, `refund_fulfilled_order` | orders, gateways | run next to the webhooks |
| enrollments (`courses/api.py`, `openedx/api.py`) | active flag, mode, `edx_enrolled`, change status, retry count | create, upgrade, downgrade, deactivate, defer, retry, sync | edX | two systems of record, whole-row saves of stale rows |
| edX users and tokens (`openedx/api.py`) | `OpenEdxUser`, `OpenEdxApiAuth` | create with collision handling, repair, reconcile, refresh token | edX, redis lock | lock expiry, lost answers, rotated refresh token |
| grades and certificates (`courses/api.py`, `courses/signals.py`) | grades, certificates, requirement tree, program enrollments | sync grades, generate, revoke, sign, upgrade program enrollments | edX, a credential service | lost triggers, override versus import, slow requests before whole-row saves |
| B2B codes (`b2b/views/v0`, `b2b/mail.py`, `b2b/api.py`) | contract, seats, codes, records, members | assign, revoke, reassign, remind, redeem, ensure codes, mail, Mailgun events | Keycloak, Mailgun | the last seat, secrets in mails under way, events out of order |
| contract runs (`b2b/api.py`, `b2b/tasks.py`, `openedx/tasks.py`, `courses/retirement.py`) | `CourseRun` rows, clone tasks | create, clone, sync dates, retire, remove, add | edX, celery | two systems of record, stale whole-row saves, retries of a clone that was made |
| HubSpot sync (`hubspot_sync/`) | `HubspotObject`, the limiter's sorted set, an order lock | sync a deal with its contact and line | HubSpot, redis | searches that fail silently, lost answers, 429s, expiring keys |
| flexible pricing (`flexiblepricing/`) | requests, tiers, exchange rates | submit, review, choose the tier | codes | status and tier can go stale |
| compliance, sheets, users, cms, mail | see `PROJECT.json` | | external services | mostly copies and I/O |

What makes each of them correct: an order is fulfilled only against a payment of
its own, delivers what it lists, is refunded once, and a payment is never
forgotten; an enrollment ends up in edX as it is here and a deactivation is
never undone by a retry; a user gets one edX name; a token refresh never loses
the refresh token; a certificate is given when the tree is satisfied and a
revocation stands; no more learners join a contract by code than it has seats,
and no code is given away twice; a run's schedule is the same here and in edX and
a retired run takes no enrollments; HubSpot shows an order once, in a state no
older than the last one that a task was queued for.

The code keeps some of these only in part. The properties say what it does keep,
and each of the sections below names what it does not.

## Plan

Done, in this order:

1. `Orders` with the abstract `OrderFlow`: the money path, its interleavings and
   crashes. Proved: types, settled rows, payment evidence, and, under the
   hypotheses named below, deliveries, refunds and the refinement of `OrderFlow`.
2. `EnrollmentSync`: every operation on an enrollment against an edX that fails;
   liveness of the repair. Proved: types, edX evidence, and the place a deferral
   keeps.
3. `EdxAuth` (tokens, proved) and `EdxAccount` (registration under a lock that
   expires, name collisions, both safety properties proved).
4. `Discounts`: the pricing arithmetic as operators, proved, and used by the
   order runs.
5. `ContractCodes`, `Certificates`, `HubspotSync`, with every safety property
   proved.
6. `ContractRuns`: creation, cloning, sync and retirement of a contract's runs;
   types and both safety invariants proved.

Left: the hypotheses of `OrdersProofs` could be split (deliveries without the
one about refunds), and `SeatKept` for overlapping handlers of different runs.

How the modules meet: `Orders` takes its prices from `Discounts` and is implemented
on `OrderFlow`'s transitions; the mode of an enrollment and the requests that
change it are in `Orders` as far as they touch what an order delivered, and
against an edX that fails in `EnrollmentSync`; `Certificates` lets enrollments change as
`EnrollmentSync` may change them; the runs of `ContractRuns` are what
`ContractCodes` sells codes for. `EdxAccount` and `EdxAuth` are what every edX call
of the others goes through.

## Modules

### `Orders`

Tables are variables: `basket`, `order` (a row holds its lines and the code it
redeemed), `trans` (ids of an order's transactions), `paidRun`, `mode` (mode of
the active enrollment). `attempt` is what the gateways know: one payment page
per checkout, for an order, with its status. `refunds` counts what a gateway paid
back, `downgrades` is the celery queue. `enrolling` holds the unenrolments and
deferrals at work, each with the commits it has left. Two variables are history,
read only by properties: `cleared`, the `PaidCourseRun` rows that were deleted or
moved, and `lowered`, the order lines whose verified enrollment was taken away.

A request, webhook, task or command is a process with a program counter.
Handlers that run inside `transaction.atomic()` with the row locked
(the CyberSource callbacks, the body of `_get_or_create`, the fulfilment of a
zero-value order) are one action. All others are split at their commits, and
`proc[p].total` is the column of the in-memory `Order` that the final
`order.save()` writes back together with the state, which is how a stale
instance overwrites a newer row. `Crash(p)` ends a handler between two commits.

| action | code |
|---|---|
| `AddToCart`, `RedeemDiscount`, `ClearBasket` | `CheckoutApiViewSet.add_to_cart`, `.redeem_discount`, `clear_basket` |
| `Checkout`, `CheckoutDropsDiscount`, `CheckoutZero(Fails)`, `StartPayment`, `LogSession` | `generate_checkout_payload` with `PendingOrder._get_or_create` |
| `ProcessStripeCheckoutCompleted`, `...Expired`, `RecordCancellation`, `CancelOrder` | the Stripe webhook handlers and `OrderFlow.cancel`, whose transaction is committed before `order.save()` |
| `CreateTransaction`, `EnrollLine`, `CreatePaidCourseRun`, `PaidCourseRunExists`, `SaveFulfilled`, `DeleteBasket` | `OrderFlow.fulfill` and the rest of `fulfill_completed_order`, step by step |
| `CallbackAccepted`, `CallbackDeclined`, `CallbackFailed` | the two CyberSource callback views |
| `ResolvePendingOrder`, `ForceFulfill` | `resolve_pending_order` with its status check and with `--no-check`, each with and without `--no-fulfillment` |
| `RefundOrder`, `StartRefund`, `RecordRefund`, `SaveRefund`, `DowngradeLearnerFromOrder` | `refund_order`, `OrderFlow.refund` with its two commits, the downgrade task |
| `RefundFulfilledOrder`, `SaveRefunded`, `AdjustEnrollment`, `DeletePaidCourseRuns`, `RefundCommandDone` | `refund_fulfilled_order`, with the `deactivate_run_enrollment` of `--unenroll` |
| `Unenroll`, `Deactivate`, `ClearPayments` | the unenroll endpoints (which do not ask whether the run is paid for), `unenroll_learner_from_run`, `deactivate_run_enrollment` |
| `DeferEnrollment`, `EnrollDeferred`, `ChangePaymentToRun` | `defer_enrollment` without `--force`, `change_payment_to_run` |
| `EnrollAgain` | the enrollment serializers: a second POST for a run that is paid for |
| `SyncEnrollment` | `sync_enrollments_with_edx` |
| `EnrollRequestFails` | edX refuses, or the request dies, between two of those commits |

Abstractions: one product per course run, all at one price, so a code is the
price of a line under it. Preconditions of a checkout that do not depend on this
state (blocked countries, upgrade deadlines, B2B contracts, activation dates) are
taken as met; user discounts are not re-applied. A transaction id is its kind and
the payment page it belongs to. The `DowngradeLearnerFromOrder` task touches only
`mode` and is one action. HubSpot, mails and the event log are left out. The
gateways are external: `PaymentOutcome` is what the code expects of them.

Of the enrollments only what bears on orders is here: the mode, and the deletion
or the move of `PaidCourseRun` rows. `SyncEnrollment` reactivates in either mode,
where the code takes the mode of the row. A forced deferral, and a row that
`create_run_enrollments` drops because its bare `except` swallowed an error, are
not modelled here. Nothing stops an unenrolment while an order is being fulfilled,
so the requests are bounded by `MaxEnrolling` at once and by nothing in number.

### `OrderFlow`

The abstract state machine: the sources and targets of the `@state.transition`
decorators, one order at a time. `Orders` maps onto it by the state column.

### `EnrollmentSync`

The enrollments of one learner, kept twice: `row` is the `CourseRunEnrollment`
table (active flag, mode, `edx_enrolled`, change status, retry count), `edx` what
Open edX has, `paid` the runs with a `PaidCourseRun` of a fulfilled order. Rows of
different learners do not interact.

A request, task or command is a worker with a program counter. There is no lock
on an enrollment: a handler loads its instance of the row (`inst`), calls edX, and
saves the instance, so its save overwrites what others wrote in between. Only the
retry counter is saved with `update_fields`, and only the reset is an `UPDATE`.
Each edX call is one action with an answer: `ok`, `permanent` (an error the repair
job counts), `transient`, or `lost` (edX did it and the caller sees an error).
`Crash(p)` ends a handler between two steps.

| action | code |
|---|---|
| `Enroll`, `ApiEnroll` | `create_enrollment_view`, the enrollment serializers |
| `Purchase`, `CreatePaidCourseRun` | the line hook of a fulfilled order |
| `DowngradeLearner`, `DowngradeLearnerFromOrder` | the admin action, the task after a refund |
| `EdxEnroll`, `GetOrCreate`, `LogCreated`, `SaveStatus`, `SaveMode` | `create_run_enrollments`, with `enroll_in_edx_course_runs` |
| `Unenroll`, `EdxUnenroll`, `SaveInactive`, `DeletePaidCourseRun` | `deactivate_run_enrollment` |
| `DeferEnrollment`, `DeferWithoutTarget`, `FindTarget`, `ChangePaymentToRun` | `defer_enrollment` |
| `RetryFailedEnrollment`, `RetryCall`, `RetrySave`, `RetryCount`, `ResetRetryCount` | `retry_failed_edx_enrollments`, the admin reset |
| `SyncFetch`, `SyncLoad`, `SyncSave` | `sync_enrollments_with_edx`, called by the v1 and v2 enrollment lists behind `SYNC_ON_DASHBOARD_LOAD` |
| `CreateLocalEnrollment`, `LocalReactivate`, `LocalEdxEnrolled` | `create_local_enrollment` of the edX webhook |
| `EnrolledInEdx`, `UnenrolledInEdx` | what happens in edX itself (external) |

Abstractions: one run per call of `create_run_enrollments`; a batch of the repair
job or of the sync is a sequence of independent passes, since it treats every row
on its own; the grace period before a repair is left out, so the model repairs
earlier than the code may; a deferral's preconditions on the runs (one course,
open for enrollment) are taken as met. The webhook is delivered for a run the
learner has an edX enrollment in, possibly an old one: `create_local_enrollment`
says it is for a learner "already enrolled in edX" and does not ask edX, so
`EdxEvidence` rests on that. Mails, audit rows, subscriptions, HubSpot and the B2B
membership are left out.

### `Discounts`

`Prices`, the three discount types, the best of several discounts and the two
roundings of `ecommerce/discounts.py` and its callers, as operators over integers:
`Unit` to a dollar or a percent. `MCOrders` computes the prices of its runs with it.

### `EdxAccount`

`row` is the `OpenEdxUser` table, `account` and `lti` what edX knows, `lock` the
redis locks, `proc` the workers with the instance each holds.

| action | code |
|---|---|
| `CreateUser`, `RepairFaultyUser`, `Reconcile` | `create_user`, `repair_faulty_edx_user`, `reconcile_edx_username` |
| `ChooseName`, `SaveName` | the rest of `reconcile_edx_username`, with `generate_unique_username` |
| `AcquireLock`, `LockTimeout`, `SaveAttempt` | lock and loop of `_create_edx_user_request` |
| `PostRegistered`, `PostFails`, `PostInvalid`, `PostDuplicateUsername`, `PostDuplicateEmail` | the answers of edX's registration API |
| `SaveSynced`, `SetEdxError`, `ClearSyncError` | the saves of the outcome, the profile edit that clears an error |
| `LockExpires`, `Crash` | redis, a worker that dies |

### `EdxAuth`

The token row of one learner. A worker that means to change it holds the row's
lock until its transaction ends, so what it has not committed is in its handler;
edX's own state (`live`) is changed by calls and not rolled back.

| action | code |
|---|---|
| `Request`, `EnsureAuth`, `Authorize`, `AuthorizeFails` | `get_edx_api_client`, `create_edx_auth_token` |
| `CheckAuth`, `LockAuth`, `Refresh`, `InvalidGrant`, `RefreshFails`, `Commit` | `get_valid_edx_api_auth`, `_refresh_edx_api_auth` |
| `Regenerate`, `DeleteAuth` | the regenerate command |
| `AccessTokenExpires`, `RefreshTokenDies`, `SyncChanges`, `Crash` | time, edX, other parts, a worker that dies |

### `ContractCodes`

One contract with one product. Its learners come by code, or by enrolling in its
run: `create_run_enrollments` adds them to the contract without looking at the
seats, and `enrolled` remembers who came so. `rec` holds the
`DiscountContractAttachmentRedemption` rows, `members` the contract's users; a code
belongs to the contract by its link to the product, which goes before the code does.

| action | code |
|---|---|
| `AttachCheck`, `AttachAdd`, `AttachRedeem` | the redemption view, with Keycloak between check and insert |
| `AssignCode`, `BulkAssign`, `AssignSave` | the manager's assignments |
| `Revoke`, `RevokeDelete`, `RevokeSecret`; `Reassign`, `ReassignSecret`, `SaveAndMail`; `Remind` | the manager's edits of an assignment |
| `SendMail`, `SaveMessageId`, `Webhook`, `SaveEvent` | the mail task and Mailgun's events |
| `Enroll` | `create_run_enrollments` for a run of the contract |
| `CountCodes`, `WriteCodes`, `SelectCodes`, `UnlinkCode`, `DeleteCode` | `ensure_enrollment_codes_exist`: the first count, the write or the second count, the selection of surplus unused codes, and for each of them the two committed deletes |

### `Certificates`

Rows of one learner: `grade`, `cert` (of runs and of programs), `signed`, `enrolled`,
`penrolled`. `swept` are the runs the grade job takes: live, no variant, and with a
certificate date within `CERTIFICATE_CREATION_WINDOW_IN_DAYS`. The requirement trees
are constants; `EarnedNode` is a recursive
function over the tree, as the code's evaluation is.

| action | code |
|---|---|
| `StartSync`, `Webhook`, `CreateCommand`, `EnsureGrade`, `OverrideGrade` | the grade job, edX's webhook, `manage_certificates` |
| `DeleteCertificate`, `CreateCertificate`, `KeepCertificate`, `NoCertificate` | `process_course_run_grade_certificate` |
| `ConsiderProgram`, `IssueProgram`, `ProgramFails`, `Nightly`, `ProgramCommand` | the signal's task, `generate_program_certificate`, the nightly job, the command |
| `SignCertificate`, `SkipSigning`, `Backfill` | `create_verifiable_credential` and its backfill |
| `UpgradeProgram` | `upgrade_eligible_program_enrollments` |
| `Access` | revoke and unrevoke |
| `EnterSweep`, `LeaveSweep` | a run enters or leaves `get_certificate_grade_eligible_runs` (time, or a change of the run) |
| `EdxGrades`, `ChangeEnrollment`, `CertificateDate`, `Crash` | edX, the enrollment code, time, a worker that dies |

### `HubspotSync`

One order with one line and the limiter all workers share. Time is relative, so
the state space is finite without a bound on time. The order may change without a
task: `sync_hubspot_deal` is called when a free order or a payment fulfils it
(`ecommerce/api.py:388`, `499`), by the resolution of pending orders (`909`, `928`)
and by `refund_fulfilled_order`, not by refunds through the API or by Stripe's
expiry and cancellation; and it skips some purchasers and swallows a failing
broker (`task_helpers.py:70-97`). `announced` is the newest state that a task was
queued for. The order's lock is in Redis, which all workers share.

| action | code |
|---|---|
| `Claim`, `Tick` | the Lua script of `rate_limiter.py`, the sleep and redis' expiry |
| `ChangeOrder`, `SyncHubspotDeal` | a change of the order, a task queued for it |
| `Begin`, `Blocked`, `TooManyRequests`, `Crash` | the task: started, refused by the lock, retried, redelivered or lost |
| `SearchFinds`, `SearchFindsNone`, `SearchFails` | the lookups by name and by id |
| `UpdateDeal`, `CreateDeal`, `EnsureContact`, `NoContact`, `FindLineItem`, `CreateLineItem`, `LinkLineItem`, `LineRequestFails`, `WriteFails`, `SaveMapping` | `sync_deal_with_hubspot_targeted` |
| `LockExpires` | the order's lock in the cache |

### `ContractRuns`

The runs of one course in one contract: `row` (live, dates, contract) against
`edx` (dates), `clone` the clone task of each run, `settled` the runs whose
retirement reached edX, `causes` the reasons there may be one more run (history). As
in `EnrollmentSync`, there is no lock on a row: a handler loads its instance, calls
edX, and saves every column of the instance.

`create_program_contract_runs` takes a lock, but in `CACHES["default"]`, a
`LocMemCache` of one process (`main/settings.py:1097-1101`), under a key per
contract and program. It keeps out neither the task of another worker process nor
the one of another program with the same course, so the model has no lock.

A worker that dies while it clones leaves its message unacknowledged when the whole
worker goes, and the task is delivered again; when only the child of the pool dies,
celery acknowledges the message, for `CELERY_TASK_REJECT_ON_WORKER_LOST` is not
set. `Crash` has both outcomes, the second with the clone `lost`.

| action | code |
|---|---|
| `CreateProgramContractRuns`, `CheckExists` | `create_program_contract_runs` of `b2b/tasks.py` |
| `CreateCommand`, `ChooseKey`, `InsertRun`, `QueueClone` | `b2b_courseware` and `create_contract_run` |
| `StartClone`, `CloneCheck`, `CloneCall`, `CloneFix`, `Retry` | `clone_courserun`, `process_course_run_clone` |
| `StartSync`, `SyncCommand`, `SyncFetch`, `SyncFetchFails`, `SyncSave` | `sync_course_runs` from the nightly task and the command |
| `RetireCommand`, `RetirePush`, `RetireSave`, `MoveRunToRetirementContract` | `retire_courserun` |
| `RemoveCommand`, `RemoveSave`, `RemovePush`, `AddCommand`, `AddSave` | `b2b_courseware remove` and `add` |
| `Crash` | a worker, or the child of its pool, that dies |

Abstractions: dates are where they come from (contract, source run, retirement)
and whether the enrollment window is closed. `expiration_date` is never derived
by this code and is left out. `SyncCommand` is only given runs that are not live:
for live ones it does what the task does. The collision check of the holding
contract cannot trigger, since the runs of one course have distinct tags.

### `MC...` and `...Proofs`

Values of the constants for TLC; lemmas and theorems.

## Runs

The names are the ones of `PROJECT.json`. Workers are interchangeable, and a
symmetry set in `stripe`, `callback`, `edx_auth` and `b2b_codes`, which have no liveness.

### Orders

All run `MCOrders`. Deadlock checking is on in every one: the learner can always
fill the basket again.

- `stripe`: one learner and one run, two orders for it, so that it is refunded and
  bought again, one payment page beside a zero-price code, two processes, one crash,
  four refund calls, and a learner who unenrolls, posts the enrollment again or is
  synced with edX, one such request at a time. `TypeOK`, `RefundsBounded`,
  `SettledIsFinal`, `FulfilledIsDelivered`, `RefundedNotFulfilledAgain`. Two
  processes are the least that overlap on an order, and the completed event of one
  page is delivered any number of times; `MaxRefunds` is above the bound
  `RefundsBounded` claims. What the code does not promise is stated as what is left:
  an order without its `PaidCourseRun` had it deleted or moved, a learner without
  the verified mode had it taken away by a request, by edX or by a refund, and a
  refunded order that is fulfilled again, or refunded more often, has lost a row. The
  refund command, which would make this run too large, is in `live`.
- `callback`: CyberSource only, one learner, two orders, two payment pages, two runs
  of which one is sold, and deferrals between them. `FlowRespected`: with the row
  lock the table moves only along declared transitions. `FulfilledIsDelivered`: the
  deferral that moves a `PaidCourseRun` to the other run, or finds it there, is the
  only thing that takes from an order what it delivered. Two pages are the least
  with which outcomes contradict each other.
- `live`: both gateways, two pages, one order, `resolve_pending_order` with and
  without its status check and `--no-fulfillment`, the refund command.
  `PaymentOnRecord` (whose proof covers crashes as well) and `PaidLeadsToSettled`
  under `FairSpec`, without crashes and enrollment requests, which neither reads.
- `paid_lost`, violated, the finding of `PROJECT.json`: one session expires, the
  other is paid: the order stays canceled.

Fairness. `WF` of `Step(p)`: a running request executes its next statement. `SF`
of the deliveries: Stripe redelivers an event until it is answered with 200, and
a handler that raises is answered with 500; a delivery can be disabled for a
while because every process is busy. `WF` of the callback: CyberSource posts to
the back office as well as through the learner's browser. Nothing is assumed of
the learner or of staff. `live` leaves out the outcome `processing`: the completed
event of such a session is answered with 200 and ignored, and the later
`async_payment_succeeded` event has no handler, so the code makes no promise there.

In all other runs deadlock checking is off: the operations of learners and staff
and the faults are bounded, and a state in which nobody does anything any more and
nothing is left to be repaired is where the system rests.

### Enrollments

- `enroll_defer`: two runs, five operations, two crashes, every answer.
  `SeatKept`: no failure, lost answer or crash in a deferral leaves a learner who
  had a verified place without one. One worker, because `defer_enrollment` is a
  staff command; overlapping handlers can undo it.
- `enroll_live`: any two operations on one run except the two-run deferral, next
  to repair and sync, on two workers, with one crash and every answer of edX; the
  learner may have left the run before, which counts as one of the two.
  `TypeOK`, which bounds the retry count by its cap; `EdxEvidence`, the inductive
  form of `EnrolledHasEdxRecord` (`edx_enrolled` is never a claim without an
  enrollment in edX behind it); `FailedIsRepaired` and `EventuallyAgrees` under
  `FairSpec`. Two handlers are the least that lose an update.

Fairness. `WF` of `Step(p)`: a running handler goes on. `SF` of the start of a
repair: celery beat schedules `retry_failed_edx_enrollments`, and a start can be
disabled for a while because all workers are busy. `SF` of `RetryCall(p, "ok")`: an
edX that is asked again and again answers at some time; that is an assumption on
edX, and only a failure that is not counted can repeat without end. Nothing is
assumed of the learner or of staff, and so nothing of the sync: it runs only in the
v1 and v2 enrollment lists, behind `SYNC_ON_DASHBOARD_LOAD`
(`courses/views/v1/__init__.py:469`, `v2/__init__.py:708`; never in v3), when the
learner loads one of them. `EventuallyAgrees` is therefore conditional: each run
that goes on being synced ends up agreeing. A learner who stays away, or a
deployment without the flag, may keep a difference for good.

Both runs leave `FakeRuns` empty: the branch for them skips one edX call, and the
proofs cover it.

### edX accounts and tokens

- `edx_account`: two learners, one of them registered and one with an LTI account,
  two workers, two attempts, one fault. `SyncedNameIsInEdx`, `OnceSynced`,
  `EveryLearnerSettles`. One fault is enough for a lost answer, a crash or a lock
  that expires under its holder; the second worker is what races with it.
  Fairness: `WF` of `Step(w)`; `WF` of the repair job for each learner, which celery
  beat starts; `WF` of the expiry of a lock nobody holds any more (redis).
- `edx_auth`: three workers, five requests, two expiries, one dropped token, two
  faults. `StoredTokensComplete`, `NoThunderingHerd`, `StoredTokenIsLive`. Three
  workers are the least with which one waits for the lock while another refreshes
  and a third authorizes.

### B2B

- `b2b_codes`: three learners, two workers, one seat or no limit, no code or three
  at first and three at most, three records, four operations, two mails, two
  timestamps, one crash. `RedeemerIsMember`, `SeatsNearlyKept`,
  `SecretOnlyForAssignee`, `StatusIsNewest`, `RedemptionKept`, `CodesFitSeats`. What
  the code does not promise is stated as what remains true: learners who join by
  code exceed the seats by the requests that overlapped, those whom an enrollment
  brings in are bounded by nothing and not counted, and `RedemptionKept`,
  `SecretOnlyForAssignee` and `StatusIsNewest` speak of codes whose handlers neither
  overlapped nor died (`disturbed` records the others). `CodesFitSeats` is about a
  check of the codes that counts, counts again, picks and removes at different
  moments, with managers and learners in between: as long as checks do not overlap
  they fill up to the seats and leave no fewer codes than seats, and a code in use
  goes only if it was given away between the pick and the removal, which the code
  allows. Three codes for one seat make two to spare, so a removal is interrupted.
- `contract_runs`: a contract that begins with no run, with a run in use, with one
  whose clone is at its last retry, or with one taken out; with and without an end;
  all options of the commands; two workers, two runs, two commands or program tasks,
  one retry, one fault. `LiveOnlyUnderContract`, `RunsHaveCauses`, `SchedulesAgree`,
  `RetirementHolds`, `CloneSettles`. Two runs are the least with which a surplus run
  shows, and a contract with no run lets two tasks pass the check together;
  `RunsHaveCauses` charges the second run to that. `CloneSettles` excepts a clone
  that died with the child of its pool.
  `SchedulesAgree` and `RetirementHolds` are what the docstring of
  `retire_course_run` calls "self-healing on the next sync"; a retirement counts
  as `settled` when it has reached edX while no clone task was under way, whose
  fix would push older dates. Fairness: `WF` of `Step(w)`; `SF` of the start of a queued clone (celery) and of
  the sync of a run (celery beat, `main/settings.py:1021`).

### Certificates

- `certificates`: one run, three programs of which one requires the others,
  one of them as an elective, one cron and one web worker, two events (webhooks, commands, revocations, grade
  changes, crashes, failures). `EarnedMeansMet` (against a reference definition of
  a satisfied tree), `RevocationStands`, `AdminGradeStands`, `BlockedGradeWins`,
  `EarnedIsCertified`, `AuditIsUpgraded`. Two events are enough for a change that
  falls between two steps of a job, or for a lost trigger after a change. The grade
  job takes the run only while it is `swept`, and the run may enter and leave the
  window: `BlockedGradeWins` is claimed of a run that stays due and swept. The run
  offers the verified mode, so the credit by grade alone (`GradeCourses`) is not
  exercised here.
  Fairness: `WF` of `Step`; `SF` of the two jobs on the
  cron worker, of the grade job only while it takes the run (celery beat); `WF` of the upgrade job (celery beat).

### HubSpot

- `hubspot`: two workers, two changes, a window of two slots with distance one
  and a lifetime of three, one retry, two failed searches, one other fault.
  `DuplicatesHaveCauses`, `SlotsSpaced`, `LastStateArrives`. Two failed searches are
  what a second deal needs. A change need not be announced, and a crash requeues the
  task or loses it; `LastStateArrives` promises the newest announced state or a later
  one, as long as no task was lost. `Workers` times `MinDelay` is at most `Lifetime`: beyond
  that the limiter's key can expire before the last booking.
  Fairness: `WF` of time, of `Step` and of the lock's expiry; `SF` of the start of a
  queued task for each retry count (celery).

## Proofs

### `OrdersProofs`

`OrdersProofs` proves, from the named assumptions on the constants (non-empty
`Users` and `Gateways`, finite `Runs`, typed prices and bounds) and for every
value of them:

- `TypeCorrect`: `Spec => []TypeOK`. One lemma per group of actions; `RowType`
  and `HandlerType` say what an update of a row or of a handler yields.
- `SettledOrdersAreFinal`: `Spec => SettledIsFinal`. Every save writes a settled
  state, and a checkout writes only rows that are pending or new.
- `NothingFulfilledUnpaid`: `Spec => []PaymentOnRecord`. The property is not
  inductive: a handler on its way to `order.save()` must already hold a payment
  of that order. `PaymentEvidence` adds that every transaction belongs to a page
  of its order, that a handler about to record a payment holds one that is paid,
  and that a handler past that point, or refunding, has it on record. The
  argument is `EvidenceGrows`: transactions are only added and a paid page stays
  paid for the same order, so evidence once true stays true (`OwnedStable`,
  `OnRecordStable`), and each action has to cover only what it writes
  (`EvidenceKept`).

Three theorems have the hypothesis `UsualOperation`: one item per basket (the
default of `ENABLE_MULTIPLE_CART_ITEMS`), and none of `refund_fulfilled_order` and the
two forms of `resolve_pending_order --no-fulfillment`. It is what the `stripe` run is
configured with, and it is needed: with several items a later checkout adds a line
to the pending order that a handler is already delivering (TLC finds
`FulfilledIsDelivered` violated within thirteen steps), and `--no-fulfillment` inserts
no row. `refund_fulfilled_order` is excluded for the proofs' sake only: its handler
saves, changes enrollments and deletes rows in one command, and would need its own case
in every one of their lemmas.
Everything else is allowed: both gateways, free orders, the resolution of pending
orders, refunds, crashes, late and repeated events, and the requests that take a
`PaidCourseRun` or a verified enrollment away, in any number. Those are not excluded
but counted: `cleared` and `lowered` say what they took from which order.

- `RefundIsFinal`: `RefundedNotFulfilledAgain`. A handler works on the instance it
  loaded, so the order's state does not protect it; the unique key of
  `PaidCourseRun` does, and only while the row is there. `Sales` therefore says two
  things of an order that was sold. Always: its row is in the table or among the
  rows cleared. As long as no row of it was cleared (`Kept`): of the handlers past
  the insert only one is left, and none once the order was sold (`SoldOnce`). It
  rests on one line per order (`SingleItems`), on nothing being known of absent rows
  (`AbsentUnknown`), and on rows that go being remembered (`NextRowsStay`).
- `OrdersDeliver`: `[]FulfilledIsDelivered`. `Deliveries` adds that what has a
  `PaidCourseRun`, now or once, was given to the learner (`GivenFor`: verified,
  refunded since, or lowered since), and that only a refund on record queues the
  downgrade that takes it away. An enrollment request disturbs this only by steps
  that also record what they took (`EnrollmentsDeliver`).
- `RefundsAreBounded`: `[]RefundsBounded`, of orders that kept their rows.
  `RefundsCounted` counts the requests that are about to return the money and, as
  long as the order is still fulfilled, charges every refund to a request that has
  not saved it yet or to a crash. `Procs` is finite (`ProcsAssumption`).

`ImplementsFlow` proves `FlowRespected`, that every step of `Orders` is a step of
`OrderFlow` or a stutter, from `LockedRows`: CyberSource only, no zero prices, and of
the staff commands the two refunds. These are the constants of the `callback` run.
Without it the statement is false: Stripe's webhooks, the free checkout and the
resolution check a transition against the instance in memory and save over what
another handler saved (see the observations). The inductive part is `Refundable`
(who is about to save a refund holds an order that is fulfilled or refunded);
`StatesMove` then says that a step moves one order along a declared transition.

- `DiscountsOnlyReduce` (about `Discounts`): for every price in cents and every set
  of valid discounts the price charged lies between nothing and the list price.
  Rounding is the difficulty: `RoundedAtMost` and `RoundedAtLeast` bound a half-even
  rounding by an integer bound of its argument, `ExactCents` says that rounding a
  price in cents changes nothing, `Least` that the best discount is one of the
  offers.

### `EnrollmentSyncProofs`

From the named assumptions on the constants (a non-empty set of runs, known
operations and answers, natural bounds), for any number of runs, workers and
operations:

- `EnrollmentTypes`: `Spec => []TypeOK`. The retry count stays within its cap
  although the job adds one to a count it read before the edX call: `TypeOK`
  carries the room a handler has seen until it has counted.
- `EnrolledRowsAreInEdx`: `Spec => []EdxEvidence`, and from it
  `EdxEnrolledIsTrue`: `Spec => []EnrolledHasEdxRecord`. The property is not
  inductive, because a handler saves an instance loaded long ago: every instance,
  every answer not yet saved, and every run a sync or webhook works on must have
  its record in edX too. The argument: edX deactivates enrollments and never
  forgets them (`Grows`), so a good row and a good handler stay good under a step
  of edX, and each action has to cover only the row and the handler it writes.
- `PlaceIsKept`: `OneAtATime => (Spec => SeatKept)`. `OneAtATime` says that the
  learner enrolls, buys and defers one operation after the other, with the repair
  job in between, on runs that edX knows; the `enroll_defer` run has these
  constants. The other operations (refund, downgrade, unenroll, the API) take a
  place away on purpose, the sync may deactivate a row that edX never got, and
  overlapping handlers save rows that are out of date, so the hypothesis cannot
  simply go. Calls may fail, lose their answer or be the last thing the process
  does. `PlacesKept` adds what a deferral relies on: a row it has begun to leave is
  covered by a firm place elsewhere, and a handler knows the row it is about to
  save (`Careful`).

### `EdxAuthProofs`

For any number of workers, requests, expiries and faults:

- `TokensAreComplete`: `Spec => []StoredTokensComplete`.
- `TokensStayUsable`: `Spec => []StoredTokenIsLive`.
- `OneTokenPerExpiry`: `Spec => []NoThunderingHerd`.

All three come from one inductive invariant `IInv`: `Shape`; `LockHeld` (a worker is
between lock and commit exactly when the lock names it); `InHand` (what it holds is
the stored row or newly issued tokens, and the stored access token is not fresh);
`Absent` (a missing row is not fresh); `StoredTokensComplete`; `Rotation` (without
faults the stored token is live or its successor is about to be committed); and `Paid`, a credit argument: every
token issued is charged to an expiry, a deletion, a fault or the first
authorization, and one credit is left whenever the stored token is not fresh and
none is being committed. `NoThunderingHerd` counts what has happened; the credit is
what makes it inductive, for it says that the next token is paid for as well.

### `EdxAccountProofs`

From a non-empty set of learners and desired names that differ from learner to
learner (`EdxAccountAssumption`; collisions come from the names others have in edX and
from the suffixes), for any workers, attempts and faults:

- `SyncedNames`: `Spec => [](TypeOK /\ SyncedNameIsInEdx)`.
- `StaysSynced`: `Spec => OnceSynced`.

A row is saved whole from an instance in memory, so the invariant is about the
instances: `AllFit` says what a worker may hold at each step (in particular, one
about to save "synced" carries the name that edX gave to its learner, and edX takes
no name back), `OneOwner` that a lock has one owner, `Undisturbed` that while a
worker is past the lock its learner is not synced, outside `late`. The last two are
what `OnceSynced` needs: the second look at the row happens under the lock.

### `ContractRunsProofs`

From the named assumptions (known first states, dates and options, natural
bounds), for any number of workers, runs, commands and faults:

- `ContractRunTypes`: `Spec => []TypeOK`. It includes that a key computed from the
  number of runs is a free one: runs are created in the order of their index, and
  `KeyIsARun` counts the interval.
- `LiveRunsHaveContract`: `Spec => []LiveOnlyUnderContract`. Not inductive as it
  stands, for a handler saves an instance loaded long ago. `Inv` adds `RowsSound`
  and `HandlersGood`: every instance in memory is as sound as the row it was loaded
  from, and the instance of a retirement that is about to move the run is no longer
  live. Each action then has to cover the row it saves and the handler it moves.
- `RunsAreCaused`: `Spec => []RunsHaveCauses`, with finitely many workers. Counting
  runs is not inductive, for a task decides to create one long before it inserts it.
  `Causes` counts in two ways: the runs there are with the workers about to create
  one (`RunsCaused`), and the runs that are, or may be taken, out of the contract with
  the commands and program tasks under way that may still come to create
  (`TasksCaused`). No lock is assumed: a task that begins while another is under
  way is a cause when it begins. A task goes from the second count to the first only when it
  finds no run in the contract, and then every run there is counts in the second.

### `ContractCodesProofs`

For any number of learners, codes, records, mails and operations, with finitely many
workers:

- `RedeemersAreMembers`: `[]RedeemerIsMember`, by `Admitted`: instances in memory
  name members too, and members never leave.
- `SeatsAlmostKept`: `[]SeatsNearlyKept`, by `SeatsCounted`, which counts the requests
  between the check and the addition. It is about learners who join by code
  (`members \ enrolled`); an enrollment may come at any moment and only helps the
  check to refuse the next one.
- `SecretsStayPrivate`: `[]SecretOnlyForAssignee`; `StatusFollowsEvents`:
  `[]StatusIsNewest`; `RedemptionsStay`: `RedemptionKept`. These speak of codes whose
  handlers follow one another, and are argued code by code: `CodeStep` shows that a
  step on one code leaves the records, mails and handlers of all others alone, so
  that each action has to restore `Steady` (what its handler loaded is what it writes
  over) and `Settled` (status, secrets and open records agree) for its own code only.
- `CodesFollowSeats`: `CodesFitSeats`. A check counts, counts again, picks and
  removes at four different moments, so the invariant is about what it knows in
  between. `AllCounted`: from its second count to its last removal it has no more to
  remove than there are codes beyond the seats, as long as checks do not overlap, for
  nothing else changes how many codes the contract has (`NextOnlyNew`, `CheckMoves`,
  `OneCheck`). `AllPicked`: a code it picked was unused then, and every record of it
  is newer than the pick. Each removal takes one from both counts (`OneLess`,
  `UnlinkCounted`), and the pick is never larger than the surplus
  (`RemovableCounted`, by `NewestCounted`: how many of the others are newer numbers a
  finite set of codes from 0 without a gap, so k of them have a number below k).

### `CertificatesProofs`

For any runs, programs, trees, workers and events:

- `RevocationsStand`: `RevocationStands`; `AdminGradesStand`: `AdminGradeStands`. Of
  the steps that write a certificate or a grade, all but the two that the properties
  name look at the row they write over. The invariant is only that rows are those of
  runs and programs (`Rows`).
- `EarnedIsMet`: `[]EarnedMeansMet`, for every forest that is finite and in which
  nothing rests on itself (`TreesAssumption`, which TLC evaluates on the run's trees;
  with a cycle of programs `_has_earned` does not return). What a recursive function
  computes is out of the provers' reach as an induction, so the proof takes a largest
  set of nodes on which the recursion has a solution (`Solvable`) and shows that it
  leaves none out: among the nodes left one would rest on none of them, and could be
  solved next (`OneMore`). Then the definition is a fixed point of itself
  (`EarnedSolves`), and the property follows node by node; `AtLeast` turns "at least
  v are met" into the v nodes that `Supported` asks for.

### `HubspotSyncProofs`

For any number of changes, retries and failures, with finitely many workers:

- `DuplicatesAreCaused`: `[]DuplicatesHaveCauses`, by prepayment. Tasks beside the
  holder of the lock are at most the overlaps (`OverlapsCounted`), and what each task
  may still create is paid for by failures that have already happened
  (`DealsCounted`, `ItemsCounted`): two failed searches or an overlap for a deal, one of
  either for an item.
- `BookingsSpaced`: `BookingsPass => (Spec => SlotsSpaced)`. `BookingsPass` says that a
  full window lies a window ahead (`Window <= MinDelay * MaxRequests`) and that the
  bookings of one task and of the workers that died pass before the key expires. The
  code's values are 60 ms, 19 requests in a window of one second and a key of two
  seconds, so it covers 31 dead or displaced workers within two seconds; the run meets
  both bounds with equality. The second is needed, for after the key's expiry the
  limiter has forgotten a booking that still lies ahead. `Spaced` adds that the last
  booking and the key are there as long as they matter (`LatestBooked`), that bookings
  are spread (`Spread`) and that those ahead belong to sleeping tasks or dead workers
  (`BookedAhead`).

### Only model-checked

Every invariant and action property that a run checks is stated by a theorem (and
the type invariant of `ContractRuns` by a theorem only).
Liveness under fairness is out of the prover's reach and rests on the runs:
`PaidLeadsToSettled` (and `PaidLeadsToFulfilled`, which is violated), `FailedIsRepaired`,
`EventuallyAgrees`, `EveryLearnerSettles`, `BlockedGradeWins`, `EarnedIsCertified`,
`AuditIsUpgraded`, `LastStateArrives`, `SchedulesAgree`, `RetirementHolds`,
`CloneSettles`. Each rests on the scheduling its run names, and four are
conditional on it: `EventuallyAgrees` on a sync that the learner triggers,
`BlockedGradeWins` on a run that stays in the window of the grade job,
`LastStateArrives` and `CloneSettles` on tasks that were queued and not lost. Outside the hypotheses `UsualOperation`, `LockedRows`, `OneAtATime` and
`BookingsPass` nothing is claimed for the properties proved under them.

## Not modelled

`components` in `PROJECT.json` lists every part with the reason. In short:

- Single-row edits without concurrency: flexible pricing, compliance, block lists
  and retirement of users. One transaction each: claiming and culling anonymous
  baskets, code generation, verified program enrollments (a zero-value checkout).
- Engines outside the repository with thin plugins that call what is modelled:
  refund and deferral sheets, Keycloak, Wagtail.
- Content and I/O: CMS, mail wording, the frontend, the MicroMasters import.
- Of contract runs: products, languages and variants, course modes and the import
  of runs from edX. `sync_course_mode` and `check_course_modes` have no callers.
- Of HubSpot: batch uploads, contacts, products and carts, which copy rows in the
  style of the deal.

## Further observations

Behaviours of the models that disagree with a line of the repository and are not
kept as runs of their own:

- `cancel()` has source `State.ANY`, so a REFUNDED order becomes CANCELED when an
  abandoned session of it expires (`ecommerce/api.py:1625`), while
  `ecommerce/models.py:1069` says it "can't be altered further".
- `OrderFlow.refund` leaves the `PaidCourseRun` rows in place, while
  `courses/models.py:2434` says they only hold fulfilled orders.
- `compare_to_order` compares all pairs, so a basket of two products equals no
  order and is never cleared (`ecommerce/models.py:198`).
- The enrollment serializers do not ask whether the run is paid for, so a repeated
  POST turns a purchased enrollment into audit
  (`courses/serializers/v1/courses.py:191`, and the ones of v2 and v3).
- Unenrolling deletes the `PaidCourseRun` of a paid run (`courses/api.py:466`) and a
  deferral moves it (`courses/models.py:2189`). After that nothing stops a handler
  that loaded the order while it was pending from fulfilling it again, even when it
  was refunded in between; `RefundedNotFulfilledAgain` excepts that.
- A forced deferral of an inactive enrollment ends in `reactivate_and_save`, which
  drops the mark `deferred` (`courses/api.py:291`).
- `defer_enrollment` without a new run leaves the learner enrolled as audit, while
  its docstring says "simply unenrolled" (`courses/api.py:493`).
- `sync_enrollments_with_edx` ignores the mode (`openedx/api.py:1514`).

Seen while reading: `process_pending_order_resolutions` calls
`check_and_process_pending_orders_for_resolution` without its required argument;
the `STATUS_ERROR` branch of `process_stripe_checkout_completed` cannot be
reached; the receipt is scheduled with `on_commit`, which in autocommit runs
before `order.save()`.

The following were met while modelling. Where the model has the state involved it
contains the behaviour, and the properties are stated so as to hold in spite of it.

Orders and codes:

- A one-time code is checked at checkout and not at fulfilment, so two orders can
  use it (`ecommerce/models.py:348`; `discount.rst:23` says "can only be used once by
  anyone").
- The total of a reused pending order covers only the lines of the new basket
  (`ecommerce/models.py:979`).
- The `PaidCourseRun` row is inserted before the order is saved: after a crash in
  between, the unique key makes every retry fail (`process_transaction_line.py:35`).

Enrollments and edX:

- The repair job saves the instance it loaded before its call to edX and takes
  back an upgrade made in between (`openedx/api.py:1415`).
- edX's webhook sets `edx_enrolled` whatever the mode in edX: after an upgrade whose
  call failed, the repair job no longer sees the row and edX keeps the audit mode
  (`courses/api.py`, `create_local_enrollment`).
- A deferral that dies before `change_payment_to_run` leaves the payment with the
  old run (`courses/api.py:600`).
- A registration whose answer is lost ends in a sync error for good: the next
  attempt finds the learner's own address taken (`openedx/api.py:372`).
- The lock is not released when the learner turns out to be synced
  (`openedx/api.py:346`); it has to expire.
- Name generation truncates with `base[:amount_to_truncate]`, which keeps as many
  characters as it means to cut (`openedx/api.py:199`).

Certificates:

- `create_verifiable_credential` saves the whole certificate, which undoes a
  revocation or a deletion made during the request (`courses/api.py:1985`).
- `manage_certificates --grade 0.0` overrides the grade after the certificate was
  decided on, so it creates one from the grade before.

B2B:

- `create_run_enrollments` adds a learner to the contract of the run without asking
  for a seat (`courses/api.py:259`), so requests that follow one another fill a
  contract beyond `max_learners`, and after that no code can be redeemed.
- A surplus code that is assigned after it was picked is removed all the same
  (`b2b/api.py:1068`). Its link to the product goes first; the delete of the code
  then fails on its records, and an assigned code stays behind that belongs to no
  product.
- Managers' edits and Mailgun's events save whole records and can undo a redemption
  made in between (`b2b/views/v0/manager.py:879`); two redemptions at once exceed the
  seats or use a one-time code twice.
- A crash in a revocation leaves the old secret valid; a mail that leaves between
  the two saves of a reassignment takes the new secret to the old assignee; an event
  that comes before the message id is saved is dropped.
- A user's organisations are computed before `keep_until_seen` is cleared
  (`b2b/api.py:1716`).
- A stale sync save undoes a retirement's `live` and contract (`courses/api.py:715`),
  while `courses/retirement.py:13` calls `live` "the durable local lever". Enrollment
  stays closed because the dates hold.
- The fix after a clone pushes dates loaded before a retirement
  (`openedx/api.py:1870`).
- A clone whose answer is lost, or whose fix fails, is retried, found in edX, and
  refused with a `ValueError`: its dates and modes are never fixed, and the next sync
  copies the dates of the source.
- A crash between the insert of the row and `clone.delay` leaves a run that edX
  never gets (`b2b/api.py:716`).
- The index in a run's key is found by sorting strings, so `10T` sorts before `9T`
  (`b2b/api.py:323`).
- `create_program_contract_runs` is documented with "only one task runs at a time per
  contract/program pair" (`b2b/tasks.py:43`), but its lock is in the memory of one
  process, and programs that share a course have different keys.
- A clone task whose pool child is killed is acknowledged and never made again; no
  job looks for runs that edX does not have.
- A contract without an end pushes no dates, so edX keeps those of the source; and
  `b2b_courseware remove` of such a run never reaches edX.
- `CourseRun.clean` says it sets `expiration_date` to `end_date` plus 90 days, and does
  not (`courses/models.py:1641`).

HubSpot:

- A failed search is treated like one that finds nothing, so the task creates a
  duplicate (`hubspot_sync/api.py:2370`; the docstring at `1817` promises otherwise).
- The limiter's key expires after a time shorter than a long backlog, and the
  bookings with it.
- Refunds through the API and Stripe's expiry and cancellation queue no task
  (`ecommerce/api.py:683-704`, `1560-1573`, `1625`), so HubSpot shows the order as it
  was before until something else announces it.
- Adding to a cart creates line items without looking for existing ones.
