# Verification of the Sports Management application

TLA+ models of the backend's billing core and of the academy's web client, TLC configurations that check them on
small instances, and TLAPS proofs of what matters most about them. Backend paths below are relative to
`src/backend/`, web paths to `src/frontend/src/`, unless they start with `src/`.

The backend is a multi-tenant Django application (one PostgreSQL schema per academy), with Celery workers, a beat
scheduler and Redis; the web client is a React application that keeps the server's answers in TanStack Query. Five
facts shape every model here:

- requests are **not** wrapped in transactions (`ATOMIC_REQUESTS` is off), so only `transaction.atomic` blocks are
  atomic, and what a view loads before such a block may be stale inside it;
- the database runs at READ COMMITTED: a statement sees what has been committed when it starts, an UPDATE waits for
  the row and keeps it until the commit, and a second INSERT under a unique key waits for the first one;
- almost nothing locks on purpose: `select_for_update` occurs three times in the whole backend (staff pay, inventory,
  a parent's row);
- the client is told nothing by the server: what it shows is as old as its last fetch, and only the `onSuccess` of a
  mutation hook says which of its answers a write has made old;
- every list endpoint answers with twenty rows (`PAGE_SIZE`, `config/settings/base.py:236`), whatever the client asks for.

## 1. Inventory

| Component | State | Operations | What is hard | What makes it correct |
|---|---|---|---|---|
| Session-based invoice schedules (`tenant/billing/tasks.py`, `invoice_schedule_service.py`) | `InvoiceSchedule`, `StudentInvoiceCycle`, draft `Invoice`s, `InvoiceScheduleRun` | `evaluate_session_schedules` (daily, retried, or "run now"), edits of the schedule | everything it reads is edited between runs; runs overlap; one student's failure rolls back all | a session counts once, a full cycle gets one invoice, an invoice line belongs to one cycle |
| Invoices, receipts, payments (`tenant/billing/services.py`, `models.py`, `views.py`) | `Invoice.status`, totals, `Receipt`s | `add_payment`, `mark_paid`, `apply_discount`, PATCH, bulk issue, edits of receipts and items | every request works on a copy loaded before its transaction | status tells what has been paid; cancelled and paid invoices stay so |
| Document numbering (`tenant/billing/services.py:271-345`, `tenant/coaches/services.py`, `tenant/facilities/services.py`) | numbers of a year's documents | generate, create, delete | concurrent generation; text order | a new document gets a free number |
| Attendance (`tenant/attendance/services.py`) | one mark per student, class and date | mark, correct, delete | late and corrected marks after billing | (an input of billing) |
| Rent (`tenant/facilities/tasks.py`) | `FacilitySessionCycle`, rent invoices, runs | the session, monthly and daily evaluations, bulk issue | the session evaluation is not a transaction; a bulk issue redates what the daily guard looks for | a session is charged once, a period has one invoice |
| Monthly invoice schedules (`tenant/billing/tasks.py:322-411`) | the rows of the session-based ones | `evaluate_monthly_schedules` | look, then create, in separate transactions | one generation a month |
| Staff pay (`tenant/coaches/tasks.py`, `services.py`) | `CoachSessionCycle`, staff invoices | session and monthly evaluation | `select_for_update` re-evaluates its filter after the wait | a session is paid once |
| Bills, inventory (`tenant/facilities/`) | bills, lines, stock | payments, stock adjustment | - | stock never negative |
| Classes and enrollment (`tenant/classes/`) | enrollments, capacity | enroll, drop, complete | capacity checked before other enrollments commit | at most `max_capacity` enrolled |
| Quotas (`shared/decorators/quota.py`, `shared/services/quota.py`, `saas_platform/quotas/`) | `TenantQuota`, `TenantUsage`, cached counts | check, create, invalidate, reconcile | check-then-create; a stale count cached after its invalidation | usage within the plan |
| Media (`tenant/media/`) | files, `storage_used_bytes` | upload, delete, recompute | recomputation races; file stored before its row | usage equals the sum of the files |
| Subscriptions (`saas_platform/subscriptions/`) | one current subscription per academy | activate, change of plan | two saves demote each other | at most one current |
| Tenant provisioning, onboarding, users and invitations | schemas, wizard steps, invite tokens | provision, step n, invite, accept | partial failure, checkout lock, expiry | steps in order; a token used once |
| Notifications (`tenant/notifications/`) | queued messages, logs | queue on save, send, retry | queued before the commit | every issued invoice is announced |
| Platform finance, masters, audit, analytics; reports, portal, overview; middleware | - | CRUD, aggregation, plumbing | - | - |
| Web client: queries and saves (`features/tenant/*/hooks/*.ts`, `App.tsx`, `shared/services/api.ts`) | answers by key, their staleness, fetches, mutations under way | open a page, fetch, save, invalidate | answers are late, lost or overtake each other; a write makes answers of other features old | a user sees what they have just saved |
| Web client: forms (`features/tenant/*/pages`, `components`, `shared/utils/errorUtils.ts`) | draft, request, notice | type, fill from a query, send, show a refusal | a refetch or another dialog writes the draft; empty fields are left out of a PATCH; the shape of a refusal | what is reported saved is what was typed; a refusal is told |
| Web client: lists (the same, `PAGE_SIZE`) | page, filters, answers by page | next, previous, filter, delete | the last row of the last page is deleted; a list counts on more rows than the server sends | every row can be reached |
| Web client: routing, platform screens, overview, reports, media, onboarding, finance | - | - | - | - |

Interactions: attendance marks feed the session evaluators; they call `generate_invoices_for_schedule`, which numbers
and creates the drafts that the payment requests then work on; deleting an invoice reopens its cycle through the
foreign key (`on_delete=SET_NULL`); saving a receipt refreshes the status of its invoice; saving an invoice or a
receipt queues notifications. The client reaches all of that through the endpoints of `ServerTables`, and the only
way a page learns of another page's write is the cache. `PROJECT.json` lists the hazards of each at their lines.

## 2. Modules

| Module | What it is |
|---|---|
| `SessionBilling` | a session-based schedule; an evaluation is one step, in the midst of all the edits the administrators, coaches and parents make |
| `BillingRace` | the same evaluator statement by statement, as two workers that may overlap |
| `BillingPromise` | abstract: count sessions never counted before, close a full cycle with one invoice of its own |
| `InvoiceLedger` | one invoice and the overlapping requests about it |
| `PaymentPromise` | abstract: a payment is atomic and leaves the right status |
| `DocumentNumbering` | the text order of document numbers |
| `RentBilling` | a rent schedule of each type, every statement committed by itself, runs that die |
| `StaffPay` | a pay schedule by sessions, in runs that overlap and lock the cycle they work on |
| `Enrollment` | one class, its enrollments and its count of them, under overlapping requests |
| `Largest` | the row `order_by("-x").first()` finds |
| `MCSessionBilling` | the settings of a schedule its runs switch between |
| `QueryCache` | one browser tab: pages, saves, and one answer of TanStack Query's cache |
| `FormEntry` | one field of one form, from opening to the answer |
| `Listing` | one list, the pages the server cuts it into and the controls between them |
| `WebKit` | the records in which pages, hooks, saves, forms and lists are written down |
| `StudentsWeb`, `ClassesWeb`, `BillingWeb`, `StaffWeb`, `FacilitiesWeb`, `SettingsWeb` | the hooks, endpoints, pages, forms and lists of each feature |
| `ServerTables` | what each endpoint's view reads and changes |
| `Screens`, `MCScreens`, `WebForms`, `WebLists` | the features composed into the parameters of `QueryCache`, `FormEntry` and `Listing`, and the exceptions known of each |
| `LargestProofs`, `SessionBillingProofs`, `BillingRaceProofs`, `InvoiceLedgerProofs`, `RentBillingProofs`, `StaffPayProofs`, `EnrollmentProofs`, `WebClientProofs` | theorems; those about `DocumentNumbering` are in `InvoiceLedgerProofs`, those about `QueryCache`, `FormEntry` and `Listing` in `WebClientProofs` |

### The backend

**SessionBilling.** `cycles[s]` is the list of a student's `StudentInvoiceCycle` rows by `cycle_number`, with one
field the code lacks: `dates`, the sessions the counter stands for. `Current`, `Uncounted`, `Counted`, `Qualifies` and
`Following` are the steps of the evaluator's loop for one student; `FirstCall` and `SecondCall` are its calls of
`generate_invoices_for_schedule` (one invoice per parent); `EvaluateSucceeds` is the committed transaction,
`EvaluateFails` the `except` branch that rolls back and logs. An invoice is identified by its `batch` (its number is
larger than all that exist), parent and lines. Prices, the discounts of single students and tax are left out: nothing
here depends on them. `AUTO` means `ON_COMPLETION`, as `resolve_effective_invoice_creation_timing` has it.
`EditSchedule` covers PATCH and `toggle_active`; `Spec` allows every edit, `CarefulSpec` only edits that leave the last
cycle of every student open. The code does not enforce that: it is the exact condition under which the evaluator
works (section 4 says what happens outside it).

**BillingRace.** `pc` walks through the statements of the transaction for one student of a schedule invoiced on
completion: load the open cycle, count, UPDATE, take a number, INSERT the invoice, link, find or insert the next cycle,
commit. `work` is the ORM object a run holds, `held` the rows it has locked, `number` the invoice it is inserting; a run
commits only the columns in its `update_fields`. `WaitsFor` is the lock table. `Crash` is a dying worker, `Detect`
PostgreSQL's deadlock detection. Numbers of other schedules, deletion of invoices and changes of settings stay out of
this module; `SessionBilling` has them.

**InvoiceLedger.** A request loads the invoice (`Ask...`), works on `seen`, its copy, and ends `done` or `failed`.
A payment takes a receipt number, inserts the receipt (the unique index makes it wait or fail), updates the status of
the copy in `Receipt.save`, waits for the row and writes it (`Lock`), updates the status of the copy again and writes
it again, then commits. `Save` is a single UPDATE and its columns: `mark_as_paid` without a receipt and bulk issuing
write the status, a discount the totals, a PATCH the whole row. Amounts are small integers in place of decimals;
discounts are fixed amounts, tax is off, the date does not change.

**DocumentNumbering.** The numbers of one kind and year in `Base` digits padded to `Width`. The code has base ten and
width three; base three and width two put the overflow at 9, where every set of documents can be enumerated. `Fits` says
that a number needs no more digits than the padding has; the documents there are at the start were numbered one after
the other, which ends at the first number that does not fit.

**RentBilling.** `run` is the run under way: the statement it is `at`, the cycle or the date it works on, the invoice
it has made, what it has counted. `Guard` is the look for an invoice of the month or the day; `Find`, `Open`, `Count`,
`Save`, `MakeInvoice`, `Attach`, `Link`, `AppendNext` and `Log` are the statements of the loop, each a commit of its
own, because the evaluator is called from a request or a task without a transaction (`tenant/facilities/tasks.py:162-280`);
`MakeInvoice` is the one `atomic` block, in `create_rent_invoice`. `Count` is one query and the date of the last
session another (in `Save`): attendance may be deleted between them. `Die` is a worker or request cut off between two
statements. `mishaps` records the writes that were torn, so that a property can say which of them it survives. The
rent evaluations are not in the beat schedule; a person asks for a run (`Begin`) on any day, and runs of one schedule
follow one another. Amounts are left out (an amount of 0 makes an invoice PAID, which no property looks at), a counter
above `sessions_per_invoice` is as good as full.

**StaffPay.** A run is one transaction of `evaluate_session_pay_schedules` for a coach's schedule. `Find` is the
`SELECT ... FOR UPDATE` that takes the open cycles as they stand, `Lock` the wait for the last of them and the second
look PostgreSQL takes at the row; with no row left a run goes on to `Number` and `Create` a cycle of its own. `Count` and
`Save` are the two queries over the marks, `Draft` (the number) and `Invoice` (the row) make the staff invoice, `AppendNext`
and `Commit` are the rest of the loop, `Rollback` an
exception or a dying worker. What a run writes is in its `row` until `Commit`. `dates` are the sessions a counter stands
for, as in `SessionBilling`; `overtaken` remembers that a cycle has been added between a run's query and what it made
of the answer. The unique `cycle_number` and `invoice_number` make the second of two insertions wait, then fail; since a run can hold the
one and wait for the other, two can wait for each other until `Detect` rolls one back. Numbers of other schedules' invoices
are left out: a clash with one of them is a `Rollback`. Marks that are deleted or
corrected, edits of the schedule and the monthly and weekly guards are left out.

**Enrollment.** `enrolled` is the set of students with an ENROLLED row (one per student, by a partial unique index),
`current_enrollment` the column of the class row. A request of `EnrollmentService` is a transaction that reads the class,
writes the enrollment, counts, waits for the class row, counts again with the row held and commits; the endpoints beside
it (POST and PATCH of an enrollment, PATCH of a class) commit each statement by itself. `full` and `gone` are what a
request has read and acts on later. `raced` remembers that a request outside the service has met another one, or died
half-way. The capacity is constant, and a status set back to ENROLLED is left out.

### The web client

**QueryCache.** The entries of the cache never influence each other, so the model follows one, `key`, chosen at the
start; `version` is how often the server's answer has changed, `entry` what is cached and whether it is stale, `fetch`
the request for it. `Visit` mounts a page: a query without an answer or with a stale one is fetched (`Asks`). Between two
pages one of which does not show the answer it goes by way of `Elsewhere`, which changes nothing of it. `Start`,
`Apply`, `Answer` and `Fail` are a save, a chain of requests each of which may be answered late, refused or lost, also
after the user has left. `Answer` is `onSuccess` of the hook: it marks the keys it names stale and fetches those that
are mounted, unless a first fetch is under way, which it joins (`Restarts`); it removes or fills others. `own` is the
version of the latest write confirmed to the user; `overtaken` says that a write passed a fetch that was then trusted.
TanStack Query itself is not in the repository; its part is modelled from how `App.tsx` configures it (no refetch on
focus, one retry) and how the hooks use it, and is marked external. `StaleTimePasses` at any moment covers every
`staleTime` in the hooks, 0 to an hour. Retries are part of a fetch that takes longer.

**Screens and its parts.** A hook is a key and an endpoint (`Query`), or an endpoint and the keys its `onSuccess` names
(`Mutation`, `Removal`, `Putting`); a page is the queries it mounts and its saves, a save the chain of hooks, what
disables its control (the `isPending` of hooks, or a state the page keeps from the first request to the last), and where it
goes. A `Batch` sends one request per row and marks what it has made old after the last, if none failed. Keys match by prefix and by type: a page that takes an id
from its address has it as text, one that takes it from a row as a number, and the two keys differ. `Serves` and
`Writes` in `ServerTables` say which tables an endpoint reads and changes, from the backend's views, so that what a
write makes old comes from the server and what it marks from the client. What a write changes includes what the database does with the rows that refer to a
deleted one (a cascade, or an emptied reference), the rows a queryset no longer answers with (enrollments of an inactive
student), and the names that other answers carry. `KnownGaps` lists the answers that a hook forgets.

**FormEntry and WebForms.** A form's fields, which of them are required, sent as they stand or left out when empty
(`value || undefined`), what it makes of a refusal, and where it shows messages. An empty input becomes a number or a choice
of the page's own (`PageFills`), as does a typed 0 where the page writes `parseInt(text) || ...` (`ZeroAsBlank`); a field
left out of a new row becomes empty or the server's default (`ServerFills`), one left out of a PATCH stays (`Stores`). The
server may pass over a field (`Unread`: the serializer has none of that name, or there is no record to write it to) or put
its own value in the place (`Replaced`: a pending bill past its due date is saved as overdue). Whether it does depends on
the user or the day, so both outcomes are followed. A field shown only for some type, role or switch is followed while it
is shown. Trimming, changes of case and the clamping of negative numbers are left out; that the server refuses some empty
texts is covered by `Refuse`, which may happen to any field that is sent. `Refill` is an effect that fills the
form from a query again, `OpenOther` a dialog that shares the draft. `Says` is `errorUtils.ts` applied to the answer of
`shared/exceptions/handler.py`, which always wraps the reasons in `details` and says "Please check the highlighted
fields.".

**Listing and WebLists.** `seen[p]` is the cached answer for page p (the count it told), `asked` and `failed` the
requests. The server answers a page it does not have with 404. `pager` says whether a list offers further pages, and
whether an error takes the place of the controls.

## 3. Runs

| Run | Checks | Instance and why it is enough |
|---|---|---|
| `sb_edits` | `TypeOK`, `NoSessionCountedTwice`, `CountersExact`, `LinesMatchCycles`, `ClosedCyclesFrozen`, `RerunFindsNothing`, `DueIsInvoiced` | one student (students share only the transaction), three dates, a guardian who may be missing, four settings that differ in timing, cycle length, absences, first date and activity: several cycles open and close, marks come late, are corrected and deleted, evaluations fail |
| `br_serial` | `TypeOK`, `KeepsPromise` | four dates and cycles of two sessions: two full cycles, runs of two workers one at a time, crashes and marks between their statements |
| `br_overlap` | `OnlyLastIsOpen`, `EveryRunEnds` | the same with overlapping runs: one of them can be two cycles behind |
| `rb_days` | `TypeOK`, `SessionsChargedOnce`, `PeriodsChargedOnce`, `FullCycleIsFollowed` | a schedule of each type, three days of which two are one month, sessions on two of them, three cycles, four invoices at a time, which is one more than a `SESSION` schedule comes to: a midnight inside a run, a second month, an invoice issued or deleted between runs, one torn write of each kind |
| `sp_overlap` | `TypeOK`, `SessionsPaidOnce`, `CountsNeverLost`, `EveryRunEnds` | two workers, three dates, cycles of one session: a run waits for a cycle that is closed meanwhile, both add cycles, invoices are deleted, a cycle's row and an invoice number make a deadlock. Nothing is capped: no cycle can be added once every date is counted |
| `en_requests` | `TypeOK`, `CountExact`, `BoundedOverfill`, `EveryRequestAnswered` | one place, three students, two requests of any kind: both can pass the check of the place, each kind meets each |
| `il_payments` | `TypeOK`, `StatusTellsPayments`, `PaymentsAreAtomic` | three payments of an invoice over 2, and another invoice's receipts: partial, full and over-payment, number clashes, crashes |
| `il_live` | `EveryRequestAnswered` | two requests of any kind |
| `dn_text_order` | `NumberingTypeOK`, `NextFollowsAll`, `StopsAtLimit` | every set of numbers up to 11, of which 9 is the first that does not fit, from no document or from nine |
| `web_screens` | `TypeOK`, `OwnWritesShown`, `NoSecondSend`, `ConfirmedWritesArrive` | every answer of the academy's screens in turn, every page that shows it or can change it, two saves under way, one change on the server: a late answer, a save that is passed by another and a fetch that is passed by a save need no more. A second write of the same answer is past what TLC finishes in minutes; the theorems of `WebClientProofs` cover any number |
| `web_forms` | `FormTypeOK`, `SavedAsTyped`, `NoSilentRefusal` | every field of every form, three values and blank: one value is 0, one the default of the page or the server, one neither, so that a typed value is told from another user's, from a default and from nothing |
| `web_lists` | `ListTypeOK`, `NoDeadEnd`, `EveryRowReachable` | every list over up to fifty rows (one row stands for ten, so that a page has two): three pages, the last of which empties |

What they show, in short: the invoice evaluator is exact as long as its runs follow one another and no edit leaves a
student without an open cycle; staff pay never loses a count and pays a session twice only in the one overlap
`overtaken` names; rent survives every death but the one between closing a cycle and opening the next; payments among
themselves are atomic; the service of enrollments keeps the class's count exact, and overfills a class by fewer students
than there are requests at once; the client shows a confirmed write wherever its answer is mounted, but for the gaps
listed in `Screens`.

Bounds. `MaxCycles`, `MaxBatch`, `MaxInvoices`, `MaxOther`, `MaxNumber`, `MaxMishaps`, `MaxRows` and `MaxVersion` cap
counters; each is the guard of an action that creates a row or harms one, and leaves room for more than one closed cycle
or full page. Where a cap ends a liveness property's promise, the property says so (`EveryRunEnds` of `BillingRace`); of
`FullCycleIsFollowed`, `MaxInvoices` is large enough not to end anything, and the one cycle it is not asked of is the last
that `MaxCycles` leaves room for. Deadlock is checked in every run.

Fairness.

- `sb_edits`: the evaluation runs again and again (the beat schedule of `run_invoice_schedules`).
- `rb_days`: nothing schedules the rent evaluations, so the property holds only if someone asks for runs again and again
  (`WF` of `Begin`), a run does not stand still, and there is no statement before which every run dies (`SF` of each). It promises a next
  cycle once invoices are no longer deleted; somebody who deletes the re-made invoice of an earlier cycle before every run
  keeps the last one from being followed for ever, and the code with it.
- `br_overlap`, `sp_overlap`, `en_requests`: strong fairness for each run or request, as the database queues those
  that wait for a row; in `br_overlap` and `sp_overlap` deadlocks are detected. `il_live` needs only weak fairness: no request starts
  twice, so none can be overtaken for ever.
- `web_screens`: a fetch is answered or times out (30 seconds, `shared/services/api.ts`). Nothing is assumed of the
  user, nor of when a save is answered.

Exceptions. Some properties hold but for cases that the code does not keep, and each is written where it can be read:

- `KnownGaps` in `Screens` pairs a save with an answer its hook forgets: most come from deletions (a class, a student, an
  inventory item, a location, a sport), whose cascades reach other features, and from the account, the invitation of a coach
  and the bulk import, which name few keys or none; `KnownUnguarded` names two switches that can be pressed again while
  their request is under way;
- `WebForms` lists the fields a PATCH leaves out when they are emptied (`KeptOf`), those that the page or the server
  fills (`PageDefaults`, `ServerDefaults`), that take a 0 for nothing (`ZeroLost`), that the server does not read
  (`NotRead`) or replaces (`Derived`), forms that are filled again while the user types or share a draft
  (`OverwrittenForms`), and forms and fields that show no message (`MuteForms`, `MuteFields`, `NestedFields`);
- `WebLists` lists 24 lists no control of which reaches a second page (`ClippedLists`), and four that keep showing an
  error once their last page is gone (`DeadEndLists`);
- `mishaps`, `overtaken` and `raced` are history variables of `RentBilling`, `StaffPay` and `Enrollment`: what a property
  says only without them is what the code does not survive. Each of these conditions is needed: TLC finds
  a counterexample as soon as it is taken away.

## 4. Where the code and its documents part

Behaviour the models reach, beside what the repository says of it. No run reports these; the properties above hold
around them.

Billing and pay:

- an edit from START_OF_PERIOD to ON_COMPLETION makes the next evaluation count and bill all sessions again
  (`tenant/billing/tasks.py:166`), and an overlapping run on a stale cycle invoices it again (`:194`), beside
  `test_idempotency_re_run_does_not_create_duplicates`; a full cycle with more than `sessions_per_cycle` sessions is billed
  as one ("Every N sessions"); deleting an invoice after a switch of timing can make every later run raise "Next cycle
  already has invoice"; a failed run logs `invoices_created` that were rolled back;
- overlapping runs can deadlock: one on a stale cycle holds the next invoice number and wants the row of the next cycle,
  which the other holds while it waits for that number. Only the database's deadlock detection ends them, and one of the
  two is logged FAILED;
- a payment that loaded an invoice before it was cancelled makes it PAID ("Don't update cancelled invoices"); two
  `mark_paid` each create a receipt for the same remainder ("Create receipt for remaining balance"); bulk issuing and
  discounts act on an invoice that has been paid since it was checked ("Cannot apply discount to a paid invoice.");
- after number 999 of a year the last number in text order stays 999, number 1000 is generated for ever and refused by the
  unique constraint ("Generate unique invoice number for an academy.");
- a staff pay run that waited for a cycle which was closed meanwhile opens a new one without `last_counted_date` and
  pays everything again (`tenant/coaches/tasks.py:61`; "Prevents double-counting on reruns",
  `tenant/coaches/models.py:338`);
- a rent run that dies after linking the invoice and before the next cycle makes the next run count all sessions again;
  one that dies between making an invoice and attaching it leaves an invoice no cycle knows; issuing in bulk moves
  `issued_date`, so that the daily guard skips a day (`test_daily_creates_one_invoice_per_day`), and a run that crosses
  midnight can make a second invoice for its day. Rent invoices by session are due `cycle_start_date` + offset, not "Days after
  issued_date", and may be OVERDUE from the start.

Classes: overlapping enrollments exceed the capacity (`tenant/classes/services.py:37`; "Test enrollment fails when class is
at capacity."); requests outside the service leave a wrong count (`tenant/classes/models.py:106`; "Override save to
update class enrollment count."); a PATCH from DROPPED back to ENROLLED skips the check of the capacity.

Web client:

- a refusal says "Please check the highlighted fields." where nothing is highlighted (`errorUtils.ts:144-227`): reasons
  in nested records and, in some forms, `non_field_errors` are dropped; the class pages and the attendance pages
  show nothing at all, and refused deletions of master data appear in a dialog that is closed;
- lists and pickers ask for 100 to 1000 rows and get twenty ("Make the picker show all students when search is
  empty.", `StudentOverridesPanel.tsx:95`); the search of the invoices page looks at the twenty rows of its page;
- an emptied field becomes `undefined`, is not sent and stays as it was; a capacity emptied or set to 0 becomes 20, an
  offset of the due date 30 (`|| 20`, `|| 30`), a quantity, a unit price, a discount or an age 0, the date of a payment today;
- disabling a user PATCHes `status`, a field the serializer lacks (`users/serializers.py:498-511`): nothing changes, and
  the page says "User disabled successfully" (`UserDetailPage.tsx:163`). The names typed when an invitation is accepted
  are not read, those sent with it for staff only; the record of a guardian is lost where there is no row for it;
- a deleted class leaves its coach attendance and pay schedules on the pages that show them, a deactivated student the
  enrollments, a deleted inventory item the bills, until something else fetches them again (`classes/hooks/hooks.ts:101-110`,
  `students/hooks/hooks.ts:97-106`, `facilities/hooks/hooks.ts:316-323`);
- dialogs of `FacilitiesPage` that edit a row overwrite the draft of the one that adds one; computed amounts overwrite typed ones in the pay and rent schedule forms;
- a batch of payments one of which fails keeps all rows, and pressing again pays those that succeeded once more; resending a
  notification fetches its log before there is anything new in it; `useCreateReceipt` names a numeric key where the page
  uses the text of its address;
- an override of a quota that races a change of plan sends back the plan it was loaded with.

## 5. Proofs

All theorems hold for every value of the constants that satisfies the `ASSUME`s of the module; they assume no bounds
beyond them (the caps appear as guards and any cap will do). Every invariant and action property of the runs is a theorem
but `NoSilentRefusal`, `NoDeadEnd` and `EveryRowReachable`.

- `LargestProofs`: `LatestExists`, a finite, non-empty set of naturals has a largest element. `Latest` is a `CHOOSE`, and
  the other proofs about dates and cycle numbers rest on this.
- `SessionBillingProofs`. `TypeCorrect` is inductive by itself. `LinesAlwaysMatch` holds under every edit: the lines of an
  invoice are made from the cycles it closes in the same step, and a deletion takes both away. `NoSessionCountedTwice`
  and `CountersExact` need to know that a session not yet counted lies after everything counted before. The inductive
  invariant `CycleInv` adds to the types that the last cycle of each student is open (`LastCycleOpen`) and `RowsOK`: every
  date a cycle has counted lies at or before its `last_counted_date`, the dates of an earlier cycle lie before those of a
  later one, the counter is the cardinality of the dates, and the last cycle's `last_counted_date` is the largest. With the
  last cycle open, an evaluation works on the last cycle or on the first one ever, so new dates follow all the old ones.
  `CountedOnce`, `CountsExactly` and `CountsLastCycleOnly` follow, for `CarefulSpec`. `SecondRunFindsNothing` shows what a
  run leaves behind (`Settled`): the last row of every student of the class is not full, has an invoice if they are made at
  the start of a period, and has a `last_counted_date` no billable session follows; with the last row open, an evaluation
  looks at nothing else.
- `BillingRaceProofs`. `OnlyLastStaysOpen` holds for any number of overlapping runs without mutual exclusion. Its
  invariant `IInv` adds to the types what a run knows at each statement (`Fits`): its cycle exists or is the first one, it
  holds that row before it writes an invoice, and before it commits one the next cycle exists or is a row it has inserted. So a
  run on a stale copy can close again a cycle that is closed, but never the last one without a successor.
  `SerialKeepsPromise`, that runs one at a time implement `BillingPromise`, rests on `SerialInv`: at most one run is at work,
  counters are exact, nothing is counted after the last cycle's `last_counted_date`, and a run's copy is the committed row
  plus dates no cycle has (`Works`). A commit then is one `Evaluate` of just these dates, and every other step a stutter.
- `RentBillingProofs`. `RentTypeCorrect` keeps with the types what a run holds at each statement. `SessionsOnce` rests on
  `IInv`: as long as nothing has torn what the counting needs (`Unharmed`), the dates of an earlier cycle lie before those of a
  later one and at or before its `last_counted_date` (`Ascending`), and a run works on the last cycle or on one it is
  about to follow with another (`AtLast`). `PeriodsOnce` rests on `PInv`: invoices are told
  apart by their ids (`OwnIds`), and as long as no run has died between the making of an invoice and the writes that tie it
  (`Tied`), every invoice is marked as the schedule's or is in the run's hand (`Scheduled`); by sessions, the cycle an
  invoice is for names it or is about to, and a cycle that is worked on has none (`Billed`); by month or day, no two invoices
  are for one period, none is for a period to come, and a run past its guard charges a period without an invoice (`Dated`).
- `StaffPayProofs`. `PayTypeCorrect` and `CountsKept` rest on `Exclusive`, no two runs hold the same cycle, and on `Sound`,
  the copy a run holds is the committed row or has gone on from it. `PaidOnce` adds, while nothing has been
  overtaken, that cycles ascend, that the last one is open and that a run works on it (`Ordered`); two runs at work would
  then hold the same row, so at most one is. That the invoices' numbers have a greatest
  (`Bounded`) is part of the induction: a run draws the number after it.
- `EnrollmentProofs`. `CountAlwaysExact`: a request of the service counts for the last time with the class row held, and,
  unless raced, requests outside are alone; so what is written is what is enrolled when it is committed (`Right`, `Apart`).
  `OverfillBounded` counts, besides the enrolled, the requests that have checked a place and not used it yet (`Room`).
- `InvoiceLedgerProofs`. `LedgerTypeCorrect`; `StatusIsRight` and `PaymentsImplementPromise` for payments alone. A
  request between `Lock` and `Commit` holds the lock, so at most one is there; the second `update_status` happens
  under the lock, so what it reads as paid is what is paid at the commit; the total never changes without edits or
  discounts; hence the status written is the right one, and the commit is a `Pay` step of the promise.
  The rest of the module is about `DocumentNumbering`, for any base above two and any padding. That its recursive function
  `Digits` exists and satisfies its equation is `DigitsOf`, by induction from all smaller numbers (`FromSmaller`: a least
  counterexample among the intervals from 0, which are well-founded). From the equation follow that more digits mean a larger number and that
  numbers with as many digits are in the order of their texts (`DigitsGrow`), that a number with more digits than the one
  before it begins with one and the one before with the greatest digit (`DigitsRoll`), and that different numbers have
  different texts (`TextsDiffer`). `TextLess` is a strict total order, so among finitely many documents one is last
  (`LastTextExists`), which the `CHOOSE` of `LastDocument` needs. `NextIsNew` and `NumberingStops` follow; the latter from the
  invariant `Stopped`: while the last number that fits is in use, no text follows its own. With base two and one digit
  this is false ("10" follows "1"), hence the assumption on `Base`.
- `WebClientProofs`, `QueryCache`. `CacheTypeCorrect`, `OwnWritesAlwaysShown` and `NothingSentTwice`, for any pages, hooks
  and tables that satisfy `TablesOK`, `GapsKnown` and `GuardsKnown`: every answer a save changes is marked, put or removed by its
  hook, or is a listed gap, and a control waits for every request of its save, or is a listed exception. The invariant
  `Current` says that data older than the user's last confirmed write is stale, and is being fetched wherever it is mounted;
  `GInv` adds to `NoSecondSend` that a save a page still waits for was started on that page (`OfPage`). TLC evaluates the
  assumptions for the tables of the client in `web_screens`, so the theorems hold of these screens for any number
  of saves under way and of writes.
- `WebClientProofs`, `FormEntry`. `FormTypeCorrect` and `SuccessMeansSaved`, for any forms that satisfy `ListedForms`: the
  optional fields a PATCH leaves out when empty and the forms something else writes into are listed. The invariant says
  that the input holds what was typed unless the form is one of those (`InputIsTyped`), and that a request under way is
  made of what the input holds (`SentIsInput`); what the server then stores is what was typed, or one of the losses
  `KnownLoss` admits for that field and that value: a default where the input was empty, not any other value.
- `WebClientProofs`, `Listing`. `ListTypeCorrect`.

Only model-checked: the liveness properties (`DueIsInvoiced`, `EveryRunEnds`, `FullCycleIsFollowed`,
`EveryRequestAnswered`, `ConfirmedWritesArrive`), since temporal proofs under fairness and `ENABLED` are out of the prover's
reach; and `NoSilentRefusal`, `NoDeadEnd` and `EveryRowReachable`, which are facts about the tables of the forms and lists, true of
each by what its page shows and not by anything the steps preserve.

## 6. Not modelled

- Monthly invoice schedules: the same guard by month that `RentBilling` models, and the generation `SessionBilling` has; two
  overlapping runs may bill a month twice, since nothing keeps them apart.
- Quotas, media storage, subscriptions: a check before a write, a sum that is recomputed, a unique constraint. Their races
  are listed as hazards; the code promises nothing more than the next recomputation or expiry.
- Tenant provisioning, onboarding, users and invitations: one-way steps over calls of the database, or a token used once.
- Notifications: queued messages that nothing but a log remembers; e-mail and messaging providers are external.
- Bills and inventory: CRUD, and a stock adjustment of one statement under a lock.
- Students, guardians, masters, audit, analytics, reports, portal, overview, academy, communication, bulk import, finance:
  CRUD, aggregation and calls of an accounting service.
- Middleware, permissions, tenancy, PDF rendering, schema migration: plumbing without state of its own, or I/O.
- Web client: routing, navigation and the session, the operator's screens, overview, reports, media, onboarding and finance
  screens. The academy's own screens are modelled by their queries, saves, forms and lists; layout, wording, charts,
  exports and the arithmetic of totals are not.
- Left out inside modelled parts: prices, discounts of single students and tax (`SessionBilling`); edits and deletions of
  receipts and items (`InvoiceLedger`); deleted or corrected coach attendance and edits of a schedule (`StaffPay`);
  amounts, overlapping runs of one schedule and a PATCH of an invoice's `issued_date` (`RentBilling`); edits of the capacity (`Enrollment`).
