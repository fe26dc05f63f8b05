# almeaago: TLA+ models and proofs

almeaago is a learning platform: Go services under `internal/`, PostgreSQL for everything that lasts, Redis for hints to browsers, a React client under `apps/web`, and two processes, `cmd/api` and `cmd/worker`. This directory models its concurrent core and the pages of the client that change something in TLA+, checks the models with TLC on small instances, and proves the properties that matter most with TLAPS for every instance.

Source paths are relative to the repository; `PROJECT.json` maps each definition to its lines.

## 1. The system

**The server.** Every component has the same layers: an HTTP transport, an application service that checks rights and input, and a PostgreSQL repository. Nearly all decisions about shared state are made in the repository, inside a transaction, and what keeps two of them apart is one of four things: a row lock, an advisory lock, a unique key, or a `WHERE` clause on a revision or a status. The isolation level is READ COMMITTED throughout. Several copies of the API and of the worker may run; they share nothing but the database and Redis.

**The client.** A page is a React component. Its handlers run to their next `await`; then any other handler, any effect and any other answer may come first. Two pages talk through the server, the tab's session storage, the browser's local storage, or an event on `window`. What keeps a late answer out is an `AbortController`, a counter, a captured scope, a flag that disables a button, or nothing.

| Component (`internal/`) | State it keeps | Operations that change it | What is hard | What makes it correct |
|---|---|---|---|---|
| commerce: checkout, discounts, reviews | payment requests, discount codes and their redemptions, entitlements | CreateCheckout, UpdateDiscount, ReviewPaymentRequest, RevokeEntitlement | a checkout is several transactions and a provider call; retries with one key; limits that change under open reservations | one row per key; a redemption is reserved, used or returned as its request is; a limit is never exceeded; access follows payment |
| commerce: provider sessions and webhooks | session columns of a request, the ledger of events | Initiate, AttachProviderSession, FailProviderSession, ApplyProviderEvent | lost answers, events repeated, late, in any order, with other amounts | money captured is never lost, each event counts once, a request settles once |
| commerce: reversals, revenue, payouts | reversals, revenue entries | RecordFullReversal, AllocateRevenue, MarkPayoutPaid | a payout while the money goes back | a reversed entry is final, entry and request agree |
| commerce: access codes and school seats | codes, code redemptions, seats, packages | RedeemAccessCode, AssignSchoolSeat, RevokeSchoolSeat, UpdateProduct | count-then-insert; which row is locked decides who is kept apart | capacity and number of uses hold, seats and the access they give go together |
| communication: delivery | the outbox `notification_deliveries` | CreateCampaign, ClaimPending, CompleteAttempt | several workers, crashes between sending and recording, leases and deadlines | no two runs work on a row, a verdict rests on what was answered, every message settles |
| communication: weekly report | campaigns per parent and week, `lastWeeklyKey` of each worker | the worker's Run | several workers, paging over a set that changes, errors stepped over | at most one report a week, and done means everybody got one |
| realtime: classroom | session, batches, questions, responses, participants, report | Create to Finalize, Join, UpsertAnswer, Reveal, SetAttendance, competition | statement order inside a transaction, lock order, the end of a session during answers | an answer only while its question is on show, the report is complete, every call ends |
| assessment: attempts | attempts, answers, results | Start, SaveAnswer, Submit, SingleShotSubmit, SetPublication | two ways to start and to submit, retries with keys, time running out, the handover to learning after the commit | attempt limit, final means final, a key names one attempt, result and evidence agree with the answers |
| assessment: sessions, placements, assignments, reviews | public sessions, visibility | create a session, open and close it; start and submit a public session | no key on creation, no check of transitions; retries without an account | a session on the screen is the server's; for public attempts as for attempts |
| learning: evidence and review cards | mastery evidence, progress, review cards | ApplyAssessmentEvidence, ApplyReviewAnswer, SetSaved | two writers per student, late handovers, a card read long before the lock | progress is a function of the evidence, each due card counts once |
| learning: study plans, lesson progress, goals, interventions | plans, goals, interventions, lesson progress | create, update under a revision, archive, delete | two tabs, writes that end after the page moved on | revisions grow, an archived plan stays archived, progress does not shrink |
| identity: login and sessions | users, sessions, one-time codes and tokens | login, start and verify a code, rotate a CSRF token, sign out | the client keeps user, token and cookie in three places | who is shown is who the server knows; a code is tried a bounded number of times |
| identity: administration | users and roles | create, update, bulk status, delete | two administrators removing each other | an active administrator remains |
| organizations | schools, classes, memberships, contracts | add, move, suspend students, create assessments | moves between classes; a form sent again after a lost answer | one class at a time, scope respected, one assessment per form |
| questionbank | questions and versions, import batches | workflow, presentation, new versions, check, write and roll back a batch | what was judged is not what is written; partial imports | a version is immutable, a batch is imported as it was checked |
| content, taxonomy | courses, lessons, topics, library, the site's homepage; paths, subjects, skills | revision-guarded edits, links, archiving, free enrolment | edits on what was read earlier | no lost update, nothing erased against a list that was not there |
| media | assets by content hash | Presign, Complete | two uploads of one file, expiry | one live asset per hash |
| ai | provider settings, interactions, cache | QuestionAssist, settings | check-then-act on quotas | the budget bounds the calls |
| reporting, parents, discovery, operations | only the audit log | append | none | none |
| platform, `cmd/*`, SQL migrations | configuration | none | none | assumed |

| Part of the client (`apps/web/src/features/`) | What it keeps | What is hard | What makes it correct |
|---|---|---|---|
| assessment: the attempt page | answers, position, timer, the start key in session storage | a timer that fires during a save or after a failed submission | what is scored is what is shown; a timed attempt keeps its timer |
| learning: course player | lesson, position, closed questions, progress | writes that end after another lesson was selected | done means passed; the progress shown is the lesson's |
| learning: space, study plan, review library, goals, practice | a selection in the address and what was read for it | selection changes while lists are read and things are written | what is shown belongs to what is selected |
| auth and header: signing in | user, token, dialog | sign-in, sign-out and the first `me()` overlap | the user shown is the session's |
| taxonomy, content, question bank | lists by filter, editors with a revision, forms | several loads at once, one busy flag, rows older than the last write | rows of the view, no blind overwrite, a form sends what was meant |
| organizations: director, administrator, supervisor | a school and what was read of it | changes of school under way, pages that are appended | rows of this school and this visit |
| presentation: homepage, announcements, fonts | one document for the whole site, a list in local storage | a save after a failed read; several tabs | the site is never replaced by defaults; editors and site agree |
| accounts, assessment sessions | tables with commands | tables read again under commands | the table is the server's |

How they interact:

* **commerce** is asked by content and assessment what a user may open; payments, codes and seats all end in `commerce_entitlements`, and seats count what payments also write.
* **assessment** commits a result and *afterwards* hands its outcome to **learning** by a call in the same process; if that call fails only the client's retry can repeat it. Behind a page of the client, `ReviewPractice` has both writers that meet at learning.
* **realtime** reads the class list from **organizations** outside its own transaction, and freezes a report under the session's row lock. Its event stream over Redis is a hint after the commit; no state depends on it.
* **cmd/worker** ticks **communication**: it claims due messages, and once a week pages through the parents of **identity** and creates campaigns.
* **operations** receives an audit row from nearly every command, mostly in the command's own transaction; no decision of a modelled command reads one, and a failure to write it is one more rollback.
* **the client** never shares memory with the server: every request may be lost on the way there, or its answer on the way back, and be answered in any order.

The list of hazards with their lines is in `PROJECT.json`, the ones that could be put to a property first. Section 6 names those that were met and have none.

## 2. Modules

A module has the state of its component as variables (one per table or column group, named in a comment), one action per operation, and its properties at the end. An MC module adds what TLC needs, and puts together the modules whose actions share a run. A definition marked `FAULTY` stands just before the one it is a wrong variant of, and is used by no action: it is the bug that its property is shown to catch.

| Module | Models | Proofs |
|---|---|---|
| `PaymentLedger` | what the purchase pipeline promises about one request | |
| `CommerceCheckout` | checkout, discounts, sessions, events, reviews, reversals, revenue, payouts; implements `PaymentLedger` | `CommerceCheckoutProofs` |
| `DiscountQuote` | the arithmetic of a discount on Go's `int64` | `CommerceCheckoutProofs` |
| `AccessSeats` | access codes and school seats of a capped package | `CommerceCheckoutProofs` |
| `NotificationDelivery` | the outbox and its workers | `CommunicationProofs` |
| `WeeklyParentReport` | the weekly report of the worker | `CommunicationProofs` |
| `Classroom` | one smart classroom session | `ClassroomProofs` |
| `AssessmentAttempt` | a learner's attempts at one assessment | `AssessmentAttemptProofs` |
| `BrowserTab` | what all pages have in common: `screen`, `calls`, `server` | |
| `AttemptPage`, `CoursePlayer`, `LearningSpace`, `StudyPlan`, `ReviewLibrary`, `MasteryGoals`, `ReviewPractice`, `SignIn` | the pages of a learner, with the handlers of `internal/learning`, `internal/assessment` and `internal/identity` that they call; together in `MCLearnerPages` | `LearnerPageProofs`, `LearnerTypeProofs` |
| `TaxonomyAdmin`, `ContentAdmin`, `ContentEditors`, `QuestionBankAdmin`, `QuestionImport`, `QuestionForm`, `SchoolDirector`, `SchoolsAdmin`, `SupervisorRoster`, `HomepageEditor`, `AnnouncementAds`, `PlatformFonts`, `AssessmentSessions` | the pages of staff and the parts of the site they edit, with the handlers behind them; together in `MCStaffPages` | `StaffPageProofs`, `StaffTypeProofs` |
| `UsersAdmin` | accounts: the page, and the commands of `internal/identity` from two administrators; in `MCStaffPages` too | `StaffPageProofs`, `StaffTypeProofs` |

**What is one step, on the server.** A transaction that locks, by its first locking statement, the one row everything it decides on hangs from, is one action. A transaction that reads or locks in several statements is several actions, with the locks it holds derived from the state of the call (`SessionFree`, `QuestionFree`, `AttemptLocked`, `CodeLocked`, ...). A call that consists of several transactions is several actions, and the process may die, the client may leave or the connection may fail between any two (`Abandon`, `Abort`, `Rollback`). A call that is refused without having written or locked anything is not a step: it changes nothing.

**What is one step, in the client.** A handler up to its first `await`, together with the effects that its state changes trigger (React renders and runs them before the next event); what follows an `await`, when its promise is settled; the server's dealing with a request; or something another person or tab does meanwhile. `screen` is the state, the refs and the mutable closures of the mounted page; an element of `calls` is a request under way with what its closure captured, and its stage; `server` is as much of the server as the page shows. An aborted request may still reach the server; its answer does not come back. The tab shows one page, so a composition runs one page's `Next` at a time (`Mounted`): pages share no memory, only what their modules put into `server`. A page that reads and then writes has the commands of another person or tab among its actions, bounded.

**CommerceCheckout.** `payment`, `redemption`, `discount`, `entitlement`, `revenue`, `reversal` and `ledger` are the tables of `internal/commerce`; `checkout` is the local state of the calls in flight; `charge` and `sent` are external, the payment provider and its events. A checkout call goes through `Lookup`, `InsertNew` / `InsertLost` / `InsertRefused`, `InitiateOK` / `InitiateError`, then `AttachProviderSession` or `FailProviderSession`. The webhook is `Deliver`, one action per branch of `ApplyProviderEvent`. Every write of a payment row is guarded by `SessionShape`, the CHECK of the database, because a write it refuses rolls the whole transaction back: an event that arrives when its write is not allowed stays undelivered. The provider can be asked twice for a charge (it is idempotent by request) and may answer with an error although it opened one.

**AccessSeats.** A redemption locks the code and package rows; an assignment locks only the school's entitlement and reads the capacity from a package row that others may write. `written` is the set of capacities the row has had: a statement that waited may have seen any of them, and the promise can only be about the largest.

**NotificationDelivery.** Time is counted in one-minute ticks that may fall between any two steps. A lease is a `next_attempt_at` in the future, so nothing records who holds a row, and nothing stops a slow run from completing a row another one has claimed: that this cannot happen is `ExclusiveClaim`, and it rests on `RunLimit < Lease`. A call of `Send` has three outcomes: it fails, in `sender.go` itself (no recipient, no provider configured, a request that cannot be built) or at the provider; the provider takes the message but its answer is lost; or it takes it and says so. `accepted` remembers the messages a provider took and `failures` counts the calls of `Send` that returned a failure, for whatever reason: a row may be given up without a provider ever having heard of it.

**WeeklyParentReport.** A worker counts the active parents, then pages by id and creates one campaign per parent under a key made of week and parent, while accounts are activated and suspended.

**Classroom.** `UpsertAnswer`, `PublishQuestion` and `FinalizeSession` take the session row first and then others; `RevealQuestion` takes the question first and the session afterwards. Both orders are modelled statement by statement, with the deadlock they can run into and PostgreSQL's detector (`BreakDeadlock`). The first insert of a participant row waits for the session row through its foreign key, after the attendance status was computed. Commands that lock only the session row are one step.

**AssessmentAttempt.** `Start`, `SaveAnswer`, `Submit` and `SingleShotSubmit` are each a step that locks and checks and a step that writes; the handover to learning is a step of its own after the commit, which may fail. Answers are an option (right or wrong) or a text; next to the answer stands the stored correctness, which is null until it is scored. Keys of starts and of submissions are disjoint sets: the client draws a UUID for each command.

**The learner's pages.** `AttemptPage` has the three stages of every writing request (token, sent, answered), the interval of the timer with the closure it was created with, and `actionRef`/`scopeRef`, which tell visits apart only by scope. `CoursePlayer` has the timers that close questions, the position saved on leaving, and progress per course and lesson. `LearningSpace` reads its selection from the address, which links, bookmarks and the history set to anything that was once a page (`SpaceAddresses`); one render may run its effects twice, because the tab of a subject that hides it gives way to another (`Renders`); a topic that the space does not list is read on its own; a start key is kept per placement. `StudyPlan` has `UpdateStudyPlan` and `DeleteStudyPlan` under a revision and another tab that archives. `ReviewLibrary` and `MasteryGoals` are the two halves of one page; the first shows a page of the cards at a time. `ReviewPractice` has both writers of evidence as two steps under the learner's advisory lock; which of the due cards are given, and in which order, is left open. `SignIn` has a cookie per browser, an owner per session and a token per session that is replaced when asked for; a session may be revoked by a sign-out whose answer is lost, and Google leaves the page for good.

**The staff's pages.** `TaxonomyAdmin` loads a tree and lists beside it, with one `run()` for every command. `ContentAdmin` has search with a pause, filters and pages, and its two-request preparation of a course; `ContentEditors` the four editors and the creation panel, each with a load, a catalogue and a revision. `QuestionBankAdmin` has the list, the question under review and the service's judgement before its transaction; `QuestionImport` the dry run, the digest of a batch and the write; `QuestionForm` options, skills and the image. `SchoolDirector`, `SchoolsAdmin` and `SupervisorRoster` tell visits of schools apart in three different ways. `HomepageEditor` and `PlatformFonts` read, edit and send one document, and have the readers elsewhere in the tab; `AnnouncementAds` is a list in local storage with the events of other tabs and the overlay that shows it. In `AnnouncementAds` the storage may refuse whatever it is given (it is full, or blocked), which the code ignores: the administrator's page then goes on with a list (`edited`, `unsaved`) that the overlay does not have, and a dismissal lasts no longer than the overlay stays closed. `ContentEditors!Look` is what the effects of an editor depend on: they run only when it changes, so a lesson whose taxonomy came first is not compared with it when its row arrives. `UsersAdmin` has commands that are admitted in one step and carried out in another, under `lockAdminInvariant()`, or carried out after the page gave them up; its list is asked for, read by the server and shown in three steps.

## 3. Runs

| Run | Instance | Shows |
|---|---|---|
| `checkout` | Two situations in one run (constraint `Situations`): one request and two calls with its key, hosted page or manual review, all events, a code with limit 0 or 1; or two requests under manual review with a trainer's share that compete for that code | whichever call inserts, fails or attaches: one session, and money captured has its session recorded (`CapturedHasSession`); `RedemptionFollowsPayment`, `AccessFollowsPayment`, `DiscountCounters`, `DiscountBudget`, `ReversedRevenueIsFinal`, types |
| `checkout_events` | 1 request, 1 call, webhook and hosted page, trainer's share, all 10 events | `GrantHasEvidence`, `RevenueFollowsPayment`; under fairness `CapturedSettles`, `RefundEndsAccess`; the refinement `ImplementsLedger` |
| `delivery` | 2 rows, 2 workers, batch 2, lease 5, run limit 1, 4 failures | `ExclusiveClaim`, `VerdictHasEvidence`, `VerdictIsFinal`, types; under fairness `EveryMessageSettles` |
| `report_week` | 4 parents (2 with something to report), pages of 2, at most 3 recipients, 2 workers, 1 activation | `ReportsAddUp`: one report a week at most, and done means all who were there all the time, unless an account was activated meanwhile |
| `seats` | 2 codes of 2 uses, 1 school, 3 users, 2 calls, capacity 1 or lifted | `WithinCapacity`, `RowsAgree` |
| `classroom` | 1 student who may leave the class, 2 batches of one question, 2 calls | `AnswersStop`, `RecordIsConsistent` (nothing on show after its end, the report complete and adding up), `OverrideStands` |
| `classroom_locks` | 1 student, 1 batch of 2 questions, both modes, 2 calls | `CallsEnd`: no request waits for ever in spite of the two lock orders |
| `attempts` | 1 student, 1 version of 2 attempts, 1 question, 1 key of each kind and none, 2 calls | `AttemptsAgree` (the attempt limit, one attempt per key, the result of the stored answers), `SubmitMeansRecorded`, `FinalStays` |
| `learner_pages` | all eight pages: 2 assessments, one timed; 2 courses with a text and a video of two questions; 2 subjects, 2 paths, 2 links into the learning space, one of them to a topic its space does not list; 2 review cards on pages of one; 2 accounts, 2 token requests; 1 to 3 writes of each kind | `AttemptsAreSafe`, `ProgressIsEarned`, `SelectionIsShown`, `SessionIsOne`, `OneGoalPerHorizon`, `ArchivedStays`, types |
| `staff_pages` | all fourteen pages: 2 subjects, 2 schools, 2 searches, 2 filters, 2 pages, two versions of a document, 1 or 2 commands of this and of another person | `RowsAreOfTheView`, `EditsAreKept`, `SentAsMeant`, `TablesAreTrue`, `AnAdminRemains`, types |
| `question_review` | one question, 2 commands of the page, 1 of another administrator | `DraftNeverJumps` is violated (section 6) |
| `attempt_evidence` | as small as shows it | `EvidenceMatchesResult` is violated (section 6) |

The properties of the two compositions are conjunctions, one conjunct per page, each defined and explained in the page's own module; `MCLearnerPages` and `MCStaffPages` say what they have in common. Since one page is mounted at a time, the states of a composition are the sum and not the product of those of its pages.

Where the code leaves a race open, the property of a page says so and excludes exactly that case, with a field of `screen` that remembers it (`overtaken`, `crossed`, `lost`, `hurried`, ...); section 6 has the list. A comment at the start of the page's actions says which step sets the field.

`MCCommerceCheckout` also evaluates `ExactShare` and `QuoteAddsUp` (the assumption `QuoteChecked`) for base 3 and a width of 12, where the plain product of a price and a percentage overflows and the split product of the code does not.

**Why these bounds are enough to be interesting.** The races in this code are between two parties for one row, or between two requests of one page: two calls with one key, two workers for one message, two redemptions for the last place, an answer against a reveal, an old list against a new one, a save against a change of selection. Every such pair is in some run. What needs three steps of history (pay, refund, late event; save, time out, submit; claim, crash, claim again; leave, return, late answer) has them, since no server run bounds the number of steps, and the pages bound only visits, writes and commands, by constants whose comment says so. The other bounds are the constants and the bound operators `FailureCap` (a history counter), `Activations`, `Others`, `Marks` and `Movers`. `attempts` has one student and one version, so keys shared between students and a change of version during an attempt are out of its reach; the proofs have both. `Limits` and `Capacities` hold the values at which comparisons turn. Only `checkout` and `checkout_events` (a request that is settled and has no more events has rightly no step), the two compositions and `question_review` (a page may rest, and its bounds run out) turn off deadlock checking; symmetry is used in safety runs only, over sets the module treats alike.

**Fairness.** It is assumed in three runs only, and in none of the client: a learner need not go on.

* `CommerceCheckout!FairSpec`: weak fairness of each `Deliver(e)`. The gateway repeats an event until it gets a 2xx, and `ApplyProviderEvent` answers that only after the commit. Nothing is assumed of checkouts, operators or customers.
* `NotificationDelivery!FairSpec`: the clock ticks; the worker's ticker claims and sends whenever it can; and a row is not cut off between `Send` and `CompleteAttempt` every single time. The last is strong fairness, justified by the provider timeout of 15 seconds inside a run of 45: the first message of a run is recorded unless the process or the database fails, and those do not fail for ever.
* `Classroom!FairSpec`: a request that is repeatedly able to go on does (PostgreSQL queues those who wait for a row, which is strong fairness for each), and the deadlock detector runs. Nobody has to start a request.

## 4. Proofs

All proofs hold for every value of the constants that satisfies the assumptions stated in the module, and cite only the library's facts about finite sets and functions and, in `CommunicationProofs`, that the natural numbers are well ordered. An inductive invariant was put to TLC on the run's instance before it was proved.

**`CommerceCheckoutProofs`** (from `CheckoutAssumption`, `ReferenceAssumption`, `QuoteAssumption`, and `SeatAssumption` for any number of codes, schools, users and requests in flight)

* `TypeCorrect`: `Spec => []TypeOK`, one lemma per group of actions, one per shared transaction helper (`SettleType`, `CollectType`, `DeclineType`, `ReversalType`).
* `RedemptionCorrect`, `AccessCorrect`, `RevenueCorrect`: from the inductive invariant `MoneyInv`, which says of each request that its five rows agree. The three properties are not inductive one by one: a reversal revokes an entitlement by its source, so that the access ends needs that the entitlement was written with a payment source; that a payment's insert of a grant and of a revenue entry is not silently dropped needs that a pending request has neither.
* `ReversedRevenueStays`: a step property, from `MoneyInv` (a second reversal cannot find a paid request).
* `BudgetCorrect`: inductive with the types; each reservation, settlement and change of limit keeps reserved + redeemed within the limit.
* `CountersCorrect`: the counters of a code are the cardinalities of the sets of its reserved and redeemed redemptions; by `MoneyInv` a settlement finds its redemption reserved, so that one set loses what the other may gain, and the finite-set theorems count. The request set is finite by assumption.
* `CapturedCorrect`: from an invariant on sessions (`SessionInv`), which also says that a charge is only taken for a request that exists: a customer pays on a page whose session is recorded, and a call that failed may close the request only while the request still has none, so it cannot undo the session of another call.
* `EvidenceCorrect`: access that the webhook gave rests on exactly one applied event, with the exact amount, and access that an operator gave on none (`EvidenceInv`, with `MoneyInv`).
* `LedgerCorrect`: `Spec => ImplementsLedger`. Each action opens, pays, declines, reverses, withdraws or stutters; `OneMove` turns "one request changed in one of these ways" into a step of `PaymentLedger`.
* `ShareCorrect`, `QuoteCorrect` (`DiscountQuote`, whose assumption `Base * Base < Width` is true of 10000 and 2^63): with price = Base * q + r, the two products the code computes are below the width (`ProductBound`), so nothing wraps (`NoWrap`), and adding the two quotients gives the share rounded down (`Division`).
* `PlacesAreLimited` and `RowsStayInStep` (`AccessSeats`), from `SeatsInv`: the properties themselves, that the locks exclude (`LocksExclude`: one redemption of the package at a time, one assignment per school), and that what a request in flight has counted is still free (`RedeemingHasPlace`, `AssigningHasSeat`). Without the last two a step that inserts would prove nothing: the count was made in an earlier step.

**`CommunicationProofs`** (from `DeliveryAssumption` and `ReportAssumption`)

* `DeliveryTypeCorrect`, `ClaimsAreExclusive`, `VerdictsHaveEvidence`, `VerdictsAreFinal`, from `DeliveryInv`. The heart is `HeldIsLeased`: the time left of a run is less than the wait left of every row it holds, so a held row is never due; this is where `RunLimit < Lease` is used. `RetriesFollowStatus` and `FailuresAreCounted` tie recorded failures to calls of `Send` that failed, and every row recorded as sent to a message that was taken.
* `ReportsCorrect`: `ReportSpec => []ReportsAddUp`, for any number of parents, workers, recipients per page and activations, from `ReportInv`. That a worker which reached the end has reported to everybody is a statement about all pages at once; what carries it from page to page is `StillBefore` (as long as no error was stepped over, every parent who is owed a report is in the page at hand or behind it in the order of ids) and `CountSuffices` (the number counted at the start, less what was read, is at least the number of those still ahead, so the count does not end the paging early, unless an account was activated meanwhile), for the parents who were active all the time (`steady \subseteq active`). What a page contains is a fact about least elements, the only place where well-foundedness is needed. `NothingEarly` says that nobody runs or is done before the hour.

**`AssessmentAttemptProofs`** (from `AttemptAssumption`)

* `AttemptsCorrect`, `SubmitRecords`, `FinalCorrect`, from `AttemptInv`: attempts are numbered without gaps, so a count is the last number; each row has the shape of its status; keys are distinct; each request in flight still finds what it found when it took its locks (`CallOK`), because two requests that could disturb each other are kept apart by them (`Apart`); and what was answered is still true (`ToldOK`). The assumption that starts and submissions never share a key is used, and the code rests on it: both kinds of key are UUIDs of the client.

**`ClassroomProofs`** (from `ClassroomAssumption`, for any number of students, batches, questions and requests)

* `RecordCorrect`, `OverrideCorrect`, `AnswersCorrect`, from `ClassroomInv`. The first two are not inductive alone: what a request read in an earlier statement must still be true when it writes. `CallsFit` says so, in two parts: which pairs of requests the row locks keep apart (`Alone`), and what each has seen and still holds (`StillTrue`); `RecordIsConsistent` after the end needs `ReportEnds` (the report and the end are one) and `QuestionHasBatch`; the report counts only answers of those who joined (`AnswersAreOfJoined`); `OverrideStands` needs that a mark by hand is where the override flag is (`MarksOverride`).

**`LearnerPageProofs`** (from `AttemptPageAssumption`, `CoursePlayerAssumption`, `LearningSpaceAssumption`, `ReviewLibraryAssumption`, `PracticeAssumption`, `SignInAssumption`, `MasteryGoalsAssumption`, `StudyPlanAssumption`)

One theorem per page about its own specification, and then the composition `MCLearnerPages!Spec`: `AttemptsSafe`, `ProgressEarned`, `SelectionShown`, `SessionAndGoalsHold`, `ArchivedHolds`. The composition has the invariant `LearnerInv`, the disjunction of the pages' invariants: each of them says which page is mounted, so a step of one page meets the invariant of that page (`LearnerStep`), and what the other pages promise is about nothing (`ElsewhereNothing`).

* `SessionCorrect`, from `SignInInv`: the property excludes three races by a flag, so the invariant has to say that the flag is set whenever one of them is possible: while the first question is open nothing but a sign-in changes the user, and it is about the cookie that is still there (`QuestionOpen`), a token that will arrive is the one the server has unless requests crossed (`TokenWaits`), and nobody has the cookie of a session before the answer that brings it (`SessionsFresh`).
* `GoalsCorrect`, from `GoalInv`: the server has no such rule, the page alone keeps it, so the list on the screen must have every active goal of its scope, or the answer that adds it be under way (`ListKnows`), with one write and one read under way at most (`OneWrite`, `OneRead`).
* `ArchivedForGood`, `PlanShownIsOfView`, from `PlanInv`: reads belong to the view that is selected (`ReadsOfView`), what the page knows of a plan is true as long as the stamp is the plan's (`PlansKnown`), and what is updated was active when the form had it (`UpdatesOfActive`): a stamp that still fits then means that it still is.
* `AttemptPageCorrect`, from `AttemptPageInv`. A call of an earlier visit may end the action of this one, and the numbers that tell calls apart must not run out: each visit has at most one call more than it ended, a pigeonhole by cardinality (`CallsPerVisit`). Only on a page that was never left in the middle of a call (`torn`) is there one call at a time, of the attempt on the screen (`OneAttemptCall`), and what is shown without a draft what the server has (`AnswersAreStored`, `AttemptsWait`). `TimerOf` says when the interval must run; `TimerEffect` is proved to establish it whatever changed.
* `PlayerCorrect`, from `PlayerInv`: one write of progress is under way and what it brings back is still the server's row (`OneLessonWrite`); one answer is awaited, and what it read is still the row unless somebody hurried (`OneLessonRead`); so what is shown is stored, or a write is about to bring it (`ShownIsStored`). `RightsArePassed` carries the questions that must be passed through timers, calls and rows.
* `SpaceCorrect`, from `SpaceInv`: after every render, which may run the effects twice, the rows and the calls that will bring them are of the place asked for last (`RowsOfScope`), and a topic found outside the list belongs to its subject (`DeepIsOf`); a start carries the key of its place, which the place keeps until an attempt opened, so that all the server has beyond what was opened is that key (`OneStart`, `StartsKeyed`); and away from the page nothing is asked but by starts that went on (`AwayIsQuiet`).
* `ReviewCorrect`, from `ReviewInv`: the list of the view is asked for once and for as long as the page waits (`OneReviewRead`), and every list that the page has or is about to have is the server's, but for stars whose answer is under way and answers that were lost (`ListsAreTrue`).
* `PracticeCorrect`, from `PracticeInv`: one writer holds the lock and has counted the evidence there is; what another read before the lock is worth something as long as the version is the card's (`OneWriter`). What is recorded is of a version that is over (`RecordedIsOver`), so an answer that comes again finds it; the list names no card twice (`OneList`), the answer the page waits for is that to the card on the screen (`OneIsHeard`), and each card it has passed was recorded (`CountedIsRecorded`), from which the bound on what it counts follows by an injection of cards into submissions. That the progress is a count is the cardinality of a set growing by one (`CountedWithOne`).

**`LearnerTypeProofs`** (from the same assumptions)

* `LearnerTypesCorrect`: `MCLearnerPages!Spec => []LearnerPagesTypeOK`, from `LearnerTypes`, which is `LearnerInv` with more said of two pages; the other six are typed by their invariants. The review library (`ReviewTyped`): a page of the list exists, row by row, because each number of rows smaller than all of them has a row that so many are before (`EachHasItsPlace`, on the places of the rows in the table), and a star that is set or removed leaves one row per card, so that there are no more rows than cards (`TableTyped`, an injection). The practice (`PracticeTyped`): the version of a card is one more than the writes it took, and each of them is the page's only answer to this card (`AnswersListed`, `RecordsListed`: the list names it once), a handover, each of which is recorded once (`HandedOver`), or something begun elsewhere; answers of another tab that are still under way are counted with those that came (`Pending`, `VersionsCounted`). A version that is bounded bounds those in the list, in the submissions and in the evidence, which are all of the past; and the list is no longer than there are cards (`ListIsShort`, the pigeonhole principle).

**`StaffPageProofs`** (from the assumptions of the fourteen pages of `MCStaffPages`)

Four theorems about the composition `MCStaffPages!Spec`, `TablesTrue`, `RowsShownOfView`, `EditsKept` and `WhatIsSentIsMeant`, each for one of the run's four conjunctions of page properties, and `AdminsRemain` about `UsersAdmin` by itself. Each page has an inductive invariant, a lemma that it holds at the start, one that the page's steps keep it, and one that it gives the page's properties; the composition is put together as that of the learner's pages (`StaffInv`, `MountedHolds`, `StaffStep`). What each invariant adds to the property:

* `AdminsRemain`: `UsersAdminSpec => []AnAdminRemains`, for every number of commands that two administrators give and any interleaving of admission and execution. `UsersAdmin` has two accounts; the theorem is about the order of steps.
* `TableIsTrue` (`UsersAdminInv`): `since` remembers, of each list that the server has read, on its way or on the screen, which commands were carried out after it was read, and 0 for those of which the page hears nothing. The one list under way is of the view on the screen and misses nothing but what is in its `since` (`UserReadsOfView`), the same is true of the rows (`RowsKnown`), and a command in a `since` is one whose answer is still to come, which will read the list again. A command whose answer was lost moves to 0 (`NotTold`), whether it was carried out before or is carried out later.
* `SessionsAreTrue` (`SessionsInv`): one write at a time (`OneSessionWrite`); as long as none is stored unheard, a list that was read, on the screen or on its way, is the server's (`ListsAreServers`).
* `TopicsAreTheSubjects`, `SettledShowsWrites` (`TaxonomyInv`): topics on their way are of the subject selected and no older than the last save announced (`TopicsHold`); a load has read at least what was announced, or another load, write or error is there to make up for it (`LoadsHold`); and the server never has more versions of the lists than writes begun, by counting those under way (`WritesCounted`). The proof needed the assumption that no subject is called like a part of the tree.
* `RowsMatchView` (`ContentInv`), `RowsOfFilter` (`BankInv`), `RosterOfScope` (`RosterInv`): a list under way is of the view that is selected, because a change of the view drops the one before; for the content it is also as new as the last write heard of. `UnhurriedRows` (`SchoolsInv`): the page drops nothing, so what is open, loaded and under way is of one school, unless somebody hurried.
* `RowsOfThisVisit`, `AssignmentsStayRead`, `OneAssessmentPerForm` (`DirectorInv`): a live refresh asks for what the search asks for (`OfVisit`); reads of the teachers that are still the newest began after the last assignment announced, and assignments stored but unheard are counted, so that a number the page announces was reached on the server (`StaffHolds`); a form has one key, and the papers of the server have the key of the form they came from (`FormsHold`).
* `LinksKept`, `NoBlindOverwrite` (`EditorInv`): the skills on a form are the owed ones, all of them until a taxonomy was compared with them, which for a lesson may never happen (`SkillsHold`); who holds the last revision has the last text (`RowHolds`), and a call carries what was on the form (`EditorCallHolds`).
* `HomepageIsNeverLost` (`HomepageInv`), `AppliedIsEdited` (`FontsInv`): a draft that may be saved was filled from the server; the bootstrap's answer counts only as long as nothing was announced.
* `AdsStayTrue` (`AdsInv`): the overlay's list is the stored one unless a storage event is on its way, the administrator's is the overlay's unless a change of it was not stored (`AdsLists`), and what was closed for good and kept is in the storage; that the ad on the screen is one of the visible ones rests on `EachHasItsPlace`: in a finite set of numbers, each number of elements smaller than the set's has a member that so many are below.
* `ImportIsChecked` (`ImportInv`): a dry run that passed is in the server's record, and unless somebody hurried it is of the batch on the screen (`OfferHolds`); what the server keeps of a batch, written or not, is in that record (`StoredHolds`).
* `CreatedAsMeant` (`FormInv`): the answer sent as correct is a position in the compacted list of options, counted from those filled in before it; `ListedPlace` proves that this position holds the option that was ticked, by a bijection between the elements up to it and the numbers up to the count.

**`StaffTypeProofs`** (from the same assumptions)

* `StaffTypesCorrect`: `MCStaffPages!Spec => []StaffPagesTypeOK`, from `StaffTypes`: of every page, when it is mounted, the invariant above together with the parts of its types that the properties do not need (`HomepageTyped`, `TaxonomyTyped`, ...). Most of it follows action by action, but a number that is raised by an answer, and bounded only where the request began, needs a count that connects the two: font settings are announced at most once for each change here and each version of the server, less those still to be announced (`FontsTyped`); assignments stored, and on their way, are among those that were made (`OrdersCounted`); the writes of the taxonomy and of the content that were stored, with those that may still be, are no more than were begun, or twice as many where a command is two requests (`EachCounted`, `ContentWritesCounted`); and the director's form is mounted again, when its panel comes back, only where the bound leaves room (`Room`). `CountsOf` says how many elements a finite set has after one came, left or was replaced.

**Only model-checked.** Liveness (`CapturedSettles`, `RefundEndsAccess`, `EveryMessageSettles`, `CallsEnd`), which this prover does not reach, nor `ENABLED`, nor induction over data. Every invariant that a passing run checks is stated by a theorem. No module uses a RECURSIVE operator.

## 5. What is abstracted

Amounts of money outside `DiscountQuote` (an event is exact or not); the content of messages, questions, lessons and reports; access rights, which are checked before the modelled transactions start; audit rows; on the server alone, revisions an operator presents (a stale one is refused and nothing happens; with the pages in front of it a revision is part of the model); signature checks (an event that arrives was signed); scores beyond counts; clocks, which appear as "late", "expired" or as ticks; in the client the layout, the wording, the contents of a row beyond whose it is and how new, and buttons that lead to another page. PostgreSQL is assumed to do what READ COMMITTED, row locks, unique keys and CHECK constraints promise, and React what its documentation promises of effects and batching.

## 6. Where code and documentation disagree, and what was met on the way

Two runs show a disagreement:

* `attempt_evidence`: `SingleShotSubmit` counts answers saved earlier in the result but leaves their `is_correct` null, so learning records them as mistakes.
* `question_review`: `SetWorkflow` judges the transition before its transaction, and the transaction compares a version that a change of workflow does not raise. An approval that was admitted while the question was pending is carried out after another administrator returned it to draft, although `docs/CURRENT_STATE.md:342` says a draft cannot jump to approved.

Three properties are stated and not run, because they are false and repeat what a document says in passing: `AssessmentAttempt!SubmitNeverBounces` (`SaveAnswer` accepts a text for any question, and a text makes every `Submit` fail on the CHECK `assessment_answers_score_shape`); `Classroom!EarlyIsPresent` (a student who joined before the first question and joins again after it becomes late, although the certification says present); `AnnouncementAds!PreviewShowsIt` (the preview shows the ad of the highest priority, whichever is edited).

**Server.** Not in a property: a message may be handed to the provider more often than `MaxFailures` times when runs die between sending and recording (the audit document speaks of four attempts); a parent may be missed when an account is activated during the run, because the number counted at its start limits the pages; `SingleShotSubmit` answers with success although the handover to learning failed, which is why `SubmitMeansRecorded` is about `Submit` alone. Not modelled: a late handover overwrites a newer schedule of a card (`learning/repository/postgres/repository.go:122`); an insert of an event and the update of its payment row can deadlock, as can a package update and a redemption (`checkout_repository.go:711`, `repository.go:187` of commerce), which PostgreSQL ends by aborting one of the two; the event id of the Tap gateway is the charge's whatever its status (`tap/client.go:291`); two classes may draw one PIN, and a reveal may come late (`realtime/repository/postgres/session.go:91`, `:470`); nothing retries the weekly report after its hour (`weekly_parent_reporter.go:55`); a public attempt without a right answer sums to null (`session_repository.go:568`); the status of a session may be set to any other (`:200`).

**Client.** These are the races that a property excludes, or that no property of the page forbids:

| Page | Left open by the code |
|---|---|
| attempt | a page left and entered again has the same scope, so an answer of the earlier visit ends the action of this one; after a failed save and a failed submission by the timer the interval is not set again; the ribbon ignores `requireAnswerBeforeNext` |
| course player | a lesson left and selected again before a write ended shows older progress (:396, :441); the final save of the cleanup is never made (:512-524); `complete()` before the player is ready saves position 0 (:471-481); a timer of a wrong answer acts on the lesson selected since (:269-288) |
| learning space | the start key does not end with the attempt (:233-242); when the answer to the last permitted start is lost, a reload finds `canStart` false, so that attempt cannot be reached from here; the taxonomy's failure leaves an empty page (:137) |
| study plan | saving after a failed read creates a second plan (:154), as does a lost answer and a retry; what is typed during a save is overwritten (:103, :155) |
| review library, goals | a failed load keeps the old rows, and creating a goal clears the error (:145, :190); goals may be created before their list has come (:184), or be added to another path's list (:211); unsaving the only card of a later page leaves an empty page that says nothing was saved |
| review practice | a failed load says that nothing is due; a card that was changed elsewhere leaves the page stuck on it, since only a result leads on |
| signing in | the first `me()` answered after a sign-in shows nobody (`AuthProvider.tsx:42-54`); two token requests that cross keep the older one (:67-74); a dialog that was closed still signs in; after Google the callback leads to `/login`, which opens the dialog, and nothing closes it (`authAdapter.ts:41` says that it is not reopened); the answer to a second sign-out that ends late undoes a sign-in made since |
| taxonomy, content | one busy flag for all commands; success is announced after a failed archive; an editor whose load failed creates a new row; a lesson whose taxonomy came before its row sends links to skills that the taxonomy no longer has (`LessonEditorPanel.tsx:204`); a course's answer overwrites what was typed; the second request of a preparation may fail; a save that ends late closes another editor |
| question bank | a dry run answered after the batch was edited enables the write, which the server's digest still refuses; an upload that ends after a creation goes to the next form |
| schools | student rows carry no version; a late answer of another school shows its rows (`SchoolsAdminPage.tsx:84`, :145-193); going back with two pages open appends the second again |
| homepage, ads, fonts | the whole document is sent, so another administrator's save is lost; deleting the last ad brings the defaults back; an ad that the storage refused (`useAnnouncementAds.ts:75`, pictures are kept in it) is on the administrator's page, without a message, and nowhere else; what a visitor closed and the storage did not keep comes back; fonts whose load failed may be saved as defaults |
| accounts, sessions | a command whose answer was lost, or another administrator's, leaves the table as it was read, with a button that sends the opposite of what it shows (`UsersAdminPage.tsx:249`); creating an account with an existing email overwrites its role and password; the form sends the whole row; a creation of a session has no key (`AssessmentSessionPanel.tsx:87`); the total and the rows of a list of accounts are two statements of the server (`reporting/repository/postgres/admin_user_directory.go:30`, `:38`), read together in the model, so the number of pages never disagrees with the rows there |

## 7. Plan

Done, in this order: purchase pipeline, delivery, weekly report, seats, classroom, attempts; their proofs; the learner's pages; the staff's pages with learning, identity administration, question bank and content behind them; accounts and their proof; the proofs of the weekly report, of the classroom, of the learner's pages and of the staff's pages, one by one and together.

Not modelled, with the reasons in `PROJECT.json`: reporting, parents, discovery and operations only read or append; platform and processes have no decisions of their own; the client's pages that only read, and those of commerce, realtime and communication, whose commands are modelled on the server. Left for another time:

1. The attempt limit of one-time codes, reset and verification tokens (`internal/identity`); public attempts under their advisory lock; moves between classes; free enrolment beside the purchase pipeline.
2. `media` (one live asset per hash) and the quotas of `ai`.
