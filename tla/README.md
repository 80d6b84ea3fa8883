# booklab: specifications

booklab lets the public book one resource (a room, a lab) by the hour, keeps
the customer's card through Stripe, and charges the card after the session.
It is a Go server over one Postgres database, a scheduler goroutine in the same
process, and a React front end.  This directory holds TLA+ specifications of
it, TLC configurations that check them on small instances, and proofs that
TLAPS checks for all instances.

## The system

| component | code | state it keeps | operations |
|---|---|---|---|
| Charging | `internal/api/admin.go` (charge handler), `internal/scheduler/scheduler.go` (auto-charge), `internal/db/queries.go` (claim, revert, record), `internal/stripe` | `bookings.status`, `completed_at`, `charge_idempotency_key`, `charge_attempts`, `stripe_payment_intent_id`, `amount_cents`; what Stripe remembers of each idempotency key | claim, look the card up, charge, revert, record, PATCH of the status |
| Reservations | `internal/api/public.go` (prepare, create, cancel), admin PATCH | rows of `bookings` with the exclusion constraint and the unique setup intent | prepare, create (and replay), cancel, move, reactivate |
| Lifecycle | `internal/scheduler/scheduler.go`, cancel in `public.go`, `CancelPage.tsx`, `ViewBookingPage.tsx` | the clock, `status`, `reminder_sent`, `completed_at`, the card at Stripe | completion of expired bookings, reminders, auto-charge, the customer's cancel, the admin's buttons, crash and restart |
| Availability | `public.go`, `closures.go` | none: functions of settings, closures, bookings | slot grid, available days, validation of a create |
| Rate limits | `public.go`, `admin.go`, `queries.go` | attempt rows | record, count, delete, prune |
| Admin users, sessions | `admin.go`, `middleware.go`, `queries.go`; `AdminLoginPage`, `AdminLayout`, `AdminUsers` | `admin_users`, `admin_sessions`, `login_attempts`; what each browser shows | login, logout, list, create, delete, change password |
| Booking page | `web/src/pages/BookingPage.tsx`, `components/TimeSlotPicker.tsx`, `components/DatePicker.tsx` | what one visitor's page has loaded and chosen | load, answer the gate, choose a day, select, submit |
| Bookings page of the admin | `web/src/pages/AdminBookings.tsx` | filters, list, dialogs, calls under way | filter, mark done, charge, cancel |
| Settings | `web/src/pages/AdminSettings.tsx`, `admin.go` | one row; the form and what it was read from | edit, discard, save |
| Closures | `web/src/pages/AdminClosures.tsx`, `closures.go` | `closures`; the list, its forms, calls under way | list, create, update, delete |

The handlers and the scheduler never talk to one another: they meet in the
rows of the database, one SQL statement at a time, and in Stripe.  There are no
transactions around several statements of a handler, so everything a handler
read may have changed when it writes, and a handler that dies leaves what it
wrote.  What makes the system hard is in that list: two charge paths that may
claim one booking, a payment whose outcome nobody knows, retries that must
repeat a request instead of making a new one, validation that is separate from
the insert it guards, and an admin who may change any row at any time.

For each component the correctness that matters:

* Charging: no customer pays twice; a taken payment is recorded or can be found
  again; what a row says was really paid; every charge ends.
* Reservations: no two live bookings overlap; a retried create yields one
  booking and one answer; a booking obeyed the rules when it was made.
* Lifecycle: a finished booking is completed, then charged; at most one reminder.
* Availability: the grid offers exactly what a create accepts.
* Rate limits: never more than the limit admitted, a rejected try costs nothing.
* Admins: there is always one left; a changed password ends other sessions.
* Booking page: what is shown and selected belongs to the day and the answer
  that are chosen; what is sent is what was shown; what the customer is told is so.
* Admin pages: a list is the list that was asked for; the amount on a button is
  the amount taken; nothing typed is lost without a mark, or stored elsewhere.

## Charging

`Charging.tla` models one *worker* per execution of `handleAdminChargeBooking`
or of an iteration of `autoChargeCompleted`'s loop.  The two are the same
sequence of statements with different claims, so they share every step after
the claim.

| code | model |
|---|---|
| claiming UPDATE (`ClaimBookingForCharge`, `ClaimBookingForAutoCharge`) | the actions of the same names: `Eligible` is the shared WHERE, `Claimed` the SET with its COALESCE |
| settings unreadable, amount out of range | `RejectAmount` |
| `paymentmethod.Get` fails | `FailLookup` |
| `paymentintent.New` | `RejectPayment`, or `Submit`, then `Execute` by Stripe, `Receive` of its answer, or `GiveUp` |
| `IsDefiniteFailure`, `RevertBookingFromChargingToCompleted` | the definitions of the same names, `Reverted` for the SET |
| `UpdateBookingCharged` | the action of that name, `Charged` for its WHERE and SET |
| a statement that fails, a cancelled request, a crash | `Stop` |
| `CompleteExpiredBookings`, admin PATCH | the actions of those names |

Stripe is external and modelled from what the callers rely on.  `sent` holds
every PaymentIntent request that Stripe did not reject as invalid (a rejected one
is never executed); `Execute` may take one at any later time, after its sender gave
up or died, and runs it once per idempotency key;
`ledger` remembers the first result under each key for good and `Answer`
replays it, or refuses a request with other parameters.  Stripe drops keys
some time after 24 hours; the model keeps them for ever, so what is shown holds
for retries made before that.

A key `charge-booking-<id>-<n>` is the number n, an amount is a number, and
`completed_at` has three values: unset, recent, older than the delay.  The
auto-charge query takes the booking completed first; the model takes any due
booking, which allows more.

`PaymentOnce.tla` is what charging promises: one payment taken per booking, and
recorded as it was taken, once.  `Charging` implements it with Stripe's ledger
as `taken` and the row as `recorded`.

### What the runs show

| run | instance | checks |
|---|---|---|
| `charging` | 1 booking, 2 admins, the scheduler, 2 amounts, workers may stop anywhere, PATCH to any status between charges | `TypeOK`, `SoleOwner`, `NoDoubleCharge`, `PaymentKeepsItsKey`, `RecordedPaymentIsReal`, `KeysAreFresh`, `ImplementsPaymentOnce` |
| `charging_liveness` | 2 bookings, 1 admin, the scheduler, no stop, no PATCH | `CompletedBookingsSettle`, `ChargingEnds` |
| `charging_retry_rejected` | as above with `RetryRejected` | `NoDoubleCharge` is violated |
| `charging_patch_in_flight` | 2 admins, `PatchesInFlight` | `NoDoubleCharge` is violated |
| `charging_parameters` | 2 amounts | `RetriesSendSameParameters` is violated |

Bounds.  Rows are independent but for the workers they share, so one booking
shows the races and two show the loop moving from one to the next.  Three
workers are one more than any of the races needs.  `ManualAttempts` = 3 lets a
row fail three times by hand, one more than the scheduler's own limit of two.
Two amounts are enough to tell a changed amount from an unchanged one.

Fairness.  The scheduler's ticker returns every 30 minutes for ever, so its
claim is weakly fair; a started handler runs on, so a worker's steps are weakly
fair (including that a request gets an answer or a timeout: `GiveUp`); time
passes.  Admins need not click and Stripe need not execute.

Two constants name what the safety properties need from outside the code:

* `RetryRejected`: Stripe may reject a *retry* of a request whose outcome is
  unknown, at its card lookup (`FailLookup`) or at its PaymentIntent while the
  earlier one is not executed yet (`RejectPayment`).  `IsDefiniteFailure` looks
  at the error alone, so either clears the key of the earlier request, which may
  have been or may yet be executed, and the booking can be charged twice.  A
  rejection of the first attempt under a key is always possible in the model.
* `PatchesInFlight`: the admin's PATCH may hit a row that is being charged.
  The code does not forbid it; the booking list's buttons do not offer it for a
  row shown as 'charging', but a page that is not refreshed does.

### What is proved

`ChargingProofs.tla`, for all values of the constants that satisfy
`ChargingAssumption`:

* unconditionally, `TypeCorrect` and `RecordsAreReal`;
* when neither of the two constants above is set: `ChargedOnce`,
  `PaymentsKeepTheirKeys`, `OneOwner`, `IssuedKeysAreFresh` and
  `ChargingRefinesPaymentOnce`.

`NoDoubleCharge` is not inductive: a key may be reused only because every
request that might still be executed went out under the key the row holds.
`ChargeInv` says that.  Its parts: a worker owns its row (`OwnsRow`,
`Exclusive`); Stripe executed at most one request per key (`OneExecution`) and
only requests that were sent (`SentFirst`); executions that took a payment are
under the row's key or recorded (`PaymentKeepsItsKey`); a request that is not
yet executed is under the row's present key or the row is paid
(`LiveRequestsHoldKey`); a worker that carries a refusal knows that nothing was
or will be taken under its key (`RefusalsAreFinal`); keys are at most the number
of attempts, one more while held (`KeysBelowAttempts`, `KeyBelowAttempts`), so
the next key is new.  The proof has one lemma per group of actions and one step
per conjunct an action can disturb.

Liveness stays with TLC: the prover does not handle ENABLED and fairness.

## Reservations

`Reservations.tla` models how an hour is booked and given back.  A *request* is
one execution of `handleCreateBooking`; several run at the same time, and each
of its accesses to the database or to Stripe is a step of its own.

| code | model |
|---|---|
| the lookup by setup intent that finds a row | `Replay` |
| the lookup that finds none, then the rate limit | `Admit` |
| `GetPaymentMethodFromSetupIntent` | the action of that name |
| `validateBookingCreate` (its read of the closures) | `ValidateBookingCreate` |
| the INSERT | `CreateBooking`, `FailCreateBooking` |
| the 201 after the INSERT | `AnswerCreated` |
| every early return, a crash, a lost answer | `Abandon` |
| `handlePrepareBooking`, Stripe.js in the browser | `PrepareBooking`, `ConfirmCardSetup` |
| `handleCancelBooking` | `CancelBooking` |
| `handleAdminUpdateBooking` | `UpdateBookingStatus`, `UpdateBookingEndTime` |
| the closure handlers | `ChangeClosure` |
| the scheduler's completion | `CompleteExpiredBookings` |
| `bookings_no_overlap`, `bookings_time_order`, `idx_bookings_setup_intent` | `Fits`, the guard of `UpdateBookingEndTime`, `Unused` |

Abstractions:

* Times are hours on one line; `Hours` and `Wanted` bound them.  A closure is
  the period it covers.  What hours are offered of a day is in `BookingPage`;
  time zones are not modelled.
* A refusal for a reason that leaves no trace (rate limit, notice, opening
  hours, new-customer gate, restriction, a failing database) is `Abandon`,
  possible at every step.
* There is no clock: `CompleteExpiredBookings` may complete any confirmed
  booking.  That allows more than the code, which completes expired ones.
* 'finished' is one status for completed, charging and charged: the constraints
  and the cancel treat the three alike.  The charge itself is `Charging`.
* Prepare is one step: what it checked is checked again by create, and all it
  leaves is a setup intent.  The period that create asks for is independent of
  the one prepare was asked for, as in the code.
* A card is `givenUp` from the moment a cancel commits: a goroutine detaches it
  some time after, or never, and the model lets nothing rely on it meanwhile.
* `answered`, `turnedAway`, `withdrawn` and the field `closed` of a request are
  history: no guard reads them.

`Calendar.tla` is what the reservations promise: bookings reserve, resize and
release periods of one resource, one at a time, and the held periods are
disjoint.  `Reservations` implements it with `held` the period of each live row;
neither requests nor cards nor closures are visible in it.

### What the runs show

| run | instance | checks |
|---|---|---|
| `reservations` | 2 rows, 2 intents, 2 concurrent requests, 1 closure, 3 times, 2 overlapping wishes, PATCH to any status | `TypeOK`, `NoOverlap`, `AnswersAgree`, `DetachedCardsWereWithdrawn`, `ClosedPeriodsStayFree`, `ImplementsCalendar` |
| `reservations_replay` | 1 intent, no closure | `ReplaysAreAnswered` is violated |

Bounds.  All properties relate at most two rows, or a row and one intent, so two
of each show any violation; two requests of one intent are a retry that overtakes
its original, two of different intents are rivals.  Three times give a long and
a short wish that share an hour, and room to move an end onto a neighbour.  A
third row would add nothing but more of the same pairs, which is also what the
proofs confirm.

The finding.  The test contract promises that a replayed setup intent is
answered with its booking; a replay that is looked up while the original is
between its lookup and its INSERT is refused instead, with a 409 for the
customer's own booking.

### What is proved

`ReservationsProofs.tla`, for all sets of rows, intents, requests, closures,
hours and wishes that satisfy `ReservationsAssumption`, without further
conditions: `TypeCorrect`, `NeverDoubleBooked`, `AnswersNameOneBooking`,
`CardsAreLostByWithdrawalOnly`, `InsertsRespectClosures` and
`ReservationsRefineCalendar`.

`NoOverlap` is nearly inductive, since every statement that makes a row live or
moves it meets the constraint.  The others are not, and `BookInv` adds what they
need: a request that is not idle has an intent and a period (`RequestOK`); an
intent has one row at most, whatever its status (`OneRowPerIntent`); what was
answered and what a request has inserted belongs to the intent
(`AnsweredRows`, `CreatedRows`); a card is given up together with a booking of its
intent (`GivenUpCards`), which with `OneRowPerIntent` is *the* booking; and what
was validated stays clear of the closures that have not changed since the
request was admitted (`ValidatedPeriods`).  The proof first sorts the actions by
what they do to the table (`StatementsOnRows`: nothing, an insert, a change of
rows that are there) and to the other variables, then has one lemma per conjunct.

## Lifecycle

`Lifecycle.tla` is what happens to a booking after it is made, by the clock and
by whoever touches it.  One round of the scheduler is the sequence of its
statements, so that everything else may come between any two of them.

| code | model |
|---|---|
| `tick`: `CompleteExpiredBookings` | the action of that name, which begins a round; `CompleteExpiredFails` when the UPDATE or the reading of the settings fails |
| `sendReminders` | `ListBookingsDueReminder`, `SendReminder` or `SendReminderFails` for each, `MarkReminderSent`, `RemindersDone` |
| `autoChargeCompleted` | `ClaimBookingForAutoCharge`, `FinishCharge` or `FailCharge`, `EndRound` |
| a PaymentIntent request whose outcome is unknown | `charge` = "open", `TakePayment` when Stripe executes it after all |
| `pm.Customer.ID` of a card that has no customer | `PanicInCharge`: the scheduler's goroutine takes the process along, a handler's panic is recovered |
| the process | `Crash`, `Restart` |
| `AdminBookings`: mark done, cancel, charge, offered for the row as listed | `LoadBookings`, `MarkDone`, `AdminCancel`, `AdminCharge` |
| `ViewBookingPage`, `CancelPage` | `Open` (which tells the customer of a cancelled row that no charge will be made), `ClickCancel`, `CancelAnswered` (which tells the same), `CancelFails` |
| `handleCancelBooking` and its goroutine | `CancelBooking`, `CancelStrayBooking` for a request whose page was left or gave up, `DetachPaymentMethod` |

Abstractions.  Time is in hours since the bookings were made, and `Pass` moves it
on once the process, if it is up, has run a round in the hour and is done with it:
the ticker fires every half hour and what a round calls times out.  A process that
is down lets any number of hours pass.  (An hour may see several rounds; a round
that takes more than one is not modelled.)  The delay before an
automatic charge may have any length.  A charge succeeds, fails, or leaves a
request that Stripe may execute later; its claim may stay, when the UPDATE that
undoes or records it fails or the handler panics.  How a payment is kept from
being taken twice, and a second claim on the same row, are left to `Charging`.
The PATCHes are those the page's buttons send, "completed" and "cancelled": the
handler accepts any status, and a PATCH back to "confirmed", which no button
sends, is in `Charging` and `Reservations` but not here.  Mails other than
reminders, and the pruning of attempt rows, change nothing that is read.
`told`, `revived`, `crossed`, `mails` and `panicked` are history.  So is `slips`,
but that it bounds the failures.

The run `lifecycle` has one booking that starts at hour 1 and ends at hour 2,
reminders one hour before, four hours and one slip (a crash, or a statement or
mail of a round that fails).  Bookings do not interact in these statements except through the
lists of a round, which treat each of them alike; four hours are enough for a
round before, during and after the session, and one more that a crash delays.  It
checks `TypeOK`, `SessionsAreClosed`, `NoChargeAfterCancel`,
`PanicsAreOfRevivedBookings`, `RemindersAreNotRepeated`, `RemindersAreSent` and
the liveness property `SessionsClose`.  Behaviours end at the last hour, so
deadlock is not checked.

Fairness (`LiveSpec`): the scheduler's steps are weakly fair because the ticker
returns and the loop has no blocking wait but calls that time out; a restart is
weakly fair because the service is supervised; a call to Stripe ends.  Customers
and admins need not act, and time need not pass.

The cancel page says "No charge will be made" (`CancelPage.tsx:75`) to who cancels
there, and to who opens it on a booking that is cancelled already, whoever
cancelled it.  The run `lifecycle_promise` shows that this is not so:
`ToldIsNeverCharged` is violated.  A PATCH asks for no previous status, and that
opens two ways past the promise:

* `revived`: an admin's list that is older than the cancellation marks the booking
  done, and it is charged, although `CONTRACT.md:147` calls a cancellation final;
* `crossed`: an admin's PATCH to "cancelled" meets a booking whose charge is under
  way or taken, or whose last attempt Stripe may still execute; a customer who
  then opens the cancel page is told that no charge will be made.

`NoChargeAfterCancel` shows that there is no third.  `PanicsAreOfRevivedBookings`
has the first as its only exception: nothing else makes the charge dereference a
missing customer.

`SessionsAreClosed` speaks of the rounds that completed bookings.  Until the next
one, a session that is over can still be cancelled and is then never charged; the
code accepts that.

`RemindersAreSent` is about behaviours in which nothing fails, and a panic is a
failure: while the scheduler charges a revived booking whose card has no customer,
the process ends, and it may come back only after the notice of another
customer's session has gone by.  One booking cannot show that (its own panic
comes after its own reminder); two can, and the attempt to prove the property for
any number of them is what brought it up.

### What is proved

`LifecycleProofs.tla`, for all bookings, starts, ends, notices and numbers of
hours and slips that satisfy `LifecycleAssumption`: `TypeCorrect`,
`EndedSessionsAreClosed`, `CancelledAreNotCharged`, `OnlyRevivedPanic`,
`OneReminder` and `NoReminderIsForgotten`, that is every invariant the run checks.

`LifecycleInv` adds to them: a round's list and its booking in hand exist only in
their phases, and a round is over before its hour is (`RoundsOK`); who charges, or
did without learning what came of it, has claimed a booking that was completed
(`ChargersOK`); a cancellation that was told, or whose card is gone, stands until an
admin brings the booking back (`CancellationsOK`); a cancelled booking that may have
been charged was crossed by a PATCH or brought back (`CrossingsOK`, from which
`NoChargeAfterCancel` follows at the moment the customer is told); mails and marks differ by the slips and by the
booking in hand (`MailsOK`, `MarksAreMails`); and, the part that makes
`RemindersAreSent` inductive, a confirmed booking without a mark has its start
still ahead or is listed in the round of that very hour (`RemindersAhead`).
`SessionsClose` is a liveness property and stays with TLC.

## Booking page

`BookingPage.tla` models one visitor's page: its React state, its two effects
with their clean-up, the picker, and `handleSubmit` as the four steps its awaits
cut it into, while the rest of the page stays clickable.

| code | model |
|---|---|
| `getPublicSettings` on mount, reload | `LoadSettings`, `Reload` |
| the gate question | `AnswerGate` |
| the effect on the day and the answer (`getAvailability`) | `FetchSlots`, `SlotsArrive`, `SlotsFail`; its clean-up is the field `live` |
| the effect on the answer (`getAvailableDates`), the landing on a bookable day | `FetchDates`, `DatesArrive`, `DatesFail` |
| `DatePicker` | `ChooseDate` |
| `TimeSlotPicker` | `StartSelection`, `ExtendSelection`, `ClearSelection` |
| `handleSubmit` | `Submit`, `PrepareAnswered`, `ConfirmCardSetup`, `CreateAnswered`, `CreateRefused`, `FailBeforeCreate`, `LoseCreateAnswer` |
| `handleGetAvailability`, `handleGetAvailableDates`, `validateBookingCreate` | `FreeSlots`, `BookableDates`, `Acceptable` |
| `handleCreateBooking`, other customers, closures | `ServeCreate`, `OthersTake` |

A day is a line of half-hour ticks with a set of windows for each answer of the
gate; `OpenTicks` are the hours the windows make up together, as the server
merges adjacent ones, and `Slots` is the hourly grid that starts again where a
window does.  The picker's rule (contiguous slots) and the server's rule (inside
the merged windows) are written separately, so that `SelectionIsOpen` and
`CreatesAskForOfferedHours` compare two computations the code makes apart.  A
third is the strip's: `BookableDates` counts contiguous slots in Go as
`handleGetAvailableDates` does, for the days, and `OfferedDaysCanBeBooked` compares
that with `Acceptable`, the validation of a create.

`submittingRef` and the disabled button are one variable, `submission.pc`.  The ref
is read and set within one click, before anything is awaited, so a second click
meets it whether or not React has rendered the button; a model with both would
have the same behaviours.

Left out: contact fields, the estimated total, the minimum notice and the
restriction (refusals of a create here), texts, and everything that only draws.

The run `booking_page` has two days with eight ticks, windows that differ by
answer and by day (one pair adjoining, one starting on the half hour, one too short
for the minimum stay), stays of exactly two hours, two changes and two
submissions.  Two changes are what an overtaken answer needs, two submissions
what a retry needs.  It checks `TypeOK`, `SelectionIsShown`, `SelectionIsOpen`,
`DateIsBookable`, `CreatesAskForOfferedHours`, `OfferedDaysCanBeBooked`,
`ToldTheTruth`, and the liveness properties `SubmissionsEnd` and `SlotsSettle`.
A page the customer leaves alone stays as it is, so deadlock is not checked.

Fairness (`LiveSpec`): requests are answered or fail, which the browser's own
timeouts see to, and the submission's continuation runs.  The customer need not
click.

`OfferedDaysCanBeBooked` says that a day is offered exactly when it has a period of
the least length that a create would accept, as the comment at `public.go:803-804`
intends.  It needs that the least length is at most the greatest: no handler checks
that the settings have it so, and with settings that have not, days are offered
that nothing can be booked on.

`ToldTheTruth` names what remains: an answer that is lost is told as a failure
although the booking stands, and the second try meets it as a conflict.  (That
is the customer's view of the violated run `reservations_replay`.)

### What is proved

`BookingPageProofs.tla`, for every strip of days, all windows by answer and day,
all least and greatest lengths and any number of changes and submissions that
satisfy `BookingPageAssumption`: `TypeCorrect`, `ShownSelection`, `OpenSelection`,
`BookableDate`, `OfferedHours`, `BookableOffer` and `TruthTold`, again every
invariant the run checks.

`BookingInv` adds: a request that its effect's clean-up has not marked is for the
day and the answer that are chosen, and no slots are shown while one is under way
(`SlotRequestsOK`, `DateRequestsOK`); the submission under way is the one that
waits, asks for open hours and has created nothing before its card is set up
(`SubmissionOK`), and the only one anybody waits for (`WaitingOK`); what was not
submitted was not created (`UnsentOK`, `CreatesOK`).
The arithmetic is in lemmas about slots and lengths: a slot is an hour of open
ticks (`SlotsAreOpen`), and slots that cover a range without a gap are at least
half as many as its half hours (`HoursCover`), from which the picker's count of
slots bounds the length.  `BookableOffer` rests on the converse: whole hours of open
ticks that begin with a slot are slots, one after the other (`HoursOf`, `SlotsGoOn`),
so that the strip's count and the validation agree (`OffersAgree`).  `SubmissionsEnd` and `SlotsSettle` are liveness
properties and stay with TLC.

## Admin console

Three modules model the pages that write, one for each, with the handlers they
call; `AdminConsole.tla` puts them under the layout, where one page is open at a
time and a page that is left forgets everything.  A page's server is drawn anew
whenever the page is opened, as any number of others may have left it.

* `AdminBookings.tla` (`AdminBookings.tsx`): filters whose lists come in any order
  and have no clean-up; buttons offered by the row's listed status; the dialogs, of
  which a late answer closes whichever is open; the amount, computed by the page
  (the length of the row as listed, rounded to hours) and again by the server (the
  length as stored, truncated, multiplied in 32 bits: `IntLimit`).  What else happens
  to a booking is one action, `Others`: any change of its status, a PATCH of its
  end (`length`), another rate.  `overtaken` is history.
* `AdminSettings.tla` (`AdminSettings.tsx`, `handleAdminUpdateSettings`): the form
  over four sections, the comparison that marks a field as unsaved, the save and
  the server's own changes to what it is sent, other admins' saves.  One plain
  field stands for each section's numbers, times and texts, whose formats are
  not checked.
* `AdminClosures.tla` (`AdminClosures.tsx`, `closures.go`): the list, one form for a
  new closure and one in the place of the row it edits, calls whose answers may come
  when another form is open.  `of` is the closure a content was typed for.

The run `admin_console` explores the three together with `TypeOK`,
`ListMatchesFilter`, `ShownAmountIsTaken`, `NoUnsavedChangeIsHidden` and
`EditsStayWithTheirClosure`.  One booking, two lists, one dialog and one call show
an overtaken list and an amount shown before a change of rate or of the booking's
end; lengths of five and six half hours are a session that is no whole number of
hours and one that is; one day to filter by beside "any", and one status, give
filters that the booking matches or not.  A rate of 6 for more than one hour
exceeds the charge limit of 4 and the 32-bit stand-in of 8.  Two edits and one more by
others show a form that was saved while it was edited.  Two closures and two
calls show an answer that closes another's form, and a call that was executed
though its answer was lost, so that the same form is sent again.  Because the pages share no
state but the server's, which is drawn anew, no behaviour needs more than one
page at a time.

`ListMatchesFilter` is about every state, also of an idle page: what is shown matches
the filter that is set, but for rows the page's own calls have changed, unless the
list asked for last is still to come or `overtaken` holds.  That is the case when the
last list failed, or when one for a filter that was left came after it and replaced
it, since `load` has no clean-up (`AdminBookings.tsx:526-537`): then an idle page
shows rows of another filter for good.  `ShownAmountIsTaken` names its four
exceptions: a length that is no whole number of hours, an end that another admin
moved after the row was listed, a rate that changed after the page read it (or that
it had not read yet), and an amount above the limit.  `NoUnsavedChangeIsHidden` is
about what is in the form: text typed during a save is replaced by the answer, and
form and server then agree.

### What is proved

`AdminConsoleProofs.tla`, for all values of the constants that satisfy
`AdminConsoleAssumption` (the assumptions of the three pages): `TypeCorrect`,
`ListedMatch`, `ShownIsTaken`, `NothingHidden` and `OwnEdits`, every property the
run checks.  `AdminBookingsProofs.tla` and `AdminSettingsProofs.tla` hold the lemmas
about their pages; each has an invariant `PageInv` that the page opens with
(`PageInit`), that its steps keep (`PageStep`) and that the others' steps keep
(`PageAside`).

* Bookings page: a list under way that was asked for last is for the filter that is
  set, and an answer has one row for each booking that matches its own filter
  (`ListsOK`); a button shows what was typed, or the hours of the row it was opened
  on at the rate the page has seen (`CallsOK`).  `AmountsAgree` is the arithmetic: for an even number of
  half hours rounding and truncation agree, and a product that may be charged is
  not wrapped.
* Settings page: a save under way is of a form, and what is done was acceptable
  (`PutOK`); what was last read is what is stored unless others have saved since
  (`ReadOK`).  That each editor leaves a form of its type, lists without repetition
  included, takes most of the module.
* Closures page (in `AdminConsoleProofs.tla`): what the page shows, has read and has
  been answered is a closure's own (`RowsOK`); the form of a panel is of the closure
  the panel is for (`PanelOK`); a call carries the form of its own closure, with
  times only if it needs them (`RequestsOK`).

The composition `IInv` is the three invariants together.  A step of one page leaves
the variables of the others alone and does not open or close them (`BookingsMoves`,
`SettingsMoves`, `ClosuresMoves`).

## Access

`Access.tla` models `admin_users`, `admin_sessions` and `login_attempts` at the
granularity of database calls, with several browsers whose requests run at the
same time and whose answers arrive at whatever page is open by then.

| code | model |
|---|---|
| `handleAdminLogin` | `RecordLoginAttempt`, `RefuseLogin` or `AllowLogin`, `CheckPassword`, `MarkLoginAttemptSucceeded`, `CreateAdminSession` |
| `requireAdmin` | `RequireAdmin` |
| `handleAdminListUsers`, `handleAdminCreateUser` | `ListAdminUsers`, `CreateAdminUser` |
| `DeleteAdminUser`, a transaction | `LockUsers` (`SELECT ... FOR UPDATE`), `CountUsers`, `DeleteAdminUser` |
| `handleAdminChangePassword` | `CheckCurrentPassword`, `UpdateAdminUserPassword`, `DeleteAdminSessionsByUsername`, `CreateAdminSession` |
| `handleAdminLogout`, `expires_at` | `DeleteAdminSession`, `SessionExpires` |
| an invalid input, a failing statement, a broken connection | `Fail` |
| `AdminLoginPage`, `AdminLayout`, `AdminUsers` | `SubmitLogin`, `Visit`, `LayoutProbed`, `OpenUsers`, `SignOut`, `SubmitCreate`, `Delete`, `SubmitChange`, and the actions named `...Answered`, `Refused` |

Abstractions.  A password is its number in the order of their setting, so that
'the old password' has a meaning.  The two counts of the login limit are one
step: a row recorded between them only makes the code count more.  All attempts
fall in one window, which is when the limit binds most.  A page that was left and
opened again may take an answer meant for its predecessor, which React would
drop: that allows more.  A logout clears the cookie even when its DELETE fails, as
the handler drops that error.  `overtaken`, `version`, `checked` and `unfinished` are
history; no guard reads them.  `unfinished` holds, for each user, the passwords set
by a change that has not deleted the sessions.

The run `access` has two users, two browsers, each at an address of its own, a
limit of one failed attempt and two requests under way: two deletes of each other, a
login against a password change, two logins against the limit, by username from two
addresses or by address at two usernames.  Requests are bounded,
so deadlock is not checked.  It checks `TypeOK`, `AnAdminRemains`,
`OldPasswordIsOut` and `GuessesAreBounded`.

`OldPasswordIsOut` compares each session with its user's password as it is now, and
names the two kinds of session that rest on an older one:

* one whose password was checked before the user's sessions were deleted, by a
  change or together with the user, and which was made after that (`overtaken`);
* one older than a change that has run its UPDATE and not its DELETE
  (`unfinished`): the two are separate statements under the request's context
  (`admin.go:268-279`), so that the second may fail or never run.  The comment at
  `admin.go:273-275` says that an old session cannot outlive the change; it can, until
  the next change that does delete.

### What is proved

`AccessProofs.tla`, for all names, browsers, limits and numbers of requests that
satisfy `AccessAssumption`: `TypeCorrect`, `TheLastAdminStays`,
`OldPasswordsAreOut` and `GuessesStayRare`.  So the bound of two requests, which
the run needs, limits none of them.

None of the four is inductive.  `AccessInv` adds: who has counted the users holds
their rows, and what was counted is still so (`LocksOK`, from which the last admin
is safe, because only the holder deletes); a request between its check and its session holds
what a session may rest on: the password as it is, or one that a deletion or an
unfinished change excuses (`VersionsOK`, from which `OldPasswordIsOut` follows when
the session is made); a recorded attempt
stands until its request is refused, failed and unchecked until it is allowed
(`AttemptsOK`, from which the limit follows by exchanging one member of a set for
another); a request that has made its session makes no other
(`SessionsOfOldRequests`); and one password number is left for each request that
may still set one (`NumbersLeft`).  The proof first sorts the steps by who
writes which table (`Writers`) and by what they do to a request (`PagesSend`,
`AnswersEnd`, `ServerSteps`), then has one lemma per conjunct.

## The four larger runs

| run | distinct states | checks |
|---|---|---|
| `lifecycle` | about 979,000 | five invariants and a liveness property, one booking |
| `booking_page` | about 269,000 | six invariants and two liveness properties |
| `admin_console` | about 630,000 | three invariants and an action property |
| `access` | about 553,000 | three invariants |

(besides the type invariant of each).

## Proved, and only model-checked

Proved for all constants: every invariant and action property of the passing runs
and both refinements (`ImplementsPaymentOnce`, `ImplementsCalendar`).

| module | about | theorems |
|---|---|---|
| `ChargingProofs` | `Charging`, `PaymentOnce` | 7 |
| `ReservationsProofs` | `Reservations`, `Calendar` | 6 |
| `LifecycleProofs` | `Lifecycle` | 6 |
| `BookingPageProofs` | `BookingPage` | 7 |
| `AdminConsoleProofs`, with the lemmas of `AdminBookingsProofs` and `AdminSettingsProofs` | `AdminConsole` and its three pages | 5 |
| `AccessProofs` | `Access` | 4 |

What the theorems assume is the named assumption of each module and nothing else,
except in `Charging`, where four theorems and the refinement need that neither
`RetryRejected` nor `PatchesInFlight` is set.

Only model-checked, on the instances above: the liveness properties
(`CompletedBookingsSettle`, `ChargingEnds`, `SessionsClose`, `SubmissionsEnd`,
`SlotsSettle`), since the prover has no rule for fairness and ENABLED; and the five
violations, which are single behaviours.

## Not modelled, and why

* Rate limits of prepare and create: the same record-count-delete sequence that
  `Access` has for logins; elsewhere they are refusals that leave no trace.
* Time zones, and days that a booking crosses; the minimum notice and its notice
  text: calendar arithmetic on real dates, beyond small instances.
* The restriction's count of a customer's past bookings: one of the refusals a
  create may meet.
* Text fields, rich text, the terms and privacy pages, the calendar view and how
  rows are drawn: content and layout.
* Email templates and SMTP: formatting and delivery; no state of the system
  depends on them, and failures are only logged.
* Insights, dashboard and exports: read-only aggregates in SQL and pages that
  show them.
* Routing, CORS, CSRF, client addresses, serving the web app: stateless per
  request.
* Configuration and migrations: they run once, before anything is served.
* Tests, fakes, build and deployment files: not part of the running system.
