------------------------------ MODULE Charging ------------------------------
(***************************************************************************)
(* How a finished booking is charged: the charge columns of the bookings   *)
(* table, the admin's charge requests (handleAdminChargeBooking) and the   *)
(* scheduler's auto-charge loop (autoChargeCompleted) working on the same  *)
(* rows, the admin's status PATCH, and Stripe as the two callers see it.   *)
(*                                                                         *)
(* A worker is one execution of either charge path.  Its steps are the     *)
(* statements that another worker can come between: the claiming UPDATE,   *)
(* the two Stripe calls, Stripe's execution of the request, the answer,    *)
(* and the UPDATE that records or reverts.  It may stop between any two.   *)
(***************************************************************************)
EXTENDS Naturals

CONSTANTS
    Bookings,
    Admins,        \* admin charge requests that may run at the same time
    Schedulers,    \* scheduler goroutines (one per running server)
    Amounts,       \* the valid charge amounts, standing for 1..20000 cents
    CardOnFile,    \* bookings whose row has a payment method
    NoBooking,
    ManualAttempts,       \* bound: no manual claim of a row with this many failures
    WorkersMayStop,       \* crashes, lost writes, cancelled requests happen
    PatchTargets,         \* the statuses the admin's PATCH asks for
    PatchesInFlight,      \* the PATCH also hits rows a live worker is charging
    RetryRejected         \* Stripe may reject a retry, at the card lookup or the payment

Workers == Admins \cup Schedulers

Status == {"confirmed", "cancelled", "completed", "charging", "charged"}

ASSUME ChargingAssumption ==
    /\ Amounts \subseteq Nat \ {0}
    /\ CardOnFile \subseteq Bookings
    /\ NoBooking \notin Bookings
    /\ ManualAttempts \in Nat
    /\ PatchTargets \subseteq Status
    /\ WorkersMayStop \in BOOLEAN
    /\ PatchesInFlight \in BOOLEAN
    /\ RetryRejected \in BOOLEAN

VARIABLES
    row,     \* the charge columns of each booking
    worker,  \* the local state of each worker
    sent,    \* every PaymentIntent request Stripe did not reject; it may get to one late
    ledger   \* Stripe's memory: the first execution under each idempotency key

vars == <<row, worker, sent, ledger>>

(***************************************************************************)
(* Rows.  0 stands for NULL.  The key 'charge-booking-<id>-<n>' is the     *)
(* number n, as the row gives the id; the PaymentIntent Stripe makes under *)
(* a key is named by the key.  completedAt keeps of completed_at what the  *)
(* auto-charge query asks of it: unset, set, older than the charge delay.  *)
(***************************************************************************)
Row == [status : Status, completedAt : {"unset", "recent", "due"},
        key : Nat, pi : Nat, amount : Nat, attempts : Nat]

NewRow == [status |-> "confirmed", completedAt |-> "unset",
           key |-> 0, pi |-> 0, amount |-> 0, attempts |-> 0]

Failures == {"card_error", "invalid_request", "idempotency_error", "no_answer"}

Worker == [pc : {"idle", "claimed", "waiting", "paid", "failed"},
           booking : Bookings \cup {NoBooking}, key : Nat,
           amount : Amounts \cup {0}, err : Failures \cup {"none"}]

Idle == [pc |-> "idle", booking |-> NoBooking, key |-> 0, amount |-> 0, err |-> "none"]

Request == [booking : Bookings, key : Nat, amount : Amounts]

\* An executed request: the payment was taken, or the card was declined.
Execution == [booking : Bookings, key : Nat, amount : Amounts, taken : BOOLEAN]

Executed(b, k) == {e \in ledger : e.booking = b /\ e.key = k}

InFlight(b) == {w \in Workers : worker[w].booking = b}

Init ==
    /\ row = [b \in Bookings |-> NewRow]
    /\ worker = [w \in Workers |-> Idle]
    /\ sent = {}
    /\ ledger = {}

(***************************************************************************)
(* The charge statements of internal/db/queries.go, as updates of a row.   *)
(***************************************************************************)

\* Mutated form: the claim does not ask for status = 'completed'.
EligibleWhileCharging(b) ==
    /\ row[b].status \in {"completed", "charging"}
    /\ b \in CardOnFile
    /\ row[b].pi = 0
    /\ row[b].amount = 0

\* The WHERE clause both claims share.
Eligible(b) ==
    /\ row[b].status = "completed"
    /\ b \in CardOnFile
    /\ row[b].pi = 0
    /\ row[b].amount = 0

\* Mutated form: no COALESCE, every claim issues a new key.
ClaimedUnderNewKey(r) == [r EXCEPT !.status = "charging", !.key = r.attempts + 1]

\* The SET clause both claims share: a key left by an attempt of unknown outcome is kept.
Claimed(r) ==
    [r EXCEPT !.status = "charging", !.key = IF @ = 0 THEN r.attempts + 1 ELSE @]

\* Mutated form: the key is cleared whatever the caller passed.
RevertedClearingKey(r, clearKey) ==
    IF r.status # "charging" THEN r
    ELSE [r EXCEPT !.status = "completed", !.attempts = @ + 1, !.key = 0]

\* Mutated form: the attempt is not counted.
RevertedUncounted(r, clearKey) ==
    IF r.status # "charging" THEN r
    ELSE [r EXCEPT !.status = "completed", !.key = IF clearKey THEN 0 ELSE @]

\* RevertBookingFromChargingToCompleted; it changes nothing in any other status.
Reverted(r, clearKey) ==
    IF r.status # "charging" THEN r
    ELSE [r EXCEPT !.status = "completed", !.attempts = @ + 1,
                   !.key = IF clearKey THEN 0 ELSE @]

\* Mutated form: amount_cents is not written.
ChargedWithoutAmount(r, k, amount) ==
    IF r.status # "charging" THEN r
    ELSE [r EXCEPT !.status = "charged", !.pi = k]

\* UpdateBookingCharged; it changes nothing in any other status.
Charged(r, k, amount) ==
    IF r.status # "charging" THEN r
    ELSE [r EXCEPT !.status = "charged", !.pi = k, !.amount = amount]

(***************************************************************************)
(* The two charge paths.                                                   *)
(***************************************************************************)
Claim(w, b) ==
    /\ worker[w] = Idle
    /\ Eligible(b)
    /\ row' = [row EXCEPT ![b] = Claimed(@)]
    /\ worker' = [worker EXCEPT ![w] =
                    [Idle EXCEPT !.pc = "claimed", !.booking = b, !.key = Claimed(row[b]).key]]
    /\ UNCHANGED <<sent, ledger>>

\* handleAdminChargeBooking claims the booking it was asked for, however often it failed.
ClaimBookingForCharge(w, b) ==
    /\ row[b].attempts < ManualAttempts
    /\ Claim(w, b)

\* autoChargeCompleted claims a booking that is due and has failed less than twice.  The
\* query takes the one completed first; here any due one, so the order is left open.
ClaimBookingForAutoCharge(w, b) ==
    /\ row[b].completedAt = "due"
    /\ row[b].attempts < 2
    /\ Claim(w, b)

\* Mutated form: an early return that forgets to undo the claim.
RejectAmountKeepingClaim(w) ==
    /\ worker[w].pc = "claimed"
    /\ worker' = [worker EXCEPT ![w] = Idle]
    /\ UNCHANGED <<row, sent, ledger>>

\* The settings cannot be read or the amount is out of range: the claim is undone, the
\* attempt counted and the key kept.
RejectAmount(w) ==
    /\ worker[w].pc = "claimed"
    /\ row' = [row EXCEPT ![worker[w].booking] = Reverted(@, FALSE)]
    /\ worker' = [worker EXCEPT ![w] = Idle]
    /\ UNCHANGED <<sent, ledger>>

\* ChargePaymentMethod looks the card up first; Stripe rejects the lookup or does not
\* answer.  No PaymentIntent request is sent, yet the caller sees one kind of error.
FailLookup(w) ==
    /\ worker[w].pc = "claimed"
    /\ \E err \in {"invalid_request", "no_answer"} :
        /\ \/ err = "no_answer"
           \/ RetryRejected
           \/ \A q \in sent : q.booking = worker[w].booking => q.key # worker[w].key
        /\ worker' = [worker EXCEPT ![w].pc = "failed", ![w].err = err]
    /\ UNCHANGED <<row, sent, ledger>>

\* The PaymentIntent request goes out and Stripe rejects it as invalid, before anything is
\* executed under its key.  A rejected request is never executed, so it is not among those
\* sent; if the rejection is lost, the attempt is one that GiveUp ends.
RejectPayment(w) ==
    /\ worker[w].pc = "claimed"
    /\ Executed(worker[w].booking, worker[w].key) = {}
    /\ \/ RetryRejected
       \/ \A q \in sent : q.booking = worker[w].booking => q.key # worker[w].key
    /\ worker' = [worker EXCEPT ![w].pc = "failed", ![w].err = "invalid_request"]
    /\ UNCHANGED <<row, sent, ledger>>

\* The card is found and the PaymentIntent request goes out, under the claimed key.
\* The amount depends on the settings, the end time and the admin's choice at the time.
Submit(w) ==
    /\ worker[w].pc = "claimed"
    /\ \E a \in Amounts :
        /\ sent' = sent \cup {[booking |-> worker[w].booking, key |-> worker[w].key,
                               amount |-> a]}
        /\ worker' = [worker EXCEPT ![w].pc = "waiting", ![w].amount = a]
    /\ UNCHANGED <<row, ledger>>

\* Stripe executes a request, perhaps long after its sender gave up or died: once per key,
\* for good.
Execute(q) ==
    /\ Executed(q.booking, q.key) = {}
    /\ \E t \in BOOLEAN :
        ledger' = ledger \cup {[booking |-> q.booking, key |-> q.key,
                                amount |-> q.amount, taken |-> t]}
    /\ UNCHANGED <<row, worker, sent>>

\* What Stripe answers to a request for amount a under the key of execution e: the first
\* result again, or an idempotency error when the parameters are not the same.
Answer(e, a) ==
    IF e.amount # a THEN [pc |-> "failed", err |-> "idempotency_error"]
    ELSE IF e.taken THEN [pc |-> "paid", err |-> "none"]
    ELSE [pc |-> "failed", err |-> "card_error"]

Receive(w) ==
    /\ worker[w].pc = "waiting"
    /\ \E e \in Executed(worker[w].booking, worker[w].key) :
        worker' = [worker EXCEPT ![w].pc = Answer(e, worker[w].amount).pc,
                                 ![w].err = Answer(e, worker[w].amount).err]
    /\ UNCHANGED <<row, sent, ledger>>

\* Timeout, connection error, Stripe server error, conflict or rate limit.
GiveUp(w) ==
    /\ worker[w].pc = "waiting"
    /\ worker' = [worker EXCEPT ![w].pc = "failed", ![w].err = "no_answer"]
    /\ UNCHANGED <<row, sent, ledger>>

\* Mutated form: a request without an answer counts as refused.
IsAnyFailure(err) == err \in {"card_error", "invalid_request", "no_answer"}

IsDefiniteFailure(err) == err \in {"card_error", "invalid_request"}

RevertBookingFromChargingToCompleted(w) ==
    /\ worker[w].pc = "failed"
    /\ row' = [row EXCEPT ![worker[w].booking] =
                Reverted(@, IsDefiniteFailure(worker[w].err))]
    /\ worker' = [worker EXCEPT ![w] = Idle]
    /\ UNCHANGED <<sent, ledger>>

\* Mutated form: the amount is computed again, from settings that may have changed.
UpdateBookingChargedAnew(w) ==
    /\ worker[w].pc = "paid"
    /\ \E a \in Amounts :
        row' = [row EXCEPT ![worker[w].booking] = Charged(@, worker[w].key, a)]
    /\ worker' = [worker EXCEPT ![w] = Idle]
    /\ UNCHANGED <<sent, ledger>>

UpdateBookingCharged(w) ==
    /\ worker[w].pc = "paid"
    /\ row' = [row EXCEPT ![worker[w].booking] =
                Charged(@, worker[w].key, worker[w].amount)]
    /\ worker' = [worker EXCEPT ![w] = Idle]
    /\ UNCHANGED <<sent, ledger>>

\* The worker ends without its last statement: the process dies or panics, the admin's
\* connection is gone and its context cancelled, or the database refuses the statement,
\* whose error is dropped (revert) or only logged (record).  The row stays in 'charging'.
Stop(w) ==
    /\ WorkersMayStop
    /\ worker[w] # Idle
    /\ worker' = [worker EXCEPT ![w] = Idle]
    /\ UNCHANGED <<row, sent, ledger>>

(***************************************************************************)
(* The rest of what happens to these columns.                              *)
(***************************************************************************)

\* completeExpiredBookings, in one statement for the confirmed bookings that are over.
CompleteExpiredBookings ==
    /\ \E over \in SUBSET {b \in CardOnFile : row[b].status = "confirmed"} :
        /\ over # {}
        /\ row' = [b \in Bookings |->
                    IF b \in over
                    THEN [row[b] EXCEPT !.status = "completed", !.completedAt = "recent"]
                    ELSE row[b]]
    /\ UNCHANGED <<worker, sent, ledger>>

\* The auto-charge delay goes by.
DelayPasses(b) ==
    /\ row[b].completedAt = "recent"
    /\ row' = [row EXCEPT ![b].completedAt = "due"]
    /\ UNCHANGED <<worker, sent, ledger>>

\* handleAdminUpdateBooking: from any status to any status; only 'completed' asks for a
\* card.  It stamps completed_at and leaves key, payment and attempts alone.
UpdateBookingStatus(b, s) ==
    /\ s = "completed" => b \in CardOnFile
    /\ PatchesInFlight \/ InFlight(b) = {}
    /\ row' = [row EXCEPT ![b].status = s,
                          ![b].completedAt = IF s = "completed" THEN "recent" ELSE @]
    /\ UNCHANGED <<worker, sent, ledger>>

Step(w) ==
    \/ RejectAmount(w)
    \/ FailLookup(w)
    \/ RejectPayment(w)
    \/ Submit(w)
    \/ Receive(w)
    \/ GiveUp(w)
    \/ RevertBookingFromChargingToCompleted(w)
    \/ UpdateBookingCharged(w)

Next ==
    \/ \E w \in Admins, b \in Bookings : ClaimBookingForCharge(w, b)
    \/ \E w \in Schedulers, b \in Bookings : ClaimBookingForAutoCharge(w, b)
    \/ \E w \in Workers : Step(w)
    \/ \E w \in Workers : Stop(w)
    \/ \E q \in sent : Execute(q)
    \/ CompleteExpiredBookings
    \/ \E b \in Bookings : DelayPasses(b)
    \/ \E b \in Bookings, s \in PatchTargets : UpdateBookingStatus(b, s)

Spec == Init /\ [][Next]_vars

\* The scheduler's ticker keeps coming back to claim, a started charge runs on, time
\* passes.  Nothing obliges an admin to click, or Stripe to answer.
Fairness ==
    /\ \A w \in Schedulers :
        WF_vars(\E b \in Bookings : ClaimBookingForAutoCharge(w, b))
    /\ \A w \in Workers : WF_vars(Step(w))
    /\ \A b \in Bookings : WF_vars(DelayPasses(b))

FairSpec == Spec /\ Fairness

(***************************************************************************)
(* Properties.                                                             *)
(***************************************************************************)

\* Rows, workers and Stripe's memory have their types, and UpdateBookingCharged leaves a
\* row with both of payment and amount, as the charge lists and the insights query assume.
TypeOK ==
    /\ row \in [Bookings -> Row]
    /\ worker \in [Workers -> Worker]
    /\ sent \subseteq Request
    /\ ledger \subseteq Execution
    /\ \A b \in Bookings : row[b].pi = 0 <=> row[b].amount = 0

\* At most one worker acts on a booking, and only while its row is 'charging' under the
\* key that worker holds: what the claiming UPDATE is for.
SoleOwner ==
    \A w \in Workers : worker[w] # Idle =>
        /\ row[worker[w].booking].status = "charging"
        /\ row[worker[w].booking].key = worker[w].key
        /\ InFlight(worker[w].booking) = {w}

\* No customer pays twice for a booking, over every retry, crash, lost answer and late
\* execution: the purpose of the 'charging' status and of the idempotency key.
NoDoubleCharge ==
    \A d, e \in ledger :
        d.taken /\ e.taken /\ d.booking = e.booking => d = e

\* A payment Stripe took is recorded on the row, or the row still carries the key under
\* which the next attempt finds it: it is never forgotten while a retry could repeat it.
PaymentKeepsItsKey ==
    \A e \in ledger : e.taken =>
        IF row[e.booking].pi = 0 THEN row[e.booking].key = e.key
                                 ELSE row[e.booking].pi = e.key

\* The payment and amount on a row are those of a payment Stripe took for that booking.
RecordedPaymentIsReal ==
    \A b \in Bookings : row[b].pi # 0 =>
        [booking |-> b, key |-> row[b].pi, amount |-> row[b].amount, taken |-> TRUE] \in ledger

\* A claim never issues a key that a request went out under before: Stripe would replay the
\* old decline to a retry that is meant to try the card again.
KeysAreFresh ==
    [][\A b \in Bookings : row[b].key = 0 /\ row'[b].key # 0 =>
        \A q \in sent : q.booking = b => q.key # row'[b].key]_vars

\* Two requests under one key are the same request, as ChargeDescription's comment demands.
RetriesSendSameParameters ==
    \A p, q \in sent : p.booking = q.booking /\ p.key = q.key => p = q

\* Charging implements PaymentOnce: Stripe's ledger is what was taken, the row what was
\* recorded.
Once == INSTANCE PaymentOnce WITH
    taken <- [b \in Bookings |-> {<<e.key, e.amount>> :
                                    e \in {x \in ledger : x.booking = b /\ x.taken}}],
    recorded <- [b \in Bookings |-> IF row[b].pi = 0 THEN {}
                                    ELSE {<<row[b].pi, row[b].amount>>}]

\* The refinement as a property of the runs.
ImplementsPaymentOnce == Once!Spec

\* While no worker is cut off and no admin patches the row, the scheduler brings every
\* completed booking with a card to a charge or to two failed attempts.
CompletedBookingsSettle ==
    \A b \in CardOnFile : row[b].status = "completed" ~>
        row[b].status = "charged" \/ row[b].attempts >= 2

\* Then no row is left in 'charging' either: every return of the two handlers undoes its
\* claim or records the payment.
ChargingEnds ==
    \A b \in Bookings : row[b].status = "charging" ~> row[b].status # "charging"
==============================================================================
