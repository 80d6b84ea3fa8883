---------------------------- MODULE Reservations ----------------------------
(***************************************************************************)
(* How a period is booked and given back: concurrent executions of         *)
(* handleCreateBooking, which look the setup intent up, ask Stripe for the *)
(* card, validate and insert in separate steps; the customer's cancel with *)
(* its detached card; the admin's PATCHes and closures; and the two        *)
(* constraints of the bookings table, which alone are atomic.              *)
(*                                                                         *)
(* Times are hours on one line, periods are half-open.  A refusal for a    *)
(* reason no property speaks of (rate limit, past or short notice, hours,  *)
(* gate, new-customer restriction, a failing database) may come at any     *)
(* request.                                                                *)
(***************************************************************************)
EXTENDS Naturals

CONSTANTS
    Bookings,      \* ids of rows
    Intents,       \* setup intents Stripe may issue
    Requests,      \* executions of handleCreateBooking at the same time
    Closures,      \* ids of closures
    Hours,         \* bound: the times that occur
    Wanted,        \* bound: the periods customers ask for and closures cover
    NoBooking,
    NoIntent,
    PatchTargets   \* the statuses the admin's PATCH asks for

\* 'finished' stands for completed, charging and charged, which nothing here tells apart.
Status == {"confirmed", "cancelled", "finished"}

ASSUME ReservationsAssumption ==
    /\ Hours \subseteq Nat
    /\ Wanted \subseteq {p \in [from : Hours, to : Hours] : p.from < p.to}
    /\ NoBooking \notin Bookings
    /\ NoIntent \notin Intents
    /\ PatchTargets \subseteq Status

VARIABLES
    row,        \* the bookings table
    card,       \* Stripe: the setup intent and the card saved with it
    closure,    \* the closures table
    request,    \* the local state of each execution of handleCreateBooking
    answered,   \* history: the bookings the 201s for a setup intent named
    turnedAway, \* history: setup intents refused by the INSERT although they had a booking
    withdrawn   \* history: bookings whose customer was told they are cancelled

vars == <<row, card, closure, request, answered, turnedAway, withdrawn>>

Period == {p \in [from : Hours, to : Hours] : p.from < p.to}

NoPeriod == [from |-> 0, to |-> 0]

Overlaps(p, q) == p.from < q.to /\ q.from < p.to

Row == [status : Status \cup {"absent"}, intent : Intents \cup {NoIntent},
        period : Period \cup {NoPeriod}]

NoRow == [status |-> "absent", intent |-> NoIntent, period |-> NoPeriod]

Request == [pc : {"idle", "admitted", "card", "valid", "created"},
            intent : Intents \cup {NoIntent}, period : Period \cup {NoPeriod},
            booking : Bookings \cup {NoBooking}, closed : SUBSET Closures]

Idle == [pc |-> "idle", intent |-> NoIntent, period |-> NoPeriod,
         booking |-> NoBooking, closed |-> {}]

Present(b) == row[b].status # "absent"

\* The rows the exclusion constraint looks at.
Live(b) == row[b].status \notin {"absent", "cancelled"}

BookingsOf(i) == {b \in Bookings : row[b].intent = i}

Init ==
    /\ row = [b \in Bookings |-> NoRow]
    /\ card = [i \in Intents |-> "none"]
    /\ closure = [c \in Closures |-> NoPeriod]
    /\ request = [r \in Requests |-> Idle]
    /\ answered = [i \in Intents |-> {}]
    /\ turnedAway = {}
    /\ withdrawn = {}

(***************************************************************************)
(* The constraints of the bookings table.                                  *)
(***************************************************************************)

\* Mutated form: the exclusion constraint looks at confirmed rows only.
FitsBesideFinished(b, p) ==
    \A c \in Bookings \ {b} : row[c].status = "confirmed" => ~Overlaps(p, row[c].period)

\* bookings_no_overlap: row b may be live with period p.
Fits(b, p) ==
    \A c \in Bookings \ {b} : Live(c) => ~Overlaps(p, row[c].period)

\* Mutated form: no unique index, as before migration 011.
UnusedByLive(i) == \A b \in BookingsOf(i) : ~Live(b)

\* idx_bookings_setup_intent, whatever the status of the row that has the intent.
Unused(i) == BookingsOf(i) = {}

(***************************************************************************)
(* Prepare: the checks hold nothing for the customer, whom create checks   *)
(* again; what remains is a setup intent, which the browser confirms.      *)
(***************************************************************************)
PrepareBooking(i, p) ==
    /\ card[i] = "none"
    /\ \A c \in Closures : ~Overlaps(p, closure[c])
    /\ \A b \in Bookings : Live(b) => ~Overlaps(p, row[b].period)
    /\ card' = [card EXCEPT ![i] = "pending"]
    /\ UNCHANGED <<row, closure, request, answered, turnedAway, withdrawn>>

ConfirmCardSetup(i) ==
    /\ card[i] = "pending"
    /\ card' = [card EXCEPT ![i] = "saved"]
    /\ UNCHANGED <<row, closure, request, answered, turnedAway, withdrawn>>

(***************************************************************************)
(* handleCreateBooking.                                                    *)
(***************************************************************************)

\* 201 with booking b.
AnswerWith(r, i, b) ==
    /\ request' = [request EXCEPT ![r] = Idle]
    /\ answered' = [answered EXCEPT ![i] = @ \cup {b}]
    /\ UNCHANGED <<row, card, closure, turnedAway, withdrawn>>

\* A row with the setup intent is the answer, whatever became of the booking.
Replay(r, i) ==
    /\ request[r] = Idle
    /\ \E b \in BookingsOf(i) : AnswerWith(r, i, b)

\* There is none yet.  The period need not be the one the intent was prepared for.
Admit(r, i, p) ==
    /\ request[r] = Idle
    /\ BookingsOf(i) = {}
    /\ request' = [request EXCEPT ![r] =
                    [pc |-> "admitted", intent |-> i, period |-> p,
                     booking |-> NoBooking, closed |-> Closures]]
    /\ UNCHANGED <<row, card, closure, answered, turnedAway, withdrawn>>

\* Stripe says the intent has succeeded; it says so of a card detached since, too.
GetPaymentMethodFromSetupIntent(r) ==
    /\ request[r].pc = "admitted"
    /\ card[request[r].intent] \in {"saved", "givenUp"}
    /\ request' = [request EXCEPT ![r].pc = "card"]
    /\ UNCHANGED <<row, card, closure, answered, turnedAway, withdrawn>>

\* Mutated form: only the start of the booking is compared with the closures.
ValidateStart(r) ==
    /\ request[r].pc = "card"
    /\ \A c \in Closures : ~Overlaps([request[r].period EXCEPT !.to = request[r].period.from + 1],
                                     closure[c])
    /\ request' = [request EXCEPT ![r].pc = "valid"]
    /\ UNCHANGED <<row, card, closure, answered, turnedAway, withdrawn>>

\* validateBookingCreate: no closure overlaps the period when the closures are read.
ValidateBookingCreate(r) ==
    /\ request[r].pc = "card"
    /\ \A c \in Closures : ~Overlaps(request[r].period, closure[c])
    /\ request' = [request EXCEPT ![r].pc = "valid"]
    /\ UNCHANGED <<row, card, closure, answered, turnedAway, withdrawn>>

\* The INSERT, when both constraints admit it.
CreateBooking(r) ==
    /\ request[r].pc = "valid"
    /\ Unused(request[r].intent)
    /\ \E b \in Bookings :
        /\ ~Present(b)
        /\ Fits(b, request[r].period)
        /\ row' = [row EXCEPT ![b] = [status |-> "confirmed", intent |-> request[r].intent,
                                      period |-> request[r].period]]
        /\ request' = [request EXCEPT ![r].pc = "created", ![r].booking = b]
    /\ UNCHANGED <<card, closure, answered, turnedAway, withdrawn>>

\* The INSERT fails: 409 for a period that is taken, else 500 for an intent that is used.
FailCreateBooking(r) ==
    /\ request[r].pc = "valid"
    /\ ~Fits(NoBooking, request[r].period) \/ ~Unused(request[r].intent)
    /\ request' = [request EXCEPT ![r] = Idle]
    /\ turnedAway' = IF Unused(request[r].intent) THEN turnedAway
                     ELSE turnedAway \cup {request[r].intent}
    /\ UNCHANGED <<row, card, closure, answered, withdrawn>>

\* The confirmation is on its way and the booking is the answer.
AnswerCreated(r) ==
    /\ request[r].pc = "created"
    /\ AnswerWith(r, request[r].intent, request[r].booking)

\* An early return, a crash or a lost answer, wherever the request is.
Abandon(r) ==
    /\ request[r] # Idle
    /\ request' = [request EXCEPT ![r] = Idle]
    /\ UNCHANGED <<row, card, closure, answered, turnedAway, withdrawn>>

(***************************************************************************)
(* handleCancelBooking.  A card given up is one its goroutine detaches at  *)
(* some time after, or never: nothing may count on it again.               *)
(***************************************************************************)

\* Mutated form: the card is given up before the UPDATE says whether it matched.
CancelBookingDetachingFirst(b) ==
    /\ Present(b)
    /\ row' = [row EXCEPT ![b].status = IF @ = "confirmed" THEN "cancelled" ELSE @]
    /\ card' = [card EXCEPT ![row[b].intent] = IF @ = "saved" THEN "givenUp" ELSE @]
    /\ withdrawn' = IF row[b].status = "confirmed" THEN withdrawn \cup {b} ELSE withdrawn
    /\ UNCHANGED <<closure, request, answered, turnedAway>>

CancelBooking(b) ==
    /\ row[b].status = "confirmed"
    /\ row' = [row EXCEPT ![b].status = "cancelled"]
    /\ card' = [card EXCEPT ![row[b].intent] = IF @ = "saved" THEN "givenUp" ELSE @]
    /\ withdrawn' = withdrawn \cup {b}
    /\ UNCHANGED <<closure, request, answered, turnedAway>>

(***************************************************************************)
(* The scheduler and the admin.                                            *)
(***************************************************************************)
CompleteExpiredBookings ==
    /\ \E over \in SUBSET {b \in Bookings : row[b].status = "confirmed"} :
        /\ over # {}
        /\ row' = [b \in Bookings |->
                    IF b \in over THEN [row[b] EXCEPT !.status = "finished"] ELSE row[b]]
    /\ UNCHANGED <<card, closure, request, answered, turnedAway, withdrawn>>

\* PATCH of the status, from any status: only the constraint can refuse it, and it has a
\* say when a cancelled row comes back.
UpdateBookingStatus(b, s) ==
    /\ Present(b)
    /\ s # "cancelled" => Fits(b, row[b].period)
    /\ row' = [row EXCEPT ![b].status = s]
    /\ UNCHANGED <<card, closure, request, answered, turnedAway, withdrawn>>

\* Mutated form: the booking keeps its length instead of its start.
UpdateBookingEndTimeShifting(b, t) ==
    /\ Present(b)
    /\ row[b].period.to <= row[b].period.from + t
    /\ LET p == [from |-> (row[b].period.from + t) - row[b].period.to, to |-> t] IN
        /\ Live(b) => Fits(b, p)
        /\ row' = [row EXCEPT ![b].period = p]
    /\ UNCHANGED <<card, closure, request, answered, turnedAway, withdrawn>>

\* Mutated form: no CHECK (end_time > start_time).
UpdateBookingEndTimeBackwards(b, t) ==
    /\ Present(b)
    /\ LET p == [row[b].period EXCEPT !.to = t] IN
        /\ Live(b) => Fits(b, p)
        /\ row' = [row EXCEPT ![b].period = p]
    /\ UNCHANGED <<card, closure, request, answered, turnedAway, withdrawn>>

\* PATCH of the end time: the constraints are the only checks, neither hours nor closures.
UpdateBookingEndTime(b, t) ==
    /\ Present(b)
    /\ row[b].period.from < t
    /\ LET p == [row[b].period EXCEPT !.to = t] IN
        /\ Live(b) => Fits(b, p)
        /\ row' = [row EXCEPT ![b].period = p]
    /\ UNCHANGED <<card, closure, request, answered, turnedAway, withdrawn>>

\* A closure is created, moved or deleted; bookings already made are not looked at.
\* A request's closed keeps the closures that are what they were when it arrived.
ChangeClosure(c, p) ==
    /\ closure' = [closure EXCEPT ![c] = p]
    /\ request' = [r \in Requests |-> [request[r] EXCEPT !.closed = @ \ {c}]]
    /\ UNCHANGED <<row, card, answered, turnedAway, withdrawn>>

Step(r) ==
    \/ GetPaymentMethodFromSetupIntent(r)
    \/ ValidateBookingCreate(r)
    \/ CreateBooking(r)
    \/ FailCreateBooking(r)
    \/ AnswerCreated(r)
    \/ Abandon(r)

Next ==
    \/ \E i \in Intents, p \in Wanted : PrepareBooking(i, p)
    \/ \E i \in Intents : ConfirmCardSetup(i)
    \/ \E r \in Requests, i \in Intents : Replay(r, i)
    \/ \E r \in Requests, i \in Intents, p \in Wanted : Admit(r, i, p)
    \/ \E r \in Requests : Step(r)
    \/ \E b \in Bookings : CancelBooking(b)
    \/ CompleteExpiredBookings
    \/ \E b \in Bookings, s \in PatchTargets : UpdateBookingStatus(b, s)
    \/ \E b \in Bookings, t \in Hours : UpdateBookingEndTime(b, t)
    \/ \E c \in Closures, p \in Wanted \cup {NoPeriod} : ChangeClosure(c, p)

Spec == Init /\ [][Next]_vars

(***************************************************************************)
(* Properties.                                                             *)
(***************************************************************************)

\* The variables have their types; a row has an intent and a period exactly when it exists.
TypeOK ==
    /\ row \in [Bookings -> Row]
    /\ \A b \in Bookings : IF Present(b) THEN row[b].intent \in Intents /\ row[b].period \in Period
                                         ELSE row[b] = NoRow
    /\ card \in [Intents -> {"none", "pending", "saved", "givenUp"}]
    /\ closure \in [Closures -> Period \cup {NoPeriod}]
    /\ request \in [Requests -> Request]
    /\ answered \in [Intents -> SUBSET Bookings]
    /\ turnedAway \subseteq Intents
    /\ withdrawn \subseteq Bookings

\* Two live bookings never share an hour, through creates that validated the same free
\* period, moved ends and cancelled bookings that an admin brings back.
NoOverlap ==
    \A b, c \in Bookings :
        b # c /\ Live(b) /\ Live(c) => ~Overlaps(row[b].period, row[c].period)

\* However often and however concurrently a create is retried, every 201 for a setup intent
\* names the same booking, which is there and is the intent's.
AnswersAgree ==
    \A i \in Intents : \A b \in answered[i] : answered[i] = {b} /\ BookingsOf(i) = {b}

\* A card is detached only after the customer of its one booking cancelled that booking: no
\* retry or replay leaves a second booking of the intent to be charged on a lost card.
DetachedCardsWereWithdrawn ==
    \A b \in Bookings : Present(b) /\ card[row[b].intent] = "givenUp" =>
        b \in withdrawn

\* A booking is not inserted over a closure that stood, unchanged, since its request came;
\* validation and insert are separate, so no more than that is kept.
ClosedPeriodsStayFree ==
    [][\A b \in Bookings, r \in Requests :
        ~Present(b) /\ request[r].booking # b /\ request'[r].booking = b =>
            \A c \in request[r].closed : ~Overlaps(row'[b].period, closure[c])]_vars

\* Reservations implements Calendar: a live row holds its period.
Booked == INSTANCE Calendar WITH
    held <- [b \in Bookings |-> IF Live(b) THEN {row[b].period} ELSE {}]

\* The refinement as a property of the runs.
ImplementsCalendar == Booked!Spec

\* The contract's 'Replay same setup_intent_id: 201 returning the same booking': no create
\* is refused because its own setup intent has the booking already.
ReplaysAreAnswered == turnedAway = {}
==============================================================================
