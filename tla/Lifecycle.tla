------------------------------- MODULE Lifecycle -------------------------------
(***************************************************************************)
(* The life of bookings once they are made: the scheduler's rounds, which  *)
(* complete, remind and charge; the customer's booking and cancel pages,   *)
(* which show what they loaded; the admin's buttons, offered for the row   *)
(* as it was listed; and a process that dies and is started again.         *)
(*                                                                         *)
(* Time is in whole hours since the bookings were made.  How a charge is   *)
(* kept from being made twice is Charging's subject: here it succeeds,     *)
(* fails, or leaves Stripe with a request that may be executed later.  The *)
(* pause before an automatic charge may have any length.                   *)
(***************************************************************************)
EXTENDS Naturals

CONSTANTS
    Bookings,
    StartOf,        \* the hour at which a session starts ...
    EndOf,          \* ... and at which it ends
    ReminderHours,  \* reminder_hours_before
    LastHour,       \* bound: the last hour of a behaviour
    MaxSlips,       \* bound: crashes, and statements and mails of a round that fail
    NoBooking

ASSUME LifecycleAssumption ==
    /\ StartOf \in [Bookings -> Nat]
    /\ EndOf \in [Bookings -> Nat]
    /\ \A b \in Bookings : StartOf[b] < EndOf[b]
    /\ ReminderHours \in Nat \ {0}
    /\ LastHour \in Nat
    /\ MaxSlips \in Nat
    /\ NoBooking \notin Bookings

Status == {"confirmed", "completed", "charging", "charged", "cancelled"}

VARIABLES
    now,
    status,
    reminderSent,  \* the column
    card,          \* Stripe: whether the payment method is still the customer's
    detaching,     \* goroutines that are to detach the card of a cancelled booking
    up,            \* the process runs
    scheduler,     \* the round under way: its step, the bookings listed, the one in hand
    charger,       \* who is talking to Stripe about a booking
    charge,        \* Stripe: no payment, one that may still be taken, one taken
    ranAt,         \* the hour of the last round ...
    completedAt,   \* ... and of the last one that completed bookings
    seen,          \* AdminBookings: the status its row shows
    page,          \* CancelPage and ViewBookingPage: screen, booking shown, request
    strayCancels,  \* cancel requests whose page was left, or gave up, before they were served
    told,          \* history: customers told that no charge will be made
    revived,       \* history: cancelled bookings that a PATCH has brought back
    crossed,       \* history: bookings a PATCH cancelled with a charge not known to have failed
    mails,         \* history: reminders mailed
    panicked,      \* history: bookings whose charge dereferenced a missing customer
    slips          \* history: crashes, and statements and mails of a round that failed

rowVars == <<status, reminderSent, card, detaching>>
roundVars == <<up, scheduler, ranAt, completedAt>>
chargeVars == <<charger, charge>>
clientVars == <<seen, page, strayCancels, told>>
historyVars == <<revived, crossed, mails, panicked, slips>>
vars == <<now, rowVars, roundVars, chargeVars, clientVars, historyVars>>

Page == [screen : {"closed", "view", "cancel"}, shown : Status,
         request : {"none", "sent", "done", "refused"}]

Closed == [screen |-> "closed", shown |-> "confirmed", request |-> "none"]

Round == [pc : {"idle", "list", "remind", "charge"}, due : SUBSET Bookings,
          current : Bookings \cup {NoBooking}]

Resting == [pc |-> "idle", due |-> {}, current |-> NoBooking]

TypeOK ==
    /\ now \in 0 .. LastHour
    /\ status \in [Bookings -> Status]
    /\ reminderSent \in [Bookings -> BOOLEAN]
    /\ card \in [Bookings -> {"attached", "detached"}]
    /\ detaching \subseteq Bookings
    /\ up \in BOOLEAN
    /\ scheduler \in Round
    /\ charger \in [Bookings -> {"none", "scheduler", "admin"}]
    /\ charge \in [Bookings -> {"none", "open", "taken"}]
    /\ ranAt \in 0 .. LastHour
    /\ completedAt \in 0 .. LastHour
    /\ seen \in [Bookings -> Status]
    /\ page \in [Bookings -> Page]
    /\ strayCancels \subseteq Bookings
    /\ told \subseteq Bookings
    /\ crossed \subseteq Bookings
    /\ revived \subseteq Bookings
    /\ mails \in [Bookings -> Nat]
    /\ panicked \subseteq Bookings
    /\ slips \in 0 .. MaxSlips

\* Made at hour 0; a booking at short notice has had its only mail.
ShortNotice(b) == StartOf[b] < ReminderHours

Init ==
    /\ now = 0
    /\ status = [b \in Bookings |-> "confirmed"]
    /\ reminderSent = [b \in Bookings |-> ShortNotice(b)]
    /\ card = [b \in Bookings |-> "attached"]
    /\ detaching = {}
    /\ up = TRUE
    /\ scheduler = Resting
    /\ charger = [b \in Bookings |-> "none"]
    /\ charge = [b \in Bookings |-> "none"]
    /\ ranAt = 0
    /\ completedAt = 0
    /\ seen = [b \in Bookings |-> "confirmed"]
    /\ page = [b \in Bookings |-> Closed]
    /\ strayCancels = {}
    /\ told = {}
    /\ revived = {}
    /\ crossed = {}
    /\ mails = [b \in Bookings |-> 0]
    /\ panicked = {}
    /\ slips = 0

Slip == slips < MaxSlips /\ slips' = slips + 1

(***************************************************************************)
(* The scheduler: runOnce every half hour, and at once after a start.      *)
(***************************************************************************)

\* An hour passes; a process that is up has run a round in it and is done with it.
Pass ==
    /\ now < LastHour
    /\ up => scheduler = Resting /\ ranAt = now
    /\ now' = now + 1
    /\ UNCHANGED <<rowVars, roundVars, chargeVars, clientVars, historyVars>>

\* Mutated form: only what ended within the last hour is looked for.
ExpiredJustNow(b) == EndOf[b] + 1 = now

Expired(b) == EndOf[b] < now

CompleteExpiredBookings ==
    /\ up
    /\ scheduler.pc = "idle"
    /\ status' = [b \in Bookings |->
                    IF status[b] = "confirmed" /\ Expired(b) THEN "completed" ELSE status[b]]
    /\ ranAt' = now
    /\ completedAt' = now
    /\ scheduler' = [scheduler EXCEPT !.pc = "list"]
    /\ UNCHANGED <<now, reminderSent, card, detaching, up, chargeVars, clientVars, historyVars>>

\* The UPDATE fails and the round goes on, or the settings cannot be read and it is over.
CompleteExpiredFails ==
    /\ up
    /\ scheduler.pc = "idle"
    /\ Slip
    /\ ranAt' = now
    /\ \/ scheduler' = [scheduler EXCEPT !.pc = "list"]
       \/ UNCHANGED scheduler
    /\ UNCHANGED <<now, rowVars, up, completedAt, chargeVars, clientVars, revived, crossed,
                   mails, panicked>>

\* Mutated form: a booking made exactly the notice ahead gets no reminder either.
DueReminderLater(b) ==
    /\ ~reminderSent[b]
    /\ status[b] = "confirmed"
    /\ now <= StartOf[b] /\ StartOf[b] <= now + ReminderHours
    /\ StartOf[b] > ReminderHours

\* Mutated form: whether a reminder has been sent is not asked.
DueReminderAgain(b) ==
    /\ status[b] = "confirmed"
    /\ now <= StartOf[b] /\ StartOf[b] <= now + ReminderHours
    /\ StartOf[b] >= ReminderHours

DueReminder(b) ==
    /\ ~reminderSent[b]
    /\ status[b] = "confirmed"
    /\ now <= StartOf[b] /\ StartOf[b] <= now + ReminderHours
    /\ StartOf[b] >= ReminderHours

\* The bookings that are due, or none if the query fails.
ListBookingsDueReminder ==
    /\ scheduler.pc = "list"
    /\ \/ /\ scheduler' = [scheduler EXCEPT !.pc = "remind",
                                            !.due = {b \in Bookings : DueReminder(b)}]
          /\ UNCHANGED slips
       \/ /\ Slip
          /\ scheduler' = [scheduler EXCEPT !.pc = "remind"]
    /\ UNCHANGED <<now, rowVars, up, ranAt, completedAt, chargeVars, clientVars, revived,
                   crossed, mails, panicked>>

\* The mail goes out whatever has become of the booking since it was listed.
SendReminder(b) ==
    /\ scheduler.pc = "remind"
    /\ scheduler.current = NoBooking
    /\ b \in scheduler.due
    /\ scheduler' = [scheduler EXCEPT !.current = b]
    /\ mails' = [mails EXCEPT ![b] = @ + 1]
    /\ UNCHANGED <<now, rowVars, up, ranAt, completedAt, chargeVars, clientVars, revived,
                   crossed, panicked, slips>>

SendReminderFails(b) ==
    /\ scheduler.pc = "remind"
    /\ scheduler.current = NoBooking
    /\ b \in scheduler.due
    /\ Slip
    /\ scheduler' = [scheduler EXCEPT !.due = @ \ {b}]
    /\ UNCHANGED <<now, rowVars, up, ranAt, completedAt, chargeVars, clientVars, revived,
                   crossed, mails, panicked>>

\* The flag is set, or the UPDATE fails and the next round mails again.
MarkReminderSent(b) ==
    /\ scheduler.pc = "remind"
    /\ scheduler.current = b
    /\ \/ /\ reminderSent' = [reminderSent EXCEPT ![b] = TRUE]
          /\ UNCHANGED slips
       \/ Slip /\ UNCHANGED reminderSent
    /\ scheduler' = [scheduler EXCEPT !.due = @ \ {b}, !.current = NoBooking]
    /\ UNCHANGED <<now, status, card, detaching, up, ranAt, completedAt, chargeVars, clientVars,
                   revived, crossed, mails, panicked>>

RemindersDone ==
    /\ scheduler.pc = "remind"
    /\ scheduler.due = {}
    /\ scheduler' = [scheduler EXCEPT !.pc = "charge"]
    /\ UNCHANGED <<now, rowVars, up, ranAt, completedAt, chargeVars, clientVars, historyVars>>

\* The claim of a completed booking.  A second one, which a PATCH during the first makes
\* possible, is Charging's subject and left out here.
Claim(b, who) ==
    /\ status[b] = "completed"
    /\ charger[b] = "none"
    /\ status' = [status EXCEPT ![b] = "charging"]
    /\ charger' = [charger EXCEPT ![b] = who]
    /\ UNCHANGED charge

ClaimBookingForAutoCharge(b) ==
    /\ scheduler.pc = "charge"
    /\ scheduler.current = NoBooking
    /\ Claim(b, "scheduler")
    /\ scheduler' = [scheduler EXCEPT !.current = b]
    /\ UNCHANGED <<now, reminderSent, card, detaching, up, ranAt, completedAt, clientVars, historyVars>>

\* No booking is due, or none can be claimed.
EndRound ==
    /\ scheduler.pc = "charge"
    /\ scheduler.current = NoBooking
    /\ scheduler' = Resting
    /\ UNCHANGED <<now, rowVars, up, ranAt, completedAt, chargeVars, clientVars, historyVars>>

\* A charge that is not known to have failed: the payment is taken already or may yet be.
MayHaveCharged(b) == charger[b] # "none" \/ charge[b] # "none"

\* Everything in the process is lost; rows and mails stay, and requests that Stripe has.
Die ==
    /\ up' = FALSE
    /\ scheduler' = Resting
    /\ charger' = [b \in Bookings |-> "none"]
    /\ charge' = [b \in Bookings |->
                    IF charger[b] # "none" /\ charge[b] = "none" THEN "open" ELSE charge[b]]
    /\ detaching' = {}

\* The worker is done with the booking, and the scheduler goes on to the next.
EndCharge(b) ==
    /\ charger' = [charger EXCEPT ![b] = "none"]
    /\ scheduler' = IF charger[b] = "scheduler"
                      THEN [scheduler EXCEPT !.current = NoBooking]
                      ELSE scheduler
    /\ UNCHANGED <<now, reminderSent, card, detaching, up, ranAt, completedAt, clientVars,
                   historyVars>>

\* Mutated form: a failed charge has a status of its own, which the column does not know.
FailChargeAsFailed(b) ==
    /\ charger[b] # "none"
    /\ EndCharge(b)
    /\ status' = [status EXCEPT ![b] = IF @ = "charging" THEN "failed" ELSE @]
    /\ UNCHANGED charge

\* The amount is out of range, the card cannot be looked up or is declined, or the outcome
\* stays unknown.  The claim is undone if the row is still charging, or the UPDATE that
\* undoes it fails and the row stays as it is.
FailCharge(b) ==
    /\ charger[b] # "none"
    /\ EndCharge(b)
    /\ \/ status' = [status EXCEPT ![b] = IF @ = "charging" THEN "completed" ELSE @]
       \/ UNCHANGED status
    /\ \/ UNCHANGED charge
       \/ card[b] = "attached" /\ charge[b] = "none" /\ charge' = [charge EXCEPT ![b] = "open"]

\* Stripe answers that the payment is taken; it is recorded if the row is still charging
\* and the UPDATE does not fail.
FinishCharge(b) ==
    /\ charger[b] # "none"
    /\ card[b] = "attached"
    /\ EndCharge(b)
    /\ charge' = [charge EXCEPT ![b] = "taken"]
    /\ \/ status' = [status EXCEPT ![b] = IF @ = "charging" THEN "charged" ELSE @]
       \/ UNCHANGED status

\* Stripe executes a request whose outcome nobody waits for any more.
TakePayment(b) ==
    /\ charge[b] = "open"
    /\ charge' = [charge EXCEPT ![b] = "taken"]
    /\ UNCHANGED <<now, rowVars, roundVars, charger, clientVars, historyVars>>

\* A detached card has no customer, which is dereferenced once the card is found: the
\* handler's panic is recovered, the scheduler's ends the process.  The claim stays.
PanicInCharge(b) ==
    /\ charger[b] # "none"
    /\ card[b] = "detached"
    /\ panicked' = panicked \cup {b}
    /\ IF charger[b] = "scheduler"
         THEN Die
         ELSE /\ charger' = [charger EXCEPT ![b] = "none"]
              /\ UNCHANGED <<up, scheduler, detaching, charge>>
    /\ UNCHANGED <<now, status, reminderSent, card, ranAt, completedAt, clientVars, revived,
                   crossed, mails, slips>>

Crash ==
    /\ up
    /\ Slip
    /\ Die
    /\ UNCHANGED <<now, status, reminderSent, card, ranAt, completedAt, clientVars, revived,
                   crossed, mails, panicked>>

Restart ==
    /\ ~up
    /\ up' = TRUE
    /\ UNCHANGED <<now, rowVars, scheduler, ranAt, completedAt, chargeVars, clientVars, historyVars>>

(***************************************************************************)
(* The admin's bookings page: buttons for the row as it is shown.          *)
(***************************************************************************)
LoadBookings ==
    /\ up
    /\ seen' = status
    /\ UNCHANGED <<now, rowVars, roundVars, chargeVars, page, strayCancels, told, historyVars>>

\* PATCH to completed, whatever the status is by now; the row is shown as answered.
MarkDone(b) ==
    /\ up
    /\ seen[b] = "confirmed"
    /\ status' = [status EXCEPT ![b] = "completed"]
    /\ seen' = [seen EXCEPT ![b] = "completed"]
    /\ revived' = IF status[b] = "cancelled" THEN revived \cup {b} ELSE revived
    /\ UNCHANGED <<now, reminderSent, card, detaching, roundVars, chargeVars, page,
                   strayCancels, told, crossed, mails, panicked, slips>>

\* PATCH to cancelled, likewise; it detaches nothing.
AdminCancel(b) ==
    /\ up
    /\ seen[b] \in {"confirmed", "completed"}
    /\ status' = [status EXCEPT ![b] = "cancelled"]
    /\ seen' = [seen EXCEPT ![b] = "cancelled"]
    /\ crossed' = IF MayHaveCharged(b) THEN crossed \cup {b} ELSE crossed
    /\ UNCHANGED <<now, reminderSent, card, detaching, roundVars, chargeVars, page,
                   strayCancels, told, revived, mails, panicked, slips>>

\* The server refuses the claim of a booking that is not completed.
AdminCharge(b) ==
    /\ up
    /\ seen[b] \in {"confirmed", "completed"}
    /\ Claim(b, "admin")
    /\ UNCHANGED <<now, reminderSent, card, detaching, roundVars, clientVars, historyVars>>

(***************************************************************************)
(* The customer's pages.                                                   *)
(***************************************************************************)

\* A link in a mail, or a link between the pages: the page loads the booking once.  A cancel
\* page that finds it cancelled says "No charge will be made" as well, whoever cancelled it.
\* A cancel request of the page that is left goes on, and nobody reads its answer.
Open(b, screen) ==
    /\ up
    /\ page[b].screen # screen
    /\ page' = [page EXCEPT ![b] = [screen |-> screen, shown |-> status[b], request |-> "none"]]
    /\ told' = IF screen = "cancel" /\ status[b] = "cancelled" THEN told \cup {b} ELSE told
    /\ strayCancels' = IF page[b].request = "sent" THEN strayCancels \cup {b} ELSE strayCancels
    /\ UNCHANGED <<now, rowVars, roundVars, chargeVars, seen, historyVars>>

\* The button is there for a booking shown as confirmed, also after an error.
ClickCancel(b) ==
    /\ page[b].screen = "cancel"
    /\ page[b].shown = "confirmed"
    /\ page[b].request = "none"
    /\ b \notin told
    /\ page' = [page EXCEPT ![b].request = "sent"]
    /\ UNCHANGED <<now, rowVars, roundVars, chargeVars, seen, strayCancels, told, historyVars>>

\* Mutated form: that no row was updated is answered with 200 as well.
CancelBookingLeniently(b) ==
    /\ up
    /\ page[b].request = "sent"
    /\ IF status[b] = "confirmed"
         THEN /\ status' = [status EXCEPT ![b] = "cancelled"]
              /\ detaching' = detaching \cup {b}
         ELSE UNCHANGED <<status, detaching>>
    /\ page' = [page EXCEPT ![b].request = "done"]
    /\ UNCHANGED <<now, reminderSent, card, roundVars, chargeVars, seen, strayCancels, told,
                   historyVars>>

\* Mutated form: the card is detached before it is known that the booking is cancelled.
CancelDetachingFirst(b) ==
    /\ up
    /\ page[b].request = "sent"
    /\ IF status[b] = "confirmed"
         THEN /\ status' = [status EXCEPT ![b] = "cancelled"]
              /\ page' = [page EXCEPT ![b].request = "done"]
         ELSE /\ page' = [page EXCEPT ![b].request = "refused"]
              /\ UNCHANGED status
    /\ detaching' = detaching \cup {b}
    /\ UNCHANGED <<now, reminderSent, card, roundVars, chargeVars, seen, strayCancels, told,
                   historyVars>>

\* handleCancelBooking: by status alone, at whatever hour.
CancelBooking(b) ==
    /\ up
    /\ page[b].request = "sent"
    /\ IF status[b] = "confirmed"
         THEN /\ status' = [status EXCEPT ![b] = "cancelled"]
              /\ detaching' = detaching \cup {b}
              /\ page' = [page EXCEPT ![b].request = "done"]
         ELSE /\ page' = [page EXCEPT ![b].request = "refused"]
              /\ UNCHANGED <<status, detaching>>
    /\ UNCHANGED <<now, reminderSent, card, roundVars, chargeVars, seen, strayCancels, told,
                   historyVars>>

\* The same for a request whose page was left or gave up; a refusal changes nothing.
CancelStrayBooking(b) ==
    /\ up
    /\ b \in strayCancels
    /\ status[b] = "confirmed"
    /\ status' = [status EXCEPT ![b] = "cancelled"]
    /\ detaching' = detaching \cup {b}
    /\ strayCancels' = strayCancels \ {b}
    /\ UNCHANGED <<now, reminderSent, card, roundVars, chargeVars, seen, page, told, historyVars>>

\* 200: "Your booking has been cancelled. No charge will be made."
CancelAnswered(b) ==
    /\ page[b].request = "done"
    /\ page' = [page EXCEPT ![b].request = "none"]
    /\ told' = told \cup {b}
    /\ UNCHANGED <<now, rowVars, roundVars, chargeVars, seen, strayCancels, historyVars>>

\* 409, or the request or its answer is lost, or the request is served after the page gave
\* up: the page shows an error and what it showed.
CancelFails(b) ==
    /\ page[b].request # "none"
    /\ page' = [page EXCEPT ![b].request = "none"]
    /\ \/ UNCHANGED strayCancels
       \/ page[b].request = "sent" /\ strayCancels' = strayCancels \cup {b}
    /\ UNCHANGED <<now, rowVars, roundVars, chargeVars, seen, told, historyVars>>

\* The goroutine of a cancellation; Stripe may refuse.
DetachPaymentMethod(b) ==
    /\ b \in detaching
    /\ detaching' = detaching \ {b}
    /\ \/ card' = [card EXCEPT ![b] = "detached"]
       \/ UNCHANGED card
    /\ UNCHANGED <<now, status, reminderSent, roundVars, chargeVars, clientVars, historyVars>>

SchedulerStep ==
    \/ CompleteExpiredBookings
    \/ CompleteExpiredFails
    \/ ListBookingsDueReminder
    \/ RemindersDone
    \/ EndRound
    \/ \E b \in Bookings :
        \/ SendReminder(b)
        \/ SendReminderFails(b)
        \/ MarkReminderSent(b)
        \/ ClaimBookingForAutoCharge(b)

Next ==
    \/ Pass
    \/ SchedulerStep
    \/ Crash
    \/ Restart
    \/ LoadBookings
    \/ \E b \in Bookings :
        \/ FailCharge(b)
        \/ FinishCharge(b)
        \/ TakePayment(b)
        \/ PanicInCharge(b)
        \/ MarkDone(b)
        \/ AdminCancel(b)
        \/ AdminCharge(b)
        \/ \E screen \in {"view", "cancel"} : Open(b, screen)
        \/ ClickCancel(b)
        \/ CancelBooking(b)
        \/ CancelStrayBooking(b)
        \/ CancelAnswered(b)
        \/ CancelFails(b)
        \/ DetachPaymentMethod(b)

Spec == Init /\ [][Next]_vars

(***************************************************************************)
(* Fairness: the ticker ticks and a round goes on, a process that died is  *)
(* started again, and Stripe answers or the client gives up.               *)
(***************************************************************************)
LiveSpec ==
    /\ Spec
    /\ WF_vars(SchedulerStep)
    /\ WF_vars(Restart)
    /\ WF_vars(\E b \in Bookings : FailCharge(b) \/ FinishCharge(b) \/ PanicInCharge(b))

(***************************************************************************)
(* Properties.                                                             *)
(***************************************************************************)

\* After a round that completed bookings past its end no session is open: a cancellation
\* after the fact is possible only until the next such round.
SessionsAreClosed ==
    \A b \in Bookings : EndOf[b] < completedAt => status[b] # "confirmed"

\* The cancel page tells who cancels, and who opens it on a cancelled booking, that no
\* charge will be made.  Then none is or was, in two cases excepted: an admin whose list was
\* older than the cancellation marked the booking done, or an admin's PATCH had cancelled a
\* booking whose charge was under way, taken, or not known to have failed.
NoChargeAfterCancel ==
    \A b \in told : charge[b] = "taken" => b \in revived \cup crossed

\* What the page says, without the exceptions.
ToldIsNeverCharged == \A b \in told : charge[b] # "taken"

\* Charging dereferences a missing customer only for a booking brought back that way.
PanicsAreOfRevivedBookings == panicked \subseteq revived

\* At most one reminder is mailed, beyond those whose mark was lost.
RemindersAreNotRepeated == \A b \in Bookings : mails[b] <= 1 + slips

\* When nothing fails, a booking with enough notice that is still confirmed after its
\* session began has had exactly one reminder.  A charge of a booking brought back by an
\* admin is such a failure: its panic may end the process for longer than the notice of
\* another customer's session.
RemindersAreSent ==
    slips = 0 /\ panicked = {} =>
        \A b \in Bookings :
            ~ShortNotice(b) /\ status[b] = "confirmed" /\ StartOf[b] < now => mails[b] = 1

\* A session that is over does not stay open, whatever crashes.
SessionsClose ==
    \A b \in Bookings :
        (status[b] = "confirmed" /\ EndOf[b] < now) ~> (status[b] # "confirmed")
=============================================================================
