----------------------------- MODULE LifecycleProofs -----------------------------
(***************************************************************************)
(* Theorems about Lifecycle, for every set of bookings, every notice and   *)
(* every number of hours and failures.                                     *)
(***************************************************************************)
EXTENDS Lifecycle, TLAPS

(***************************************************************************)
(* The inductive invariant.                                                *)
(***************************************************************************)

\* Where the scheduler is in its round, and that a round does not outlast its hour.
RoundsOK ==
    /\ scheduler.pc # "remind" => scheduler.due = {}
    /\ scheduler.pc \in {"idle", "list"} => scheduler.current = NoBooking
    /\ scheduler.pc = "remind" /\ scheduler.current # NoBooking => scheduler.current \in scheduler.due
    /\ scheduler.pc # "idle" => ranAt = now
    /\ ~up => scheduler = Resting
    /\ completedAt <= now /\ ranAt <= now

\* Who talks to Stripe, or did and does not know what came of it, has claimed the booking
\* when it was completed, and the scheduler has one in hand.
ChargersOK ==
    \A b \in Bookings :
        /\ MayHaveCharged(b) => status[b] # "confirmed"
        /\ charger[b] = "scheduler" => scheduler.pc = "charge" /\ scheduler.current = b

\* A customer's cancellation stands until an admin brings the booking back.
Withdrawn(b) == status[b] = "cancelled" \/ b \in revived

CancellationsOK ==
    \A b \in Bookings :
        /\ b \in told \/ page[b].request = "done" => Withdrawn(b)
        /\ b \in detaching \/ card[b] = "detached" =>
             Withdrawn(b) /\ (charger[b] # "none" => b \in revived)

\* A cancelled booking that may have been charged, or may be yet, was cancelled by a PATCH
\* that crossed its charge, or had been brought back.
CrossingsOK ==
    \A b \in Bookings :
        status[b] = "cancelled" /\ MayHaveCharged(b) => b \in revived \cup crossed

\* The booking whose reminder is out and not marked yet.
InHand(b) == scheduler.pc = "remind" /\ scheduler.current = b

\* A booking that is listed has no mark; one without a mark has had no mail that no
\* failure accounts for, but for the one in hand.
MailsOK ==
    /\ \A b \in scheduler.due : ~reminderSent[b]
    /\ \A b \in Bookings :
         /\ mails[b] <= 1 + slips
         /\ ~reminderSent[b] /\ ~InHand(b) => mails[b] <= slips

NothingFailed == slips = 0 /\ panicked = {}

\* When nothing fails, mails and marks go together ...
MarksAreMails ==
    NothingFailed =>
        /\ up
        /\ \A b \in Bookings :
             ~ShortNotice(b) => mails[b] = IF reminderSent[b] \/ InHand(b) THEN 1 ELSE 0

\* ... and a session that has not been reminded of is still to come: when its hour is
\* there, it is listed in the round of that hour.
Unreminded(b) == ~ShortNotice(b) /\ status[b] = "confirmed" /\ ~reminderSent[b]

RemindersAhead ==
    NothingFailed =>
        \A b \in Bookings : Unreminded(b) =>
            /\ now <= StartOf[b]
            /\ now = StartOf[b] /\ ranAt = now =>
                 scheduler.pc = "list" \/ (scheduler.pc = "remind" /\ b \in scheduler.due)

LifecycleInv ==
    /\ TypeOK
    /\ RoundsOK
    /\ ChargersOK
    /\ CancellationsOK
    /\ CrossingsOK
    /\ MailsOK
    /\ MarksAreMails
    /\ RemindersAhead
    /\ SessionsAreClosed
    /\ PanicsAreOfRevivedBookings

(***************************************************************************)
(* Type correctness.                                                       *)
(***************************************************************************)
LEMMA RestingIsRound == Resting \in Round
BY DEF Resting, Round

\* The scheduler's record is one whatever a step does to it.
LEMMA RoundsTyped ==
    ASSUME TypeOK, [Next]_vars
    PROVE  scheduler' \in Round
<1>1. scheduler \in Round
  BY DEF TypeOK
<1>2. CASE CompleteExpiredBookings \/ CompleteExpiredFails \/ ListBookingsDueReminder
           \/ RemindersDone
  BY <1>1, <1>2
  DEF CompleteExpiredBookings, CompleteExpiredFails, ListBookingsDueReminder, RemindersDone, Round
<1>3. CASE EndRound \/ Crash
  BY <1>3, RestingIsRound DEF EndRound, Crash, Die
<1>4. ASSUME NEW b \in Bookings,
             SendReminder(b) \/ SendReminderFails(b) \/ MarkReminderSent(b)
             \/ ClaimBookingForAutoCharge(b) \/ EndCharge(b) \/ PanicInCharge(b)
      PROVE  scheduler' \in Round
  <2>1. CASE SendReminder(b) \/ SendReminderFails(b) \/ ClaimBookingForAutoCharge(b)
    BY <1>1, <2>1 DEF SendReminder, SendReminderFails, ClaimBookingForAutoCharge, Round
  <2>2. CASE MarkReminderSent(b)
    BY <1>1, <2>2 DEF MarkReminderSent, Round
  <2>3. CASE EndCharge(b)
    BY <1>1, <2>3 DEF EndCharge, Round
  <2>4. CASE PanicInCharge(b)
    BY <1>1, <2>4, RestingIsRound DEF PanicInCharge, Die
  <2>5. QED BY <1>4, <2>1, <2>2, <2>3, <2>4
<1>5. CASE scheduler' = scheduler
  BY <1>1, <1>5
<1>6. QED BY <1>2, <1>3, <1>4, <1>5
  DEF Next, SchedulerStep, vars, roundVars, FailCharge, FinishCharge, TakePayment, Pass, Restart,
      LoadBookings, MarkDone, AdminCancel, AdminCharge, Open, ClickCancel, CancelBooking,
      CancelStrayBooking, CancelAnswered, CancelFails, DetachPaymentMethod

\* The rows, the cards and who talks to Stripe.
LEMMA RowsTyped ==
    ASSUME TypeOK, [Next]_vars
    PROVE  /\ status' \in [Bookings -> Status]
           /\ reminderSent' \in [Bookings -> BOOLEAN]
           /\ card' \in [Bookings -> {"attached", "detached"}]
           /\ detaching' \subseteq Bookings
           /\ charger' \in [Bookings -> {"none", "scheduler", "admin"}]
           /\ charge' \in [Bookings -> {"none", "open", "taken"}]
<1> DEFINE Typed ==
      /\ status' \in [Bookings -> Status]
      /\ reminderSent' \in [Bookings -> BOOLEAN]
      /\ card' \in [Bookings -> {"attached", "detached"}]
      /\ detaching' \subseteq Bookings
      /\ charger' \in [Bookings -> {"none", "scheduler", "admin"}]
      /\ charge' \in [Bookings -> {"none", "open", "taken"}]
<1>1. /\ status \in [Bookings -> Status]
      /\ reminderSent \in [Bookings -> BOOLEAN]
      /\ card \in [Bookings -> {"attached", "detached"}]
      /\ detaching \subseteq Bookings
      /\ charger \in [Bookings -> {"none", "scheduler", "admin"}]
      /\ charge \in [Bookings -> {"none", "open", "taken"}]
  BY DEF TypeOK
<1>2. CASE CompleteExpiredBookings \/ Crash
  BY <1>1, <1>2 DEF CompleteExpiredBookings, Crash, Die, Status, chargeVars
<1>3. ASSUME NEW b \in Bookings, MarkReminderSent(b) \/ ClaimBookingForAutoCharge(b)
                                 \/ AdminCharge(b) \/ DetachPaymentMethod(b)
      PROVE  Typed
  BY <1>1, <1>3 DEF MarkReminderSent, ClaimBookingForAutoCharge, AdminCharge, Claim,
                    DetachPaymentMethod, Status, clientVars, historyVars, roundVars, chargeVars
<1>4. ASSUME NEW b \in Bookings, FailCharge(b) \/ FinishCharge(b) \/ PanicInCharge(b)
                                 \/ TakePayment(b)
      PROVE  Typed
  <2>1. CASE FailCharge(b) \/ FinishCharge(b)
    BY <1>1, <2>1 DEF FailCharge, FinishCharge, EndCharge, Status
  <2>2. CASE PanicInCharge(b) \/ TakePayment(b)
    BY <1>1, <2>2 DEF PanicInCharge, TakePayment, Die, rowVars
  <2>3. QED BY <1>4, <2>1, <2>2
<1>5. ASSUME NEW b \in Bookings,
             MarkDone(b) \/ AdminCancel(b) \/ CancelBooking(b) \/ CancelStrayBooking(b)
      PROVE  Typed
  BY <1>1, <1>5 DEF MarkDone, AdminCancel, CancelBooking, CancelStrayBooking, Status, chargeVars
<1>6. CASE UNCHANGED <<rowVars, chargeVars>>
  BY <1>1, <1>6 DEF rowVars, chargeVars
<1>7. QED BY <1>2, <1>3, <1>4, <1>5, <1>6
  DEF Next, SchedulerStep, vars, Pass, CompleteExpiredFails, ListBookingsDueReminder,
      RemindersDone, EndRound, SendReminder, SendReminderFails, Restart, LoadBookings, Open,
      ClickCancel, CancelAnswered, CancelFails

\* What the pages show, and the histories.
LEMMA ClientsTyped ==
    ASSUME TypeOK, [Next]_vars
    PROVE  /\ seen' \in [Bookings -> Status]
           /\ page' \in [Bookings -> Page]
           /\ told' \subseteq Bookings
           /\ strayCancels' \subseteq Bookings
           /\ revived' \subseteq Bookings
           /\ crossed' \subseteq Bookings
           /\ mails' \in [Bookings -> Nat]
           /\ panicked' \subseteq Bookings
<1> DEFINE Typed ==
      /\ seen' \in [Bookings -> Status]
      /\ page' \in [Bookings -> Page]
      /\ told' \subseteq Bookings
      /\ strayCancels' \subseteq Bookings
      /\ revived' \subseteq Bookings
      /\ crossed' \subseteq Bookings
      /\ mails' \in [Bookings -> Nat]
      /\ panicked' \subseteq Bookings
<1>1. /\ seen \in [Bookings -> Status]
      /\ status \in [Bookings -> Status]
      /\ page \in [Bookings -> Page]
      /\ told \subseteq Bookings
      /\ strayCancels \subseteq Bookings
      /\ revived \subseteq Bookings
      /\ crossed \subseteq Bookings
      /\ mails \in [Bookings -> Nat]
      /\ panicked \subseteq Bookings
  BY DEF TypeOK
<1>2. ASSUME NEW b \in Bookings, SendReminder(b) \/ PanicInCharge(b)
      PROVE  Typed
  BY <1>1, <1>2 DEF SendReminder, PanicInCharge, clientVars
<1>3. ASSUME NEW b \in Bookings, MarkDone(b) \/ AdminCancel(b)
      PROVE  Typed
  BY <1>1, <1>3 DEF MarkDone, AdminCancel, Status, historyVars
<1>4. ASSUME NEW b \in Bookings,
             (\E screen \in {"view", "cancel"} : Open(b, screen)) \/ ClickCancel(b)
             \/ CancelBooking(b) \/ CancelStrayBooking(b) \/ CancelAnswered(b) \/ CancelFails(b)
      PROVE  Typed
  <2>1. page[b] \in Page
    BY <1>1
  <2>2. page' \in [Bookings -> Page]
    BY <1>1, <1>4, <2>1
    DEF Open, ClickCancel, CancelBooking, CancelStrayBooking, CancelAnswered, CancelFails, Page
  <2>3. /\ UNCHANGED <<seen, historyVars>> /\ told' \subseteq told \cup {b}
        /\ strayCancels' \subseteq strayCancels \cup {b}
    BY <1>4
    DEF Open, ClickCancel, CancelBooking, CancelStrayBooking, CancelAnswered, CancelFails
  <2>4. QED BY <1>1, <2>2, <2>3 DEF historyVars
<1>5. CASE LoadBookings
  BY <1>1, <1>5 DEF LoadBookings, historyVars
<1>6. CASE UNCHANGED <<clientVars, revived, crossed, mails, panicked>>
  BY <1>1, <1>6 DEF clientVars
<1>7. QED BY <1>2, <1>3, <1>4, <1>5, <1>6
  DEF Next, SchedulerStep, vars, clientVars, historyVars, Pass, CompleteExpiredBookings,
      CompleteExpiredFails, ListBookingsDueReminder, RemindersDone, EndRound, SendReminderFails,
      MarkReminderSent, ClaimBookingForAutoCharge, Crash, Restart, FailCharge, FinishCharge,
      EndCharge, TakePayment, AdminCharge, DetachPaymentMethod

LEMMA TypesKept ==
    ASSUME TypeOK, [Next]_vars
    PROVE  TypeOK'
<1>1. /\ now \in 0 .. LastHour /\ up \in BOOLEAN /\ completedAt \in 0 .. LastHour
      /\ ranAt \in 0 .. LastHour /\ slips \in 0 .. MaxSlips
  BY DEF TypeOK
<1>2. LastHour \in Nat /\ MaxSlips \in Nat
  BY LifecycleAssumption
<1>3. /\ now' = now \/ (now < LastHour /\ now' = now + 1)
      /\ completedAt' = completedAt \/ completedAt' = now
      /\ ranAt' = ranAt \/ ranAt' = now
      /\ slips' = slips \/ (slips < MaxSlips /\ slips' = slips + 1)
      /\ up' = up \/ up' \in BOOLEAN
  BY DEF Next, SchedulerStep, vars, roundVars, historyVars, Slip, Pass, CompleteExpiredBookings,
         CompleteExpiredFails, ListBookingsDueReminder, RemindersDone, EndRound, SendReminder,
         SendReminderFails, MarkReminderSent, ClaimBookingForAutoCharge, Crash, Die, Restart,
         LoadBookings, FailCharge, FinishCharge, EndCharge, TakePayment, PanicInCharge, MarkDone,
         AdminCancel, AdminCharge, Open, ClickCancel, CancelBooking, CancelStrayBooking,
         CancelAnswered, CancelFails, DetachPaymentMethod
<1>4. /\ now' \in 0 .. LastHour /\ completedAt' \in 0 .. LastHour /\ ranAt' \in 0 .. LastHour
      /\ slips' \in 0 .. MaxSlips /\ up' \in BOOLEAN
  BY <1>1, <1>2, <1>3
<1>5. QED BY <1>4, RoundsTyped, RowsTyped, ClientsTyped DEF TypeOK

(***************************************************************************)
(* The parts of the invariant.                                             *)
(***************************************************************************)
LEMMA RoundsKept ==
    ASSUME TypeOK, RoundsOK, [Next]_vars
    PROVE  RoundsOK'
<1>1. /\ scheduler \in Round /\ NoBooking \notin Bookings
      /\ now \in Nat /\ completedAt \in Nat /\ ranAt \in Nat /\ up \in BOOLEAN
      /\ scheduler.pc # "idle" => up
  BY LifecycleAssumption DEF TypeOK, RoundsOK, Resting
<1>2. CASE Pass
  BY <1>1, <1>2 DEF Pass, RoundsOK, Resting, roundVars
<1>3. CASE CompleteExpiredBookings \/ CompleteExpiredFails
  BY <1>1, <1>3 DEF CompleteExpiredBookings, CompleteExpiredFails, RoundsOK, Round
<1>4. CASE ListBookingsDueReminder \/ RemindersDone \/ EndRound
  <2>1. up' = up /\ now' = now /\ completedAt' = completedAt /\ ranAt' = ranAt
    BY <1>4 DEF ListBookingsDueReminder, RemindersDone, EndRound
  <2>2. CASE ListBookingsDueReminder
    <3>1. /\ scheduler.pc = "list" /\ scheduler'.pc = "remind"
          /\ scheduler'.current = scheduler.current
      BY <1>1, <2>2 DEF ListBookingsDueReminder, Round
    <3>2. QED BY <1>1, <2>1, <3>1 DEF RoundsOK
  <2>3. CASE RemindersDone
    BY <1>1, <2>1, <2>3 DEF RemindersDone, RoundsOK, Round
  <2>4. CASE EndRound
    BY <1>1, <2>1, <2>4 DEF EndRound, RoundsOK, Resting
  <2>5. QED BY <1>4, <2>2, <2>3, <2>4
<1>5. ASSUME NEW b \in Bookings,
             SendReminder(b) \/ SendReminderFails(b) \/ MarkReminderSent(b)
             \/ ClaimBookingForAutoCharge(b)
      PROVE  RoundsOK'
  <2>1. /\ up' = up /\ now' = now /\ completedAt' = completedAt /\ ranAt' = ranAt
        /\ scheduler.pc # "idle"
    BY <1>5 DEF SendReminder, SendReminderFails, MarkReminderSent, ClaimBookingForAutoCharge
  <2>2. CASE SendReminder(b) \/ SendReminderFails(b)
    BY <1>1, <2>1, <2>2 DEF SendReminder, SendReminderFails, RoundsOK, Round
  <2>3. CASE MarkReminderSent(b)
    BY <1>1, <2>1, <2>3 DEF MarkReminderSent, RoundsOK, Round
  <2>4. CASE ClaimBookingForAutoCharge(b)
    BY <1>1, <2>1, <2>4 DEF ClaimBookingForAutoCharge, RoundsOK, Round
  <2>5. QED BY <1>5, <2>2, <2>3, <2>4
<1>6. ASSUME NEW b \in Bookings, EndCharge(b)
      PROVE  RoundsOK'
  <2>1. CASE charger[b] = "scheduler"
    BY <1>1, <1>6, <2>1 DEF EndCharge, RoundsOK, Round, Resting
  <2>2. CASE charger[b] # "scheduler"
    BY <1>6, <2>2 DEF EndCharge, RoundsOK
  <2>3. QED BY <2>1, <2>2
<1>7. ASSUME NEW b \in Bookings, PanicInCharge(b)
      PROVE  RoundsOK'
  BY <1>1, <1>7 DEF PanicInCharge, Die, RoundsOK, Resting
<1>8. CASE Crash \/ Restart
  BY <1>1, <1>8 DEF Crash, Die, Restart, RoundsOK, Resting
<1>9. CASE UNCHANGED <<now, roundVars>>
  BY <1>9 DEF roundVars, RoundsOK
<1>10. QED BY <1>2, <1>3, <1>4, <1>5, <1>6, <1>7, <1>8, <1>9
  DEF Next, SchedulerStep, vars, FailCharge, FinishCharge, TakePayment, LoadBookings, MarkDone,
      AdminCancel, AdminCharge, Open, ClickCancel, CancelBooking, CancelStrayBooking,
      CancelAnswered, CancelFails, DetachPaymentMethod

\* No step makes a booking confirmed.
LEMMA NoneConfirmedAnew ==
    ASSUME TypeOK, [Next]_vars, NEW b \in Bookings, status'[b] = "confirmed"
    PROVE  status[b] = "confirmed"
<1>1. status \in [Bookings -> Status]
  BY DEF TypeOK
<1>2. CASE CompleteExpiredBookings
  BY <1>1, <1>2 DEF CompleteExpiredBookings
<1>3. ASSUME NEW c \in Bookings,
             ClaimBookingForAutoCharge(c) \/ AdminCharge(c) \/ FailCharge(c) \/ FinishCharge(c)
      PROVE  status[b] = "confirmed"
  BY <1>1, <1>3 DEF ClaimBookingForAutoCharge, AdminCharge, Claim, FailCharge, FinishCharge
<1>4. ASSUME NEW c \in Bookings,
             MarkDone(c) \/ AdminCancel(c) \/ CancelBooking(c) \/ CancelStrayBooking(c)
      PROVE  status[b] = "confirmed"
  BY <1>1, <1>4 DEF MarkDone, AdminCancel, CancelBooking, CancelStrayBooking
<1>5. CASE status' = status
  BY <1>5
<1>6. QED BY <1>2, <1>3, <1>4, <1>5
  DEF Next, SchedulerStep, vars, rowVars, Pass, CompleteExpiredFails, ListBookingsDueReminder,
      RemindersDone, EndRound, SendReminder, SendReminderFails, MarkReminderSent, Crash, Restart,
      LoadBookings, TakePayment, PanicInCharge, Open, ClickCancel, CancelAnswered, CancelFails,
      DetachPaymentMethod

\* A charge begins with the claim of a completed booking.
LEMMA ChargesBegin ==
    ASSUME TypeOK, [Next]_vars, NEW b \in Bookings
    PROVE  /\ charger'[b] # "none" =>
                charger[b] # "none" \/ (status[b] = "completed" /\ status'[b] = "charging")
           /\ MayHaveCharged(b)' =>
                MayHaveCharged(b) \/ (status[b] = "completed" /\ status'[b] = "charging")
<1> DEFINE Goal ==
      /\ charger'[b] # "none" =>
           charger[b] # "none" \/ (status[b] = "completed" /\ status'[b] = "charging")
      /\ charger'[b] # "none" \/ charge'[b] # "none" =>
           \/ charger[b] # "none" \/ charge[b] # "none"
           \/ status[b] = "completed" /\ status'[b] = "charging"
<1>1. /\ status \in [Bookings -> Status]
      /\ charger \in [Bookings -> {"none", "scheduler", "admin"}]
      /\ charge \in [Bookings -> {"none", "open", "taken"}]
  BY DEF TypeOK
<1>2. ASSUME NEW c \in Bookings, ClaimBookingForAutoCharge(c) \/ AdminCharge(c)
      PROVE  Goal
  BY <1>1, <1>2 DEF ClaimBookingForAutoCharge, AdminCharge, Claim
<1>3. ASSUME NEW c \in Bookings, FailCharge(c) \/ FinishCharge(c)
      PROVE  Goal
  BY <1>1, <1>3 DEF FailCharge, FinishCharge, EndCharge
<1>4. ASSUME NEW c \in Bookings, TakePayment(c)
      PROVE  Goal
  BY <1>1, <1>4 DEF TakePayment
<1>5. ASSUME NEW c \in Bookings, PanicInCharge(c)
      PROVE  Goal
  BY <1>1, <1>5 DEF PanicInCharge, Die
<1>6. ASSUME Crash PROVE Goal
  BY <1>1, <1>6 DEF Crash, Die
<1>7. ASSUME UNCHANGED chargeVars PROVE Goal
  BY <1>7 DEF chargeVars
<1>8. Goal
  BY <1>2, <1>3, <1>4, <1>5, <1>6, <1>7
  DEF Next, SchedulerStep, vars, Pass, CompleteExpiredBookings, CompleteExpiredFails,
      ListBookingsDueReminder, RemindersDone, EndRound, SendReminder, SendReminderFails,
      MarkReminderSent, Restart, LoadBookings, MarkDone, AdminCancel, Open, ClickCancel,
      CancelBooking, CancelStrayBooking, CancelAnswered, CancelFails, DetachPaymentMethod
<1>9. QED BY <1>8 DEF MayHaveCharged

LEMMA ChargersKept ==
    ASSUME TypeOK, RoundsOK, ChargersOK, [Next]_vars
    PROVE  ChargersOK'
<1> DEFINE Holds == \A b \in Bookings :
                      charger[b] = "scheduler" => scheduler.pc = "charge" /\ scheduler.current = b
<1>1. /\ scheduler \in Round /\ NoBooking \notin Bookings
      /\ charger \in [Bookings -> {"none", "scheduler", "admin"}]
      /\ Holds
  BY LifecycleAssumption DEF TypeOK, ChargersOK
<1>2. ASSUME CompleteExpiredBookings \/ CompleteExpiredFails
      PROVE  Holds'
  BY <1>1, <1>2 DEF CompleteExpiredBookings, CompleteExpiredFails, Round, chargeVars
<1>3. ASSUME ListBookingsDueReminder \/ RemindersDone \/ EndRound
      PROVE  Holds'
  BY <1>1, <1>3 DEF ListBookingsDueReminder, RemindersDone, EndRound, Round, chargeVars
<1>4. ASSUME NEW b \in Bookings,
             SendReminder(b) \/ SendReminderFails(b) \/ MarkReminderSent(b)
      PROVE  Holds'
  BY <1>1, <1>4 DEF SendReminder, SendReminderFails, MarkReminderSent, Round, chargeVars
<1>5. ASSUME NEW b \in Bookings, ClaimBookingForAutoCharge(b) \/ AdminCharge(b)
      PROVE  Holds'
  BY <1>1, <1>5 DEF ClaimBookingForAutoCharge, AdminCharge, Claim, Round, roundVars
<1>6. ASSUME NEW b \in Bookings, EndCharge(b)
      PROVE  Holds'
  <2>1. CASE charger[b] = "scheduler"
    BY <1>1, <1>6, <2>1 DEF EndCharge
  <2>2. CASE charger[b] # "scheduler"
    BY <1>1, <1>6, <2>2 DEF EndCharge
  <2>3. QED BY <2>1, <2>2
<1>7. ASSUME NEW b \in Bookings, PanicInCharge(b)
      PROVE  Holds'
  BY <1>1, <1>7 DEF PanicInCharge, Die
<1>8. ASSUME Crash PROVE Holds'
  BY <1>1, <1>8 DEF Crash, Die
<1>9. ASSUME UNCHANGED <<charger, scheduler>> PROVE Holds'
  BY <1>1, <1>9
<1>10. Holds'
  BY <1>2, <1>3, <1>4, <1>5, <1>6, <1>7, <1>8, <1>9
  DEF Next, SchedulerStep, vars, roundVars, chargeVars, Pass, Restart, FailCharge, FinishCharge,
      TakePayment, LoadBookings, MarkDone, AdminCancel, Open, ClickCancel, CancelBooking,
      CancelStrayBooking, CancelAnswered, CancelFails, DetachPaymentMethod
<1>11. ASSUME NEW b \in Bookings, MayHaveCharged(b)'
       PROVE  status'[b] # "confirmed"
  <2>1. MayHaveCharged(b) => status[b] # "confirmed"
    BY DEF ChargersOK
  <2>2. QED BY <1>11, <2>1, ChargesBegin, NoneConfirmedAnew
<1>12. QED BY <1>10, <1>11 DEF ChargersOK

\* A booking once cancelled is cancelled, or an admin has marked it done since.
LEMMA WithdrawnKept ==
    ASSUME TypeOK, [Next]_vars, NEW b \in Bookings, Withdrawn(b)
    PROVE  Withdrawn(b)' /\ (b \in revived => b \in revived')
<1>1. status \in [Bookings -> Status] /\ revived \subseteq Bookings
  BY DEF TypeOK
<1>2. CASE CompleteExpiredBookings
  BY <1>1, <1>2 DEF CompleteExpiredBookings, Withdrawn, historyVars
<1>3. ASSUME NEW c \in Bookings, ClaimBookingForAutoCharge(c) \/ AdminCharge(c)
      PROVE  Withdrawn(b)' /\ (b \in revived => b \in revived')
  BY <1>1, <1>3 DEF ClaimBookingForAutoCharge, AdminCharge, Claim, Withdrawn, historyVars
<1>4. ASSUME NEW c \in Bookings, FailCharge(c) \/ FinishCharge(c)
      PROVE  Withdrawn(b)' /\ (b \in revived => b \in revived')
  BY <1>1, <1>4 DEF FailCharge, FinishCharge, EndCharge, Withdrawn, historyVars
<1>5. ASSUME NEW c \in Bookings,
             MarkDone(c) \/ AdminCancel(c) \/ CancelBooking(c) \/ CancelStrayBooking(c)
      PROVE  Withdrawn(b)' /\ (b \in revived => b \in revived')
  BY <1>1, <1>5 DEF MarkDone, AdminCancel, CancelBooking, CancelStrayBooking, Withdrawn, historyVars
<1>6. CASE UNCHANGED <<status, revived>>
  BY <1>6 DEF Withdrawn
<1>7. QED BY <1>2, <1>3, <1>4, <1>5, <1>6
  DEF Next, SchedulerStep, vars, rowVars, historyVars, Pass, CompleteExpiredFails,
      ListBookingsDueReminder, RemindersDone, EndRound, SendReminder, SendReminderFails,
      MarkReminderSent, Crash, Restart, LoadBookings, TakePayment, PanicInCharge, Open,
      ClickCancel, CancelAnswered, CancelFails, DetachPaymentMethod

LEMMA CancellationsKept ==
    ASSUME TypeOK, ChargersOK, CancellationsOK, [Next]_vars
    PROVE  CancellationsOK'
<1>1. /\ page \in [Bookings -> Page] /\ told \subseteq Bookings
      /\ status \in [Bookings -> Status]
      /\ card \in [Bookings -> {"attached", "detached"}]
      /\ charger \in [Bookings -> {"none", "scheduler", "admin"}]
  BY DEF TypeOK
<1>2. ASSUME NEW c \in Bookings, c \in told' \/ page'[c].request = "done"
      PROVE  c \in told \/ page[c].request = "done" \/ status'[c] = "cancelled"
  <2>1. ASSUME NEW b \in Bookings, \E screen \in {"view", "cancel"} : Open(b, screen)
        PROVE  c \in told \/ page[c].request = "done" \/ status'[c] = "cancelled"
    BY <1>1, <1>2, <2>1 DEF Open, rowVars
  <2>2. ASSUME NEW b \in Bookings,
               ClickCancel(b) \/ CancelBooking(b) \/ CancelAnswered(b) \/ CancelFails(b)
        PROVE  c \in told \/ page[c].request = "done" \/ status'[c] = "cancelled"
    <3>1. page[b] \in Page /\ page[c] \in Page
      BY <1>1
    <3>2. QED BY <1>1, <1>2, <2>2, <3>1
      DEF ClickCancel, CancelBooking, CancelAnswered, CancelFails, Page
  <2>3. CASE UNCHANGED <<page, told>>
    BY <1>2, <2>3
  <2>4. QED BY <2>1, <2>2, <2>3
    DEF Next, SchedulerStep, vars, clientVars, Pass, CompleteExpiredBookings,
        CompleteExpiredFails, ListBookingsDueReminder, RemindersDone, EndRound, SendReminder, SendReminderFails,
        MarkReminderSent, ClaimBookingForAutoCharge, Crash, Restart, LoadBookings, FailCharge,
        FinishCharge, EndCharge, TakePayment, PanicInCharge, MarkDone, AdminCancel, AdminCharge,
        CancelStrayBooking, DetachPaymentMethod
<1>3. ASSUME NEW c \in Bookings, c \in detaching' \/ card'[c] = "detached"
      PROVE  \/ c \in detaching \/ card[c] = "detached"
             \/ status[c] = "confirmed" /\ status'[c] = "cancelled" /\ charger' = charger
  <2>1. ASSUME NEW b \in Bookings,
               CancelBooking(b) \/ CancelStrayBooking(b) \/ DetachPaymentMethod(b)
        PROVE  \/ c \in detaching \/ card[c] = "detached"
               \/ status[c] = "confirmed" /\ status'[c] = "cancelled" /\ charger' = charger
    BY <1>1, <1>3, <2>1 DEF CancelBooking, CancelStrayBooking, DetachPaymentMethod, chargeVars
  <2>2. CASE detaching' \subseteq detaching /\ card' = card
    BY <1>3, <2>2
  <2>3. QED BY <2>1, <2>2
    DEF Next, SchedulerStep, vars, rowVars, Pass, CompleteExpiredBookings,
        CompleteExpiredFails, ListBookingsDueReminder, RemindersDone, EndRound, SendReminder, SendReminderFails,
        MarkReminderSent, ClaimBookingForAutoCharge, Crash, Die, Restart, LoadBookings,
        FailCharge, FinishCharge, EndCharge, TakePayment, PanicInCharge, MarkDone, AdminCancel,
        AdminCharge, Open, ClickCancel, CancelAnswered, CancelFails
<1>5. ASSUME NEW c \in Bookings
      PROVE  /\ c \in told' \/ page'[c].request = "done" => Withdrawn(c)'
             /\ c \in detaching' \/ card'[c] = "detached" =>
                  Withdrawn(c)' /\ (charger'[c] # "none" => c \in revived')
  <2>1. Withdrawn(c) => Withdrawn(c)' /\ (c \in revived => c \in revived')
    BY WithdrawnKept
  <2>2. status'[c] = "cancelled" => Withdrawn(c)'
    BY DEF Withdrawn
  <2>3. status[c] = "completed" /\ Withdrawn(c) => c \in revived
    BY DEF Withdrawn
  <2>4. charger[c] # "none" => status[c] # "confirmed"
    BY DEF ChargersOK, MayHaveCharged
  <2>5. c \in told' \/ page'[c].request = "done" => Withdrawn(c)'
    BY <1>2, <2>1, <2>2 DEF CancellationsOK
  <2>6. c \in detaching' \/ card'[c] = "detached" =>
          Withdrawn(c)' /\ (charger'[c] # "none" => c \in revived')
    BY <1>3, <2>1, <2>2, <2>3, <2>4, ChargesBegin DEF CancellationsOK
  <2>7. QED BY <2>5, <2>6
<1>6. QED BY <1>5 DEF CancellationsOK

\* A charge does not begin on a cancelled booking, and only an admin cancels one whose charge
\* has begun.
LEMMA CrossingsKept ==
    ASSUME TypeOK, ChargersOK, CrossingsOK, [Next]_vars
    PROVE  CrossingsOK'
<1>1. status \in [Bookings -> Status]
  BY DEF TypeOK
<1>2. ASSUME NEW c \in Bookings, status'[c] = "cancelled"
      PROVE  \/ status[c] = "cancelled"
             \/ status[c] = "confirmed"
             \/ MayHaveCharged(c) => c \in crossed'
  <2>1. CASE CompleteExpiredBookings
    BY <1>1, <1>2, <2>1 DEF CompleteExpiredBookings
  <2>2. ASSUME NEW b \in Bookings,
               ClaimBookingForAutoCharge(b) \/ AdminCharge(b) \/ FailCharge(b)
               \/ FinishCharge(b) \/ MarkDone(b)
        PROVE  status[c] = "cancelled"
    BY <1>1, <1>2, <2>2
    DEF ClaimBookingForAutoCharge, AdminCharge, Claim, FailCharge, FinishCharge, MarkDone
  <2>3. ASSUME NEW b \in Bookings, AdminCancel(b)
        PROVE  status[c] = "cancelled" \/ (MayHaveCharged(c) => c \in crossed')
    BY <1>1, <1>2, <2>3 DEF AdminCancel
  <2>4. ASSUME NEW b \in Bookings, CancelBooking(b) \/ CancelStrayBooking(b)
        PROVE  status[c] = "cancelled" \/ status[c] = "confirmed"
    BY <1>1, <1>2, <2>4 DEF CancelBooking, CancelStrayBooking
  <2>5. CASE status' = status
    BY <1>2, <2>5
  <2>6. QED BY <2>1, <2>2, <2>3, <2>4, <2>5
    DEF Next, SchedulerStep, vars, rowVars, Pass, CompleteExpiredFails, ListBookingsDueReminder,
        RemindersDone, EndRound, SendReminder, SendReminderFails, MarkReminderSent, Crash,
        Restart, LoadBookings, TakePayment, PanicInCharge, Open, ClickCancel, CancelAnswered,
        CancelFails, DetachPaymentMethod
<1>3. revived \subseteq revived' /\ crossed \subseteq crossed'
  BY DEF Next, SchedulerStep, vars, historyVars, Pass, CompleteExpiredBookings,
         CompleteExpiredFails, ListBookingsDueReminder, RemindersDone, EndRound, SendReminder,
         SendReminderFails, MarkReminderSent, ClaimBookingForAutoCharge, Crash, Restart,
         LoadBookings, FailCharge, FinishCharge, EndCharge, TakePayment, PanicInCharge, MarkDone,
         AdminCancel, AdminCharge, Open, ClickCancel, CancelBooking, CancelStrayBooking,
         CancelAnswered, CancelFails, DetachPaymentMethod
<1>4. ASSUME NEW c \in Bookings, status'[c] = "cancelled", MayHaveCharged(c)'
      PROVE  c \in revived' \cup crossed'
  <2>1. MayHaveCharged(c)
    BY <1>4, ChargesBegin
  <2>2. status[c] # "confirmed"
    BY <2>1 DEF ChargersOK
  <2>3. status[c] = "cancelled" => c \in revived \cup crossed
    BY <2>1 DEF CrossingsOK
  <2>4. QED BY <1>2, <1>3, <1>4, <2>1, <2>2, <2>3
<1>5. QED BY <1>4 DEF CrossingsOK

\* A panic is of a booking that an admin brought back: its card was detached.
LEMMA PanicsKept ==
    ASSUME TypeOK, CancellationsOK, PanicsAreOfRevivedBookings, [Next]_vars
    PROVE  PanicsAreOfRevivedBookings'
<1>1. ASSUME NEW b \in Bookings, PanicInCharge(b)
      PROVE  PanicsAreOfRevivedBookings'
  BY <1>1 DEF PanicInCharge, CancellationsOK, PanicsAreOfRevivedBookings
<1>2. ASSUME NEW b \in Bookings, MarkDone(b)
      PROVE  PanicsAreOfRevivedBookings'
  BY <1>2 DEF MarkDone, PanicsAreOfRevivedBookings
<1>3. CASE UNCHANGED <<panicked, revived>>
  BY <1>3 DEF PanicsAreOfRevivedBookings
<1>4. QED BY <1>1, <1>2, <1>3
  DEF Next, SchedulerStep, vars, historyVars, Pass, CompleteExpiredBookings,
      CompleteExpiredFails, ListBookingsDueReminder, RemindersDone, EndRound, SendReminder,
      SendReminderFails, MarkReminderSent, ClaimBookingForAutoCharge, Crash, Restart,
      LoadBookings, FailCharge, FinishCharge, EndCharge, TakePayment, AdminCancel, AdminCharge,
      Open, ClickCancel, CancelBooking, CancelStrayBooking, CancelAnswered, CancelFails,
      DetachPaymentMethod

LEMMA SessionsKept ==
    ASSUME TypeOK, SessionsAreClosed, [Next]_vars
    PROVE  SessionsAreClosed'
<1>1. CASE CompleteExpiredBookings
  BY <1>1 DEF CompleteExpiredBookings, Expired, SessionsAreClosed, TypeOK
<1>2. CASE completedAt' = completedAt
  BY <1>2, NoneConfirmedAnew DEF SessionsAreClosed
<1>3. QED BY <1>1, <1>2
  DEF Next, SchedulerStep, vars, roundVars, Pass, CompleteExpiredFails,
      ListBookingsDueReminder, RemindersDone, EndRound, SendReminder, SendReminderFails,
      MarkReminderSent, ClaimBookingForAutoCharge, Crash, Restart, LoadBookings, FailCharge,
      FinishCharge, EndCharge, TakePayment, PanicInCharge, MarkDone, AdminCancel, AdminCharge,
      Open, ClickCancel, CancelBooking, CancelStrayBooking, CancelAnswered, CancelFails,
      DetachPaymentMethod

\* Outside the scheduler's round nothing of the reminders changes, unless the process dies.
LEMMA Elsewhere ==
    ASSUME TypeOK, ChargersOK, [Next]_vars, ~SchedulerStep, ~Pass
    PROVE  /\ UNCHANGED <<now, reminderSent, mails, ranAt>>
           /\ \/ UNCHANGED <<up, scheduler, slips, panicked>>
              \/ scheduler' = Resting /\ slips' = slips + 1
              \/ scheduler' = Resting /\ slips' = slips /\ scheduler.pc = "charge"
                 /\ panicked' # {}
              \/ /\ scheduler.pc = "charge"
                 /\ scheduler' = [scheduler EXCEPT !.current = NoBooking]
                 /\ UNCHANGED <<up, slips, panicked>>
              \/ up' = TRUE /\ UNCHANGED <<scheduler, slips, panicked>>
              \/ UNCHANGED <<up, scheduler, slips>> /\ panicked' # {}
<1>1. ASSUME NEW b \in Bookings
      PROVE  charger[b] = "scheduler" => scheduler.pc = "charge" /\ scheduler.current = b
  BY DEF ChargersOK
<1>2. QED BY <1>1
  DEF Next, vars, rowVars, roundVars, clientVars, historyVars, Slip, Die, Crash, Restart,
      LoadBookings, FailCharge, FinishCharge, EndCharge, TakePayment, PanicInCharge, MarkDone,
      AdminCancel, AdminCharge, Open, ClickCancel, CancelBooking, CancelStrayBooking,
      CancelAnswered, CancelFails, DetachPaymentMethod

LEMMA MailsKept ==
    ASSUME TypeOK, RoundsOK, ChargersOK, MailsOK, [Next]_vars
    PROVE  MailsOK'
<1>1. /\ scheduler \in Round /\ NoBooking \notin Bookings
      /\ reminderSent \in [Bookings -> BOOLEAN]
      /\ mails \in [Bookings -> Nat] /\ slips \in Nat
  BY LifecycleAssumption DEF TypeOK
<1>2. CASE CompleteExpiredBookings \/ CompleteExpiredFails \/ RemindersDone
  BY <1>1, <1>2
  DEF CompleteExpiredBookings, CompleteExpiredFails, Slip, RemindersDone, RoundsOK, MailsOK,
      InHand, Round, rowVars, historyVars
<1>3. CASE ListBookingsDueReminder
  <2>1. \A b \in scheduler'.due : b \in Bookings /\ ~reminderSent[b]
    <3>1. scheduler.due = {}
      BY <1>3 DEF ListBookingsDueReminder, RoundsOK
    <3>2. scheduler'.due \in {scheduler.due, {b \in Bookings : DueReminder(b)}}
      BY <1>1, <1>3 DEF ListBookingsDueReminder, Round
    <3>3. \A b \in Bookings : DueReminder(b) => ~reminderSent[b]
      BY DEF DueReminder
    <3>4. QED BY <3>1, <3>2, <3>3
  <2>2. UNCHANGED <<reminderSent, mails>> /\ slips' \in {slips, slips + 1}
    BY <1>3 DEF ListBookingsDueReminder, Slip, rowVars
  <2>3. scheduler.current = NoBooking /\ scheduler'.current = NoBooking
    <3>1. scheduler.current = NoBooking
      BY <1>3 DEF ListBookingsDueReminder, RoundsOK
    <3>2. scheduler'.current = scheduler.current
      BY <1>1, <1>3 DEF ListBookingsDueReminder, Round
    <3>3. QED BY <3>1, <3>2
  <2>4. \A b \in Bookings : ~InHand(b) /\ ~InHand(b)'
    BY <1>1, <2>3 DEF InHand
  <2>5. QED BY <1>1, <2>1, <2>2, <2>4 DEF MailsOK
<1>4. CASE EndRound
  BY <1>1, <1>4 DEF EndRound, Resting, MailsOK, InHand, rowVars, historyVars
<1>5. ASSUME NEW b \in Bookings, SendReminder(b)
      PROVE  MailsOK'
  <2>1. /\ UNCHANGED <<reminderSent, slips>>
        /\ scheduler'.due = scheduler.due
        /\ InHand(b)' /\ ~InHand(b)
        /\ \A c \in Bookings \ {b} : ~InHand(c) /\ ~InHand(c)'
        /\ mails' = [mails EXCEPT ![b] = @ + 1]
    BY <1>1, <1>5 DEF SendReminder, InHand, Round, rowVars
  <2>2. mails[b] <= slips
    BY <1>1, <1>5, <2>1 DEF SendReminder, MailsOK
  <2>3. QED BY <1>1, <2>1, <2>2 DEF MailsOK
<1>6. ASSUME NEW b \in Bookings, SendReminderFails(b)
      PROVE  MailsOK'
  BY <1>1, <1>6 DEF SendReminderFails, Slip, MailsOK, InHand, Round, rowVars
<1>7. ASSUME NEW b \in Bookings, MarkReminderSent(b)
      PROVE  MailsOK'
  <2>1. /\ scheduler'.due = scheduler.due \ {b}
        /\ InHand(b)
        /\ \A c \in Bookings \ {b} : ~InHand(c)
        /\ mails' = mails
        /\ \/ reminderSent' = [reminderSent EXCEPT ![b] = TRUE] /\ slips' = slips
           \/ reminderSent' = reminderSent /\ slips' = slips + 1
    BY <1>1, <1>7 DEF MarkReminderSent, Slip, InHand, Round
  <2>2. scheduler.due \subseteq Bookings
    BY <1>1 DEF Round
  <2>3. QED BY <1>1, <2>1, <2>2 DEF MailsOK
<1>8. ASSUME NEW b \in Bookings, ClaimBookingForAutoCharge(b)
      PROVE  MailsOK'
  BY <1>1, <1>8 DEF ClaimBookingForAutoCharge, MailsOK, InHand, Round, historyVars
<1>9. CASE Pass
  BY <1>9 DEF Pass, MailsOK, InHand, rowVars, roundVars, historyVars
<1>10. CASE ~SchedulerStep /\ ~Pass
  <2>1. UNCHANGED <<reminderSent, mails>> /\ slips' \in {slips, slips + 1}
    BY <1>10, Elsewhere
  <2>2. scheduler'.due \subseteq scheduler.due
    <3>1. Resting.due = {} /\ [scheduler EXCEPT !.current = NoBooking].due = scheduler.due
      BY <1>1 DEF Resting, Round
    <3>2. scheduler' \in {scheduler, Resting, [scheduler EXCEPT !.current = NoBooking]}
      BY <1>10, Elsewhere
    <3>3. QED BY <3>1, <3>2
  <2>3. ASSUME NEW b \in Bookings, ~InHand(b)', InHand(b)
        PROVE  slips' = slips + 1
    BY <1>1, <1>10, <2>3, Elsewhere DEF InHand, Round
  <2>4. QED BY <1>1, <2>1, <2>2, <2>3 DEF MailsOK
<1>11. QED BY <1>2, <1>3, <1>4, <1>5, <1>6, <1>7, <1>8, <1>9, <1>10 DEF SchedulerStep

\* What has not failed after a step had not failed before it.
LEMMA FailuresStay ==
    ASSUME TypeOK, [Next]_vars, NothingFailed'
    PROVE  NothingFailed /\ slips' = slips
<1>1. slips \in Nat
  BY LifecycleAssumption DEF TypeOK
<1>2. slips' \in {slips, slips + 1} /\ panicked \subseteq panicked'
  BY <1>1
  DEF Next, SchedulerStep, vars, historyVars, Slip, Pass, CompleteExpiredBookings,
      CompleteExpiredFails, ListBookingsDueReminder, RemindersDone, EndRound, SendReminder,
      SendReminderFails, MarkReminderSent, ClaimBookingForAutoCharge, Crash, Restart,
      LoadBookings, FailCharge, FinishCharge, EndCharge, TakePayment, PanicInCharge, MarkDone,
      AdminCancel, AdminCharge, Open, ClickCancel, CancelBooking, CancelStrayBooking,
      CancelAnswered, CancelFails, DetachPaymentMethod
<1>3. QED BY <1>1, <1>2 DEF NothingFailed

LEMMA ElsewhereUnfailed ==
    ASSUME TypeOK, ChargersOK, [Next]_vars, ~SchedulerStep, ~Pass, NothingFailed', up
    PROVE  /\ up'
           /\ \/ scheduler' = scheduler
              \/ /\ scheduler.pc = "charge"
                 /\ scheduler' = [scheduler EXCEPT !.current = NoBooking]
<1>1. slips \in Nat /\ slips' = slips /\ panicked' = {}
  BY LifecycleAssumption, FailuresStay DEF TypeOK, NothingFailed
<1>2. slips' # slips + 1
  BY <1>1
<1>3. QED BY <1>1, <1>2, Elsewhere

LEMMA MarksKept ==
    ASSUME TypeOK, RoundsOK, ChargersOK, MailsOK, MarksAreMails, [Next]_vars
    PROVE  MarksAreMails'
<1> SUFFICES ASSUME NothingFailed'
             PROVE  up' /\ \A b \in Bookings : ~ShortNotice(b) =>
                              mails'[b] = IF reminderSent'[b] \/ InHand(b)' THEN 1 ELSE 0
  BY DEF MarksAreMails, ShortNotice
<1>1. /\ scheduler \in Round /\ NoBooking \notin Bookings
      /\ reminderSent \in [Bookings -> BOOLEAN]
      /\ mails \in [Bookings -> Nat] /\ slips \in Nat
  BY LifecycleAssumption DEF TypeOK
<1>2. /\ up /\ slips' = slips /\ panicked' = {}
      /\ \A b \in Bookings : ~ShortNotice(b) =>
           mails[b] = IF reminderSent[b] \/ InHand(b) THEN 1 ELSE 0
  BY FailuresStay DEF MarksAreMails, NothingFailed
<1>14. CASE CompleteExpiredFails
  BY <1>1, <1>2, <1>14 DEF CompleteExpiredFails, Slip
<1>3. CASE Pass \/ CompleteExpiredBookings
  BY <1>1, <1>2, <1>3
  DEF Pass, CompleteExpiredBookings, InHand, Round, rowVars, roundVars, historyVars
<1>4. CASE ListBookingsDueReminder \/ RemindersDone
  <2>1. UNCHANGED <<up, reminderSent, mails>>
    BY <1>4 DEF ListBookingsDueReminder, RemindersDone, rowVars, historyVars
  <2>2. \A b \in Bookings : ~InHand(b) /\ ~InHand(b)'
    BY <1>1, <1>4 DEF ListBookingsDueReminder, RemindersDone, RoundsOK, InHand, Round
  <2>3. QED BY <1>2, <2>1, <2>2
<1>5. CASE EndRound
  BY <1>1, <1>2, <1>5 DEF EndRound, Resting, InHand, rowVars, historyVars
<1>6. ASSUME NEW b \in Bookings, SendReminder(b)
      PROVE  up' /\ \A c \in Bookings : ~ShortNotice(c) =>
                       mails'[c] = IF reminderSent'[c] \/ InHand(c)' THEN 1 ELSE 0
  <2>1. /\ UNCHANGED <<up, reminderSent>>
        /\ ~reminderSent[b] /\ InHand(b)' /\ ~InHand(b)
        /\ \A c \in Bookings \ {b} : ~InHand(c) /\ ~InHand(c)'
        /\ mails' = [mails EXCEPT ![b] = @ + 1]
    BY <1>1, <1>6 DEF SendReminder, InHand, Round, MailsOK, rowVars
  <2>2. QED BY <1>1, <1>2, <2>1
<1>7. ASSUME NEW b \in Bookings, MarkReminderSent(b)
      PROVE  up' /\ \A c \in Bookings : ~ShortNotice(c) =>
                       mails'[c] = IF reminderSent'[c] \/ InHand(c)' THEN 1 ELSE 0
  <2>1. /\ UNCHANGED <<up, mails>>
        /\ InHand(b)
        /\ \A c \in Bookings : c # b => ~InHand(c)
        /\ \A c \in Bookings : ~InHand(c)'
        /\ reminderSent' = [reminderSent EXCEPT ![b] = TRUE]
    BY <1>1, <1>2, <1>7 DEF MarkReminderSent, Slip, InHand, Round
  <2>2. QED BY <1>1, <1>2, <2>1
<1>8. ASSUME NEW b \in Bookings, SendReminderFails(b)
      PROVE  FALSE
  BY <1>1, <1>2, <1>8 DEF SendReminderFails, Slip
<1>9. ASSUME NEW b \in Bookings, ClaimBookingForAutoCharge(b)
      PROVE  up' /\ \A c \in Bookings : ~ShortNotice(c) =>
                       mails'[c] = IF reminderSent'[c] \/ InHand(c)' THEN 1 ELSE 0
  BY <1>1, <1>2, <1>9 DEF ClaimBookingForAutoCharge, InHand, Round, historyVars
<1>10. CASE ~SchedulerStep /\ ~Pass
  <2>1. UNCHANGED <<reminderSent, mails>> /\ up'
    BY <1>2, <1>10, Elsewhere, ElsewhereUnfailed
  <2>2. \A b \in Bookings : InHand(b)' <=> InHand(b)
    <3>1. scheduler' = scheduler
          \/ (scheduler.pc = "charge" /\ scheduler' = [scheduler EXCEPT !.current = NoBooking])
      BY <1>2, <1>10, ElsewhereUnfailed
    <3>2. QED BY <1>1, <3>1 DEF InHand, Round
  <2>3. QED BY <1>2, <2>1, <2>2
<1>11. QED BY <1>3, <1>4, <1>5, <1>6, <1>7, <1>8, <1>9, <1>10, <1>14 DEF SchedulerStep

LEMMA RemindersAheadKept ==
    ASSUME TypeOK, RoundsOK, ChargersOK, MarksAreMails, RemindersAhead, [Next]_vars
    PROVE  RemindersAhead'
<1> DEFINE Ahead(b) ==
      /\ now <= StartOf[b]
      /\ now = StartOf[b] /\ ranAt = now =>
           scheduler.pc = "list" \/ (scheduler.pc = "remind" /\ b \in scheduler.due)
<1> SUFFICES ASSUME NothingFailed', NEW b \in Bookings, Unreminded(b)'
             PROVE  Ahead(b)'
  BY DEF RemindersAhead
<1>1. /\ scheduler \in Round /\ NoBooking \notin Bookings
      /\ reminderSent \in [Bookings -> BOOLEAN]
      /\ now \in Nat /\ ranAt \in Nat /\ ranAt <= now /\ slips \in Nat
      /\ StartOf[b] \in Nat /\ ReminderHours \in Nat \ {0}
  BY LifecycleAssumption DEF TypeOK, RoundsOK
<1>2. up /\ slips' = slips /\ panicked' = {}
  BY FailuresStay DEF MarksAreMails, NothingFailed
<1>3. reminderSent[b] => reminderSent'[b]
  <2>1. ASSUME NEW c \in Bookings, MarkReminderSent(c)
        PROVE  reminderSent[b] => reminderSent'[b]
    BY <1>1, <2>1 DEF MarkReminderSent
  <2>2. CASE reminderSent' = reminderSent
    BY <2>2
  <2>3. QED BY <2>1, <2>2
    DEF Next, SchedulerStep, vars, rowVars, Pass, CompleteExpiredBookings,
        CompleteExpiredFails, ListBookingsDueReminder, RemindersDone, EndRound, SendReminder,
        SendReminderFails, ClaimBookingForAutoCharge, Crash, Restart, LoadBookings, FailCharge,
        FinishCharge, EndCharge, TakePayment, PanicInCharge, MarkDone, AdminCancel, AdminCharge,
        Open, ClickCancel, CancelBooking, CancelStrayBooking, CancelAnswered, CancelFails,
        DetachPaymentMethod
<1>4. Unreminded(b)
  BY <1>3, NoneConfirmedAnew DEF Unreminded, ShortNotice
<1>5. Ahead(b)
  BY <1>4, FailuresStay DEF RemindersAhead
<1>6. StartOf[b] >= ReminderHours
  BY <1>1, <1>4 DEF Unreminded, ShortNotice
<1>7. CASE Pass
  <2>1. scheduler = Resting /\ ranAt = now /\ now' = now + 1 /\ ranAt' = now
    BY <1>2, <1>7 DEF Pass, roundVars
  <2>2. now # StartOf[b]
    BY <1>5, <2>1 DEF Resting
  <2>3. QED BY <1>1, <1>5, <2>1, <2>2
<1>16. slips' # slips + 1
  BY <1>1, <1>2
<1>8. CASE CompleteExpiredBookings \/ CompleteExpiredFails
  <2>1. CompleteExpiredBookings
    BY <1>8, <1>16 DEF CompleteExpiredFails, Slip
  <2>2. QED BY <1>1, <1>5, <2>1 DEF CompleteExpiredBookings, Round
<1>9. CASE ListBookingsDueReminder
  <2>1. now = StartOf[b] => DueReminder(b)
    BY <1>1, <1>4, <1>6 DEF DueReminder, Unreminded
  <2>2. now' = now /\ ranAt' = ranAt
    BY <1>9 DEF ListBookingsDueReminder
  <2>3. scheduler' = [scheduler EXCEPT !.pc = "remind", !.due = {c \in Bookings : DueReminder(c)}]
    BY <1>9, <1>16 DEF ListBookingsDueReminder, Slip
  <2>5. scheduler'.pc = "remind" /\ scheduler'.due = {c \in Bookings : DueReminder(c)}
    BY <1>1, <2>3 DEF Round
  <2>6. now = StartOf[b] => b \in scheduler'.due
    BY <2>1, <2>5
  <2>4. QED BY <1>5, <2>2, <2>5, <2>6
<1>10. CASE RemindersDone \/ EndRound
  BY <1>1, <1>5, <1>10 DEF RemindersDone, EndRound, Round
<1>11. ASSUME NEW c \in Bookings, SendReminder(c) \/ ClaimBookingForAutoCharge(c)
       PROVE  Ahead(b)'
  BY <1>1, <1>5, <1>11 DEF SendReminder, ClaimBookingForAutoCharge, Round
<1>12. ASSUME NEW c \in Bookings, SendReminderFails(c)
       PROVE  Ahead(b)'
  BY <1>1, <1>2, <1>12 DEF SendReminderFails, Slip
<1>13. ASSUME NEW c \in Bookings, MarkReminderSent(c)
       PROVE  Ahead(b)'
  <2>1. reminderSent' = [reminderSent EXCEPT ![c] = TRUE]
    BY <1>1, <1>2, <1>13 DEF MarkReminderSent, Slip
  <2>2. b # c
    BY <1>1, <2>1 DEF Unreminded
  <2>3. QED BY <1>1, <1>5, <1>13, <2>2 DEF MarkReminderSent, Round
<1>14. CASE ~SchedulerStep /\ ~Pass
  <2>1. scheduler' = scheduler
        \/ (scheduler.pc = "charge" /\ scheduler' = [scheduler EXCEPT !.current = NoBooking])
    BY <1>2, <1>14, ElsewhereUnfailed
  <2>2. UNCHANGED <<now, ranAt>>
    BY <1>14, Elsewhere
  <2>3. QED BY <1>1, <1>5, <2>1, <2>2 DEF Round
<1>15. QED BY <1>7, <1>8, <1>9, <1>10, <1>11, <1>12, <1>13, <1>14 DEF SchedulerStep

(***************************************************************************)
(* The theorems.                                                           *)
(***************************************************************************)
LEMMA InvariantAtStart == ASSUME Init PROVE LifecycleInv
<1>1. /\ StartOf \in [Bookings -> Nat] /\ EndOf \in [Bookings -> Nat]
      /\ ReminderHours \in Nat \ {0} /\ LastHour \in Nat /\ MaxSlips \in Nat
      /\ NoBooking \notin Bookings
  BY LifecycleAssumption
<1>2. Closed \in Page
  BY DEF Closed, Page, Status
<1>3. TypeOK
  BY <1>1, <1>2, RestingIsRound DEF Init, TypeOK, ShortNotice, Status
<1>4. RoundsOK /\ ChargersOK /\ CancellationsOK /\ CrossingsOK /\ MailsOK
  BY <1>1 DEF Init, RoundsOK, ChargersOK, MayHaveCharged, CancellationsOK, CrossingsOK, MailsOK,
              InHand, Resting, Closed
<1>5. MarksAreMails /\ RemindersAhead
  <2>1. ASSUME NEW b \in Bookings, ~ShortNotice(b)
        PROVE  ~reminderSent[b] /\ 0 < StartOf[b]
    <3>1. reminderSent[b] = ShortNotice(b)
      BY Zenon DEF Init
    <3>2. 0 < StartOf[b]
      BY <1>1, <2>1 DEF ShortNotice
    <3>3. QED BY <2>1, <3>1, <3>2
  <2>2. \A b \in Bookings : mails[b] = 0 /\ ~InHand(b)
    BY DEF Init, InHand, Resting
  <2>3. up /\ now = 0
    BY DEF Init
  <2>4. MarksAreMails
    BY <2>1, <2>2, <2>3 DEF MarksAreMails
  <2>5. QED BY <1>1, <2>1, <2>3, <2>4 DEF RemindersAhead, Unreminded
<1>6. SessionsAreClosed /\ PanicsAreOfRevivedBookings
  BY <1>1 DEF Init, SessionsAreClosed, PanicsAreOfRevivedBookings
<1>7. QED BY <1>3, <1>4, <1>5, <1>6 DEF LifecycleInv

LEMMA InvariantKept == ASSUME LifecycleInv, [Next]_vars PROVE LifecycleInv'
BY TypesKept, RoundsKept, ChargersKept, CancellationsKept, CrossingsKept, MailsKept, MarksKept,
   RemindersAheadKept, SessionsKept, PanicsKept
DEF LifecycleInv

LEMMA Invariant == Spec => []LifecycleInv
BY InvariantAtStart, InvariantKept, PTL DEF Spec

\* Every variable stays in its type, whatever the scheduler, the admin and the customers do.
THEOREM TypeCorrect == Spec => []TypeOK
<1>1. LifecycleInv => TypeOK
  BY DEF LifecycleInv
<1>2. QED BY <1>1, Invariant, PTL

\* A session that a finished round found over is not open: completeExpiredBookings comes
\* first in a round, and nothing confirms a booking again.
THEOREM EndedSessionsAreClosed == Spec => []SessionsAreClosed
<1>1. LifecycleInv => SessionsAreClosed
  BY DEF LifecycleInv
<1>2. QED BY <1>1, Invariant, PTL

\* Who was told that no charge will be made, after a cancel or on opening the page of a
\* cancelled booking, is and was not charged, unless an admin has brought the booking back or
\* had cancelled it across its charge (handleCancelBooking, CancelPage, the claims of both
\* charge paths and what Stripe may still execute, the status PATCH).
THEOREM CancelledAreNotCharged == Spec => []NoChargeAfterCancel
<1>1. ASSUME LifecycleInv PROVE NoChargeAfterCancel
  <2> SUFFICES ASSUME NEW b \in told, charge[b] = "taken"
               PROVE  b \in revived \cup crossed
    BY DEF NoChargeAfterCancel
  <2>1. b \in Bookings /\ MayHaveCharged(b)
    BY <1>1 DEF LifecycleInv, TypeOK, MayHaveCharged
  <2>2. status[b] = "cancelled" \/ b \in revived
    BY <1>1, <2>1 DEF LifecycleInv, CancellationsOK, Withdrawn
  <2>3. QED BY <1>1, <2>1, <2>2 DEF LifecycleInv, CrossingsOK
<1>2. QED BY <1>1, Invariant, PTL

\* ChargePaymentMethod meets a card without a customer only for such a booking.
THEOREM OnlyRevivedPanic == Spec => []PanicsAreOfRevivedBookings
<1>1. LifecycleInv => PanicsAreOfRevivedBookings
  BY DEF LifecycleInv
<1>2. QED BY <1>1, Invariant, PTL

\* At most one reminder is mailed beyond those whose mark was lost, whatever crashes
\* (sendReminders, which mails before it marks).
THEOREM OneReminder == Spec => []RemindersAreNotRepeated
<1>1. LifecycleInv => RemindersAreNotRepeated
  BY DEF LifecycleInv, MailsOK, RemindersAreNotRepeated
<1>2. QED BY <1>1, Invariant, PTL

\* When nothing fails, one is: the rounds of every hour, ListBookingsDueReminder and the
\* mark that a create sets leave no booking between them.
THEOREM NoReminderIsForgotten == Spec => []RemindersAreSent
<1>1. LifecycleInv => RemindersAreSent
  <2> SUFFICES ASSUME LifecycleInv, NothingFailed,
                      NEW b \in Bookings, ~ShortNotice(b), status[b] = "confirmed",
                      StartOf[b] < now
               PROVE  mails[b] = 1
    BY DEF RemindersAreSent, NothingFailed
  <2>1. now \in Nat /\ StartOf[b] \in Nat
    BY LifecycleAssumption DEF LifecycleInv, TypeOK
  <2>2. reminderSent[b]
    BY <2>1 DEF LifecycleInv, RemindersAhead, Unreminded
  <2>3. QED BY <2>2 DEF LifecycleInv, MarksAreMails
<1>2. QED BY <1>1, Invariant, PTL

=============================================================================
