------------------------------ MODULE BookingPage ------------------------------
(***************************************************************************)
(* The public booking page (BookingPage, DatePicker, TimeSlotPicker): what *)
(* the customer has chosen, the requests the page has under way, whose     *)
(* answers come in any order or not at all, and the submission that goes   *)
(* through prepare, the card and create while the page stays clickable.    *)
(*                                                                         *)
(* Times of a day are ticks of half an hour, so that a window need not     *)
(* begin on the hour.  The server is what the page sees of it: the hours   *)
(* it offers to an answer, what is busy, and the creates it has received.  *)
(***************************************************************************)
EXTENDS Naturals, FiniteSets

CONSTANTS
    Dates,           \* the days of the strip, in order
    LastTick,        \* bound: ticks are 0 .. LastTick
    Windows,         \* Windows[a][d]: the bookable windows of day d for answer a
    MinHours,
    MaxHours,
    Blocks,          \* what others may come to book or close
    MaxChanges,      \* bound: choices of a day or an answer, and reloads
    MaxSubmissions   \* bound: submissions, over all loads of the page

\* isNewUser: null, true and false.
Answers == {"unanswered", "new", "returning"}

Tick == 0 .. LastTick

Span == [from : Tick, to : Tick]

NoDate == 0

ASSUME BookingPageAssumption ==
    /\ Dates \subseteq Nat \ {NoDate}
    /\ Dates # {}
    /\ LastTick \in Nat
    /\ Windows \in [Answers -> [Dates -> SUBSET Span]]
    /\ MinHours \in Nat \ {0}
    /\ MaxHours \in Nat
    /\ Blocks \subseteq [date : Dates, from : Tick, to : Tick]
    /\ MaxChanges \in Nat
    /\ MaxSubmissions \in Nat

VARIABLES
    settings,       \* loading, or whether the gate question is asked
    date,
    answer,
    availability,   \* the slots of the day shown
    selection,      \* selectedStart and selectedEnd
    availableDates, \* the days that are not greyed out
    slotRequests,   \* getAvailability under way; live unless its effect was cleaned up
    dateRequests,   \* getAvailableDates under way
    submission,     \* handleSubmit, with the values it captured
    success,        \* the submission the success screen is about, or 0
    error,
    blocked,        \* server: what others hold
    create,         \* server: the create request of each submission
    changes,
    told            \* history: what the page told the customer of each submission;
                    \* "lost" is what it calls a failure without knowing

pageVars == <<settings, date, answer, availability, selection, availableDates,
              slotRequests, dateRequests>>
submitVars == <<submission, success, error, told>>
serverVars == <<blocked, create>>
vars == <<pageVars, submitVars, serverVars, changes>>

Submissions == 1 .. MaxSubmissions

Today == CHOOSE d \in Dates : \A e \in Dates : d <= e

First(ds) == CHOOSE d \in ds : \A e \in ds : d <= e

(***************************************************************************)
(* The hours offered.                                                      *)
(***************************************************************************)

\* The ticks some window of the day covers: merging windows leaves these.
OpenTicks == [a \in Answers |-> [d \in Dates |->
                UNION {w.from .. (w.to - 1) : w \in Windows[a][d]}]]

\* A merged window begins where the tick before is not open.
Opens(a, d) == {t \in OpenTicks[a][d] : t = 0 \/ t - 1 \notin OpenTicks[a][d]}

\* The hour from tick s.
Hour(s) == {s, s + 1}

\* Hourly slots from the beginning of each merged window, the last one whole.
Slots == [a \in Answers |-> [d \in Dates |->
    {s \in Tick : \E o \in Opens(a, d) :
                    /\ o <= s
                    /\ (s - o) % 2 = 0
                    /\ o .. (s + 1) \subseteq OpenTicks[a][d]}]]

Ticks(c) == c.from .. (c.to - 1)

Booked == {n \in Submissions : create[n].state = "booked"}

Busy(d) ==
    UNION ({Ticks(b) : b \in {b \in blocked : b.date = d}}
           \cup {Ticks(create[n]) : n \in {n \in Booked : create[n].date = d}})

FreeSlots(a, d) == {s \in Slots[a][d] : Hour(s) \cap Busy(d) = {}}

\* Mutated form: a slot that is taken, or a gap, does not end the run.
HasBookableRunBroken(a, d) == Cardinality(FreeSlots(a, d)) >= MinHours

\* A run of MinHours free slots, whatever MaxHours is.
HasBookableRun(a, d) ==
    \E s \in FreeSlots(a, d) :
        \A i \in 0 .. (MinHours - 1) : s + 2 * i \in FreeSlots(a, d)

BookableDates(a) == {d \in Dates : HasBookableRun(a, d)}

\* What prepare and create ask of a request before and beside the constraint.
Acceptable(c) ==
    /\ c.to - c.from >= 2 * MinHours
    /\ c.to - c.from <= 2 * MaxHours
    /\ Ticks(c) \subseteq OpenTicks[c.answer][c.date]
    /\ Ticks(c) \cap Busy(c.date) = {}

(***************************************************************************)
(* The state of the page.                                                  *)
(***************************************************************************)
NoSelection == [from |-> 0, to |-> 0]

NoAvailability == [date |-> NoDate, answer |-> "unanswered", free |-> {}]

NoDates == [known |-> FALSE, answer |-> "unanswered", dates |-> {}]

Idle == [n |-> 0, pc |-> "idle", date |-> NoDate, from |-> 0, to |-> 0,
         answer |-> "unanswered"]

Unsent == [state |-> "none", date |-> NoDate, from |-> 0, to |-> 0,
           answer |-> "unanswered"]

Answered == settings = "plain" \/ (settings = "gate" /\ answer # "unanswered")

LoadingSlots == \E r \in slotRequests : r.live

Selected == selection # NoSelection

\* The form is replaced by the success screen.
FormShown == settings # "loading" /\ success = 0

TypeOK ==
    /\ settings \in {"loading", "plain", "gate"}
    /\ date \in Dates
    /\ answer \in Answers
    /\ availability \in [date : Dates \cup {NoDate}, answer : Answers, free : SUBSET Tick]
    /\ selection \in [from : Nat, to : Nat]
    /\ availableDates \in [known : BOOLEAN, answer : Answers, dates : SUBSET Dates]
    /\ slotRequests \subseteq [date : Dates, answer : Answers, live : BOOLEAN]
    /\ dateRequests \subseteq [answer : Answers, live : BOOLEAN]
    /\ submission \in [n : Nat, pc : {"idle", "preparing", "confirming", "creating"},
                       date : Dates \cup {NoDate}, from : Nat, to : Nat, answer : Answers]
    /\ success \in Submissions \cup {0}
    /\ error \in BOOLEAN
    /\ blocked \subseteq Blocks
    /\ create \in [Submissions -> [state : {"none", "sent", "booked", "refused"},
                                   date : Dates \cup {NoDate}, from : Nat, to : Nat,
                                   answer : Answers]]
    /\ changes \in 0 .. MaxChanges
    /\ told \in [Submissions -> {"nothing", "waiting", "booked", "failed", "lost", "left"}]

\* The page as it is loaded.
Fresh ==
    /\ settings = "loading"
    /\ date = Today
    /\ answer = "unanswered"
    /\ availability = NoAvailability
    /\ selection = NoSelection
    /\ availableDates = NoDates
    /\ slotRequests = {}
    /\ dateRequests = {}
    /\ submission = Idle
    /\ success = 0
    /\ error = FALSE

Init ==
    /\ Fresh
    /\ blocked = {}
    /\ create = [n \in Submissions |-> Unsent]
    /\ changes = 0
    /\ told = [n \in Submissions |-> "nothing"]

(***************************************************************************)
(* The effects.                                                            *)
(***************************************************************************)
Cancelled(requests) == {[r EXCEPT !.live = FALSE] : r \in requests}

\* The effect on date, isNewUser and answered, with the clean-up of its last run.
FetchSlots(d, a) ==
    /\ slotRequests' = Cancelled(slotRequests)
                         \cup {[date |-> d, answer |-> a, live |-> TRUE]}
    /\ availability' = NoAvailability
    /\ selection' = NoSelection

\* The effect on isNewUser and answered.
FetchDates(a) ==
    /\ dateRequests' = Cancelled(dateRequests) \cup {[answer |-> a, live |-> TRUE]}
    /\ availableDates' = NoDates

\* getPublicSettings; without a gate the question counts as answered.
LoadSettings(kind) ==
    /\ settings = "loading"
    /\ settings' = kind
    /\ IF kind = "plain"
         THEN FetchSlots(date, answer) /\ FetchDates(answer)
         ELSE UNCHANGED <<slotRequests, availability, selection, dateRequests,
                          availableDates>>
    /\ UNCHANGED <<date, answer, submitVars, serverVars, changes>>

\* A radio button of the gate question.
AnswerGate(a) ==
    /\ FormShown
    /\ settings = "gate"
    /\ a # answer
    /\ changes < MaxChanges
    /\ changes' = changes + 1
    /\ answer' = a
    /\ FetchSlots(date, a)
    /\ FetchDates(a)
    /\ UNCHANGED <<settings, date, submitVars, serverVars>>

\* A day of the strip that is not greyed out; the day already chosen changes nothing.
ChooseDate(d) ==
    /\ FormShown
    /\ Answered
    /\ d # date
    /\ availableDates.known => d \in availableDates.dates
    /\ changes < MaxChanges
    /\ changes' = changes + 1
    /\ date' = d
    /\ FetchSlots(d, answer)
    /\ UNCHANGED <<settings, answer, availableDates, dateRequests, submitVars, serverVars>>

\* Mutated form: loadingSlots is not reset.
StayLoading(r) == slotRequests' = slotRequests

\* The finally clause.
StopLoading(r) == slotRequests' = slotRequests \ {r}

\* Mutated form: the answer of a request that was cleaned up is taken.
SlotsArriveLate(r) ==
    /\ r \in slotRequests
    /\ StopLoading(r)
    /\ availability' = [date |-> r.date, answer |-> r.answer,
                        free |-> FreeSlots(r.answer, r.date)]
    /\ UNCHANGED <<settings, date, answer, selection, availableDates, dateRequests,
                   submitVars, serverVars, changes>>

SlotsArrive(r) ==
    /\ r \in slotRequests
    /\ StopLoading(r)
    /\ availability' = IF r.live
                         THEN [date |-> r.date, answer |-> r.answer,
                               free |-> FreeSlots(r.answer, r.date)]
                         ELSE availability
    /\ UNCHANGED <<settings, date, answer, selection, availableDates, dateRequests,
                   submitVars, serverVars, changes>>

\* The request fails: the page goes on with no slots.
SlotsFail(r) ==
    /\ r \in slotRequests
    /\ StopLoading(r)
    /\ UNCHANGED <<settings, date, answer, availability, selection, availableDates,
                   dateRequests, submitVars, serverVars, changes>>

\* Mutated form: the first of no days is looked for.
TakeDatesUnchecked(r) ==
    LET dates == BookableDates(r.answer)
        first == IF dates = {} THEN NoDate ELSE First(dates)
    IN
    /\ availableDates' = [known |-> TRUE, answer |-> r.answer, dates |-> dates]
    /\ IF date \notin dates
         THEN date' = first /\ FetchSlots(first, answer)
         ELSE UNCHANGED <<date, slotRequests, availability, selection>>

\* Mutated form: the chosen day stays, greyed out.
TakeDatesStaying(r) ==
    /\ availableDates' = [known |-> TRUE, answer |-> r.answer, dates |-> BookableDates(r.answer)]
    /\ UNCHANGED <<date, slotRequests, availability, selection>>

\* The days arrive, and a chosen day that turns out greyed out is left for the first.
TakeDates(r) ==
    LET dates == BookableDates(r.answer) IN
    /\ availableDates' = [known |-> TRUE, answer |-> r.answer, dates |-> dates]
    /\ IF dates # {} /\ date \notin dates
         THEN date' = First(dates) /\ FetchSlots(First(dates), answer)
         ELSE UNCHANGED <<date, slotRequests, availability, selection>>

DatesArrive(r) ==
    /\ r \in dateRequests
    /\ dateRequests' = dateRequests \ {r}
    /\ IF r.live
         THEN TakeDates(r)
         ELSE UNCHANGED <<availableDates, date, slotRequests, availability, selection>>
    /\ UNCHANGED <<settings, answer, submitVars, serverVars, changes>>

\* The request fails: every day stays clickable.
DatesFail(r) ==
    /\ r \in dateRequests
    /\ dateRequests' = dateRequests \ {r}
    /\ UNCHANGED <<settings, date, answer, availability, selection, availableDates,
                   slotRequests, submitVars, serverVars, changes>>

(***************************************************************************)
(* TimeSlotPicker.                                                         *)
(***************************************************************************)
Clickable(s) ==
    /\ FormShown
    /\ Answered
    /\ ~LoadingSlots
    /\ availability # NoAvailability
    /\ s \in availability.free

Select(from, to) ==
    /\ selection' = [from |-> from, to |-> to]
    /\ UNCHANGED <<settings, date, answer, availability, availableDates, slotRequests,
                   dateRequests, submitVars, serverVars, changes>>

\* Nothing is selected, or the slot lies before the selection: start over there.
StartSelection(s) ==
    /\ Clickable(s)
    /\ Selected => s < selection.from
    /\ Select(s, s + 2)

\* The slots from the start of the selection to the one clicked.
SlotsTo(s) == {t \in Slots[availability.answer][availability.date] :
                    selection.from <= t /\ t <= s}

\* Mutated form: the slots need only follow one another in the list.
ExtendAcrossGaps(s) ==
    /\ Clickable(s)
    /\ Selected
    /\ selection.from <= s
    /\ Cardinality(SlotsTo(s)) \in MinHours .. MaxHours
    /\ SlotsTo(s) \subseteq availability.free
    /\ Select(selection.from, s + 2)

\* A later slot, when all from the start are available and none follows a gap.
ExtendSelection(s) ==
    /\ Clickable(s)
    /\ Selected
    /\ selection.from <= s
    /\ Cardinality(SlotsTo(s)) \in MinHours .. MaxHours
    /\ SlotsTo(s) \subseteq availability.free
    /\ selection.from .. (s + 1) = UNION {Hour(t) : t \in SlotsTo(s)}
    /\ Select(selection.from, s + 2)

ClearSelection ==
    /\ FormShown
    /\ Selected
    /\ selection' = NoSelection
    /\ UNCHANGED <<settings, date, answer, availability, availableDates, slotRequests,
                   dateRequests, submitVars, serverVars, changes>>

(***************************************************************************)
(* handleSubmit.  The selection and the answer are those of the click; the *)
(* page remains usable, and may lose the card element with the selection.  *)
(* submittingRef is set and read within one click, so the disabled button, *)
(* which React renders later, can only refuse what the ref refuses too.    *)
(***************************************************************************)
Sent == {n \in Submissions : told[n] # "nothing"}

MaySubmit == FormShown /\ Answered /\ Selected /\ submission.pc = "idle"

Submit ==
    /\ MaySubmit
    /\ \E n \in Submissions :
        /\ Sent = 1 .. (n - 1)
        /\ submission' = [n |-> n, pc |-> "preparing", date |-> date,
                          from |-> selection.from, to |-> selection.to, answer |-> answer]
        /\ told' = [told EXCEPT ![n] = "waiting"]
    /\ error' = FALSE
    /\ UNCHANGED <<pageVars, success, serverVars, changes>>

\* prepareBooking is answered, and the card element is still there to be confirmed.
PrepareAnswered ==
    /\ submission.pc = "preparing"
    /\ Acceptable(submission)
    /\ Selected
    /\ submission' = [submission EXCEPT !.pc = "confirming"]
    /\ UNCHANGED <<pageVars, success, error, told, serverVars, changes>>

\* Mutated form: create is sent the answer to the gate as it is by now.
ConfirmCardSetupRereading ==
    /\ submission.pc = "confirming"
    /\ submission' = [submission EXCEPT !.pc = "creating"]
    /\ create' = [create EXCEPT ![submission.n] =
                    [state |-> "sent", date |-> submission.date, from |-> submission.from,
                     to |-> submission.to, answer |-> answer]]
    /\ UNCHANGED <<pageVars, success, error, told, blocked, changes>>

\* confirmCardSetup succeeds, and create is sent what prepare was sent, also when the
\* selection has been cleared and the card element is gone by now.
ConfirmCardSetup ==
    /\ submission.pc = "confirming"
    /\ submission' = [submission EXCEPT !.pc = "creating"]
    /\ create' = [create EXCEPT ![submission.n] =
                    [state |-> "sent", date |-> submission.date, from |-> submission.from,
                     to |-> submission.to, answer |-> submission.answer]]
    /\ UNCHANGED <<pageVars, success, error, told, blocked, changes>>

\* Mutated form: the submission is not reset.
TellFailureSubmitting(why) ==
    /\ submission' = submission
    /\ told' = [told EXCEPT ![submission.n] = why]
    /\ error' = TRUE

\* The catch and finally clauses: the customer is told it did not work.
TellFailure(why) ==
    /\ submission' = Idle
    /\ told' = [told EXCEPT ![submission.n] = why]
    /\ error' = TRUE

\* Prepare is refused or lost, the card is declined, or its element is gone.
FailBeforeCreate ==
    /\ submission.pc \in {"preparing", "confirming"}
    /\ TellFailure("failed")
    /\ UNCHANGED <<pageVars, success, serverVars, changes>>

\* Mutated form: the success screen comes up when the request fails to be answered, too.
CreateAnsweredAnyhow ==
    /\ submission.pc = "creating"
    /\ success' = submission.n
    /\ submission' = Idle
    /\ told' = [told EXCEPT ![submission.n] = "booked"]
    /\ UNCHANGED <<pageVars, error, serverVars, changes>>

\* 201.
CreateAnswered ==
    /\ submission.pc = "creating"
    /\ create[submission.n].state = "booked"
    /\ success' = submission.n
    /\ submission' = Idle
    /\ told' = [told EXCEPT ![submission.n] = "booked"]
    /\ UNCHANGED <<pageVars, error, serverVars, changes>>

CreateRefused ==
    /\ submission.pc = "creating"
    /\ create[submission.n].state = "refused"
    /\ TellFailure("failed")
    /\ UNCHANGED <<pageVars, success, serverVars, changes>>

\* fetch rejects: the request or its answer is lost, and the server may still be at it.
LoseCreateAnswer ==
    /\ submission.pc = "creating"
    /\ TellFailure("lost")
    /\ UNCHANGED <<pageVars, success, serverVars, changes>>

\* The page is closed and opened again.
Reload ==
    /\ settings # "loading"
    /\ changes < MaxChanges
    /\ changes' = changes + 1
    /\ settings' = "loading"
    /\ date' = Today
    /\ answer' = "unanswered"
    /\ availability' = NoAvailability
    /\ selection' = NoSelection
    /\ availableDates' = NoDates
    /\ slotRequests' = {}
    /\ dateRequests' = {}
    /\ submission' = Idle
    /\ success' = 0
    /\ error' = FALSE
    /\ told' = [n \in Submissions |-> IF told[n] = "waiting" THEN "left" ELSE told[n]]
    /\ UNCHANGED serverVars

(***************************************************************************)
(* The server and the others.                                              *)
(***************************************************************************)

\* handleCreateBooking, as the page sees it: refused also for reasons it cannot see.
ServeCreate(n) ==
    /\ create[n].state = "sent"
    /\ \/ /\ Acceptable(create[n])
          /\ create' = [create EXCEPT ![n].state = "booked"]
       \/ create' = [create EXCEPT ![n] = [Unsent EXCEPT !.state = "refused"]]
    /\ UNCHANGED <<pageVars, submitVars, blocked, changes>>

\* Somebody else books, or a closure is made.
OthersTake(b) ==
    /\ b \notin blocked
    /\ Ticks(b) \cap Busy(b.date) = {}
    /\ blocked' = blocked \cup {b}
    /\ UNCHANGED <<pageVars, submitVars, create, changes>>

Page ==
    \/ \E kind \in {"plain", "gate"} : LoadSettings(kind)
    \/ \E a \in Answers \ {"unanswered"} : AnswerGate(a)
    \/ \E d \in Dates : ChooseDate(d)
    \/ \E r \in slotRequests : SlotsArrive(r) \/ SlotsFail(r)
    \/ \E r \in dateRequests : DatesArrive(r) \/ DatesFail(r)
    \/ \E s \in Tick : StartSelection(s) \/ ExtendSelection(s)
    \/ ClearSelection
    \/ Submit
    \/ PrepareAnswered
    \/ ConfirmCardSetup
    \/ FailBeforeCreate
    \/ CreateAnswered
    \/ CreateRefused
    \/ LoseCreateAnswer
    \/ Reload

Next ==
    \/ Page
    \/ \E n \in Submissions : ServeCreate(n)
    \/ \E b \in Blocks : OthersTake(b)

Spec == Init /\ [][Next]_vars

(***************************************************************************)
(* Fairness: the browser settles every fetch and Stripe.js every           *)
(* confirmation, with an answer or with an error.  The customer owes       *)
(* nothing, and the server need not answer.                                *)
(***************************************************************************)
SettleSubmission == FailBeforeCreate \/ LoseCreateAnswer \/ PrepareAnswered \/ ConfirmCardSetup

LiveSpec ==
    /\ Spec
    /\ WF_vars(SettleSubmission)
    /\ WF_vars(\E r \in slotRequests : r.live /\ (SlotsArrive(r) \/ SlotsFail(r)))

(***************************************************************************)
(* Properties.                                                             *)
(***************************************************************************)

\* What the customer sees and has selected belongs to the day and the answer that
\* are chosen now, and every selected half hour was offered as available: no answer
\* that comes late, and no selection made before a change, survives the effects.
SelectionIsShown ==
    /\ availability # NoAvailability => /\ availability.date = date
                                        /\ availability.answer = answer
    /\ Selected => /\ availability # NoAvailability
                   /\ Ticks(selection) \subseteq UNION {Hour(s) : s \in availability.free}

\* The picker's rule on hourly slots and the server's rule on windows agree: what can
\* be selected lies in the open ticks of its day, whichever slots it runs over, and is
\* no longer than allowed.
SelectionIsOpen ==
    Selected => /\ Ticks(selection) \subseteq OpenTicks[answer][date]
                /\ selection.to - selection.from <= 2 * MaxHours \/ selection.to = selection.from + 2

\* Once the strip knows the bookable days, it knows them for the answer given, and
\* the day chosen is one of them if there is any.
DateIsBookable ==
    availableDates.known =>
        /\ availableDates.answer = answer
        /\ availableDates.dates # {} => date \in availableDates.dates

\* A create asks for hours that are offered to the answer it carries, whatever the
\* customer has clicked between the submission and the request.
CreatesAskForOfferedHours ==
    \A n \in Submissions :
        create[n].state \in {"sent", "booked"} =>
            Ticks(create[n]) \subseteq OpenTicks[create[n].answer][create[n].date]

\* Three computations agree on what a day offers, whatever others hold: the strip offers
\* a day exactly when some slot begins a period of the least length that prepare and create
\* take, over merged windows, gaps between them and hours that are busy.  It does so when
\* the least length is no more than the greatest, which no handler checks.
OfferedDaysCanBeBooked ==
    MinHours <= MaxHours =>
        \A a \in Answers, d \in Dates :
            d \in BookableDates(a) <=>
                \E s \in Slots[a][d] :
                    Acceptable([answer |-> a, date |-> d, from |-> s, to |-> s + 2 * MinHours])

\* The customer is told of a booking exactly when there is one, except when the answer
\* was lost or the page left: a booking may then exist that the page calls a failure,
\* and is the conflict a retry meets.
ToldTheTruth ==
    \A n \in Submissions :
        /\ told[n] = "booked" => create[n].state = "booked"
        /\ told[n] = "failed" => create[n].state \in {"none", "refused"}

\* Every submission ends, with the success screen or an error, whatever is lost.
SubmissionsEnd == (submission.pc # "idle") ~> (submission.pc = "idle")

\* The spinner of the slot list ends, also when answers overtake one another.
SlotsSettle == LoadingSlots ~> ~LoadingSlots
=============================================================================
