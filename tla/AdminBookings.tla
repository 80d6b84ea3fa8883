----------------------------- MODULE AdminBookings -----------------------------
(***************************************************************************)
(* The admin's list of bookings: filtered lists that are asked for again   *)
(* on every change of a filter, and whose answers come in any order; the   *)
(* buttons offered for a row as it was listed; and the dialogs that charge *)
(* and cancel a booking, of which a late answer may close the wrong one.   *)
(*                                                                         *)
(* What else the server does with a booking is one step here, Others: how  *)
(* it gets there is the subject of Charging and Lifecycle.  Every booking  *)
(* has a payment method.  A loss of the network is a refused call.         *)
(***************************************************************************)
EXTENDS Integers, FiniteSets

CONSTANTS
    Bookings,
    DayOf,          \* the day of a booking
    Lengths,        \* its length in half hours: an end_time patched by an admin may be any
    DateFilters,    \* the days the admin may come to filter by
    StatusFilters,  \* the statuses the page offers to filter by
    Rates,          \* hourly_rate_cents may be one of these
    CustomAmounts,  \* what an admin may type over the automatic amount
    MaxCharge,      \* maxChargeAmountCents
    IntLimit,       \* an int32 is in -IntLimit .. IntLimit - 1
    MaxLoads,       \* bound: lists asked for
    MaxModals,      \* bound: dialogs opened
    MaxCalls,       \* bound: calls sent
    AnyDay, AnyStatus, NoBooking

Status == {"confirmed", "completed", "charging", "charged", "cancelled"}

Days == DateFilters \cup {AnyDay}

\* Assumed by AdminConsole, of which this page is a part.
AdminBookingsAssumption ==
    /\ IsFiniteSet(Bookings)
    /\ Lengths \subseteq Nat \ {0}
    /\ Lengths # {}
    /\ StatusFilters \subseteq Status
    /\ IntLimit \in Nat \ {0}
    /\ Rates \subseteq 0 .. IntLimit - 1
    /\ Rates # {}
    /\ CustomAmounts \subseteq Nat
    /\ MaxCharge \in 1 .. IntLimit - 1
    /\ MaxLoads \in Nat
    /\ MaxModals \in Nat
    /\ MaxCalls \in Nat
    /\ AnyDay \notin DateFilters
    /\ AnyStatus \notin Status
    /\ NoBooking \notin Bookings

\* The pages of the layout; each keeps its state for as long as it is the one open.
Pages == {"none", "bookings", "settings", "closures"}

VARIABLES
    page,         \* the page that is open
    status,       \* the server: the bookings' statuses ...
    length,       \* ... and lengths ...
    rate,         \* ... and the hourly rate of the settings
    filter,       \* dateFilter and statusFilter
    list,         \* bookings, as listed or as a call returned them
    seenRate,     \* settings?.hourly_rate_cents ?? 0
    loading,
    loads,        \* history: lists asked for so far
    lists,        \* lists asked for and not yet answered
    overtaken,    \* history: the last one failed, or one asked for before came after it
    modal,        \* ChargeModal or CancelModal
    opened,       \* history: dialogs opened
    calls,        \* calls sent and not yet answered
    sent          \* history: calls sent

serverVars == <<status, length, rate>>
listVars == <<filter, list, loading, loads, lists, overtaken>>
callVars == <<modal, opened, calls, sent>>
vars == <<page, serverVars, listVars, seenRate, callVars>>

Filters == [date : Days, status : StatusFilters \cup {AnyStatus}]

\* A row came with a list, or was put in its place by the answer of a call.
Rows == [booking : Bookings, status : Status, length : Lengths, acted : BOOLEAN]

SomeLength == CHOOSE n \in Lengths : TRUE

NoModal == [kind |-> "none", booking |-> NoBooking, length |-> SomeLength, no |-> 0,
            busy |-> FALSE]

\* no is the dialog that sent the call, 0 for "Mark done"; shown is the amount on the
\* button of a charge, and length and seen the length and the rate it was computed from.
\* An answer has the amount taken and the length of the row it returns.
Calls == [kind : {"charge", "cancel", "complete"}, booking : Bookings, no : 0 .. MaxModals,
          id : 1 .. MaxCalls, custom : CustomAmounts \cup {-1}, shown : Nat,
          length : Lengths, seen : Rates \cup {0}, taken : 0 .. MaxCharge,
          outcome : {"sent", "done", "refused"}]

TypeOK ==
    /\ page \in Pages
    /\ status \in [Bookings -> Status]
    /\ length \in [Bookings -> Lengths]
    /\ rate \in Rates
    /\ filter \in Filters
    /\ list \subseteq Rows
    /\ \A r, s \in list : r.booking = s.booking => r = s
    /\ seenRate \in Rates \cup {0}
    /\ loading \in BOOLEAN
    /\ loads \in 0 .. MaxLoads
    /\ \A l \in lists : /\ l.no \in 1 .. loads
                        /\ l.filter \in Filters
                        /\ l.rows \subseteq Rows
                        /\ l.answered \in BOOLEAN
    /\ overtaken \in BOOLEAN
    /\ modal.kind \in {"none", "charge", "cancel"}
    /\ modal.booking \in Bookings \cup {NoBooking}
    /\ modal.length \in Lengths
    /\ opened \in 0 .. MaxModals
    /\ calls \subseteq Calls
    /\ sent \in 0 .. MaxCalls

Everything == [date |-> AnyDay, status |-> AnyStatus]

Mounted == page = "bookings"

Closed ==
    /\ page = "none"
    /\ status = [b \in Bookings |-> "confirmed"]
    /\ length = [b \in Bookings |-> SomeLength]
    /\ rate = CHOOSE r \in Rates : TRUE
    /\ filter = Everything
    /\ list = {}
    /\ seenRate = 0
    /\ loading = TRUE
    /\ loads = 0
    /\ lists = {}
    /\ overtaken = FALSE
    /\ modal = NoModal
    /\ opened = 0
    /\ calls = {}
    /\ sent = 0

(***************************************************************************)
(* The lists.                                                              *)
(***************************************************************************)

Matches(row, f) ==
    /\ f.date \in {AnyDay, DayOf[row.booking]}
    /\ f.status \in {AnyStatus, row.status}

\* load: a list for the filter that is now set.
Load(f) ==
    /\ loads < MaxLoads
    /\ loads' = loads + 1
    /\ lists' = lists \cup {[no |-> loads + 1, filter |-> f, rows |-> {}, answered |-> FALSE]}
    /\ loading' = TRUE
    /\ overtaken' = FALSE

\* The page opens on a server in any state, and asks for its settings and bookings.
Open ==
    /\ page = "none"
    /\ page' = "bookings"
    /\ status' \in [Bookings -> Status]
    /\ length' \in [Bookings -> Lengths]
    /\ rate' \in Rates
    /\ Load(Everything)
    /\ UNCHANGED <<filter, list, seenRate, callVars>>

\* Leaving it drops what it knew; what its calls still do is as good as done by others.
Leave ==
    /\ Mounted
    /\ page' = "none"
    /\ status' = [b \in Bookings |-> "confirmed"]
    /\ length' = [b \in Bookings |-> SomeLength]
    /\ rate' = CHOOSE r \in Rates : TRUE
    /\ filter' = Everything
    /\ list' = {}
    /\ seenRate' = 0
    /\ loading' = TRUE
    /\ loads' = 0
    /\ lists' = {}
    /\ overtaken' = FALSE
    /\ modal' = NoModal
    /\ opened' = 0
    /\ calls' = {}
    /\ sent' = 0

\* Asked for once; a rate of zero is as good as none.
SettingsArrive ==
    /\ Mounted
    /\ seenRate = 0
    /\ seenRate' = rate
    /\ UNCHANGED <<page, serverVars, listVars, callVars>>

Uncovered == Mounted /\ modal.kind = "none"

\* Mutated form: the effect depends on the date alone.
SetFilterByDate(f) ==
    /\ Uncovered
    /\ f # filter
    /\ filter' = f
    /\ IF f.date # filter.date THEN Load(f) ELSE UNCHANGED <<loads, lists, loading, overtaken>>
    /\ UNCHANGED <<page, serverVars, list, seenRate, callVars>>

\* The effect of dateFilter and statusFilter asks for a list whenever one changes.
SetFilter(f) ==
    /\ Uncovered
    /\ f # filter
    /\ filter' = f
    /\ Load(f)
    /\ UNCHANGED <<page, serverVars, list, seenRate, callVars>>

ChangeFilter ==
    \/ \E d \in Days : SetFilter([filter EXCEPT !.date = d])
    \/ \E s \in StatusFilters \cup {AnyStatus} : SetFilter([filter EXCEPT !.status = s])
    \/ SetFilter(Everything)

\* handleAdminListBookings
ServeList(l) ==
    /\ ~l.answered
    /\ LET all == {[booking |-> b, status |-> status[b], length |-> length[b],
                    acted |-> FALSE] : b \in Bookings}
           rows == {r \in all : Matches(r, l.filter)}
       IN  lists' = (lists \ {l}) \cup {[l EXCEPT !.rows = rows, !.answered = TRUE]}
    /\ UNCHANGED <<page, serverVars, filter, list, loading, loads, overtaken, seenRate, callVars>>

NewestUnderWay == \E l \in lists : l.no = loads

\* setBookings takes any answer, whichever filter it was asked for.
ListArrives(l) ==
    /\ l.answered
    /\ lists' = lists \ {l}
    /\ list' = l.rows
    /\ overtaken' = IF NewestUnderWay THEN overtaken ELSE TRUE
    /\ loading' = FALSE
    /\ UNCHANGED <<page, serverVars, filter, loads, seenRate, callVars>>

ListFails(l) ==
    /\ lists' = lists \ {l}
    /\ loading' = FALSE
    /\ overtaken' = IF l.no = loads THEN TRUE ELSE overtaken
    /\ UNCHANGED <<page, serverVars, filter, list, loads, seenRate, callVars>>

(***************************************************************************)
(* The buttons of a row and the dialogs they open.                         *)
(***************************************************************************)

Offered(row) ==
    CASE row.status = "confirmed" -> {"charge", "complete", "cancel"}
      [] row.status = "completed" -> {"charge", "cancel"}
      [] OTHER -> {}

Clickable(row, kind) == Uncovered /\ ~loading /\ row \in list /\ kind \in Offered(row)

OpenModal(row, kind) ==
    /\ Clickable(row, kind)
    /\ opened < MaxModals
    /\ opened' = opened + 1
    /\ modal' = [kind |-> kind, booking |-> row.booking, length |-> row.length,
                 no |-> opened + 1, busy |-> FALSE]
    /\ UNCHANGED <<page, serverVars, listVars, seenRate, calls, sent>>

\* "Cancel" and "Keep booking" stay enabled while a call is under way.
CloseModal ==
    /\ modal.kind # "none"
    /\ modal' = NoModal
    /\ UNCHANGED <<page, serverVars, listVars, seenRate, opened, calls, sent>>

Larger(a, b) == IF a < b THEN b ELSE a

\* Math.round of the length in hours, at least one.
ShownHours(n) == Larger(1, (n + 1) \div 2)

\* Truncated by the server, at least one, and multiplied as an int32.
Wrapped(n) == ((n + IntLimit) % (2 * IntLimit)) - IntLimit

\* Mutated form: the server rounds a part of an hour up and counts its start as well.
AutoAmountOneMore(b) == Wrapped(Larger(1, (length[b] + 2) \div 2) * rate)

AutoAmount(b) == Wrapped(Larger(1, length[b] \div 2) * rate)

Send(kind, b, n, no, custom) ==
    LET rateSeen == IF kind = "charge" THEN seenRate ELSE 0 IN
    /\ sent < MaxCalls
    /\ sent' = sent + 1
    /\ calls' = calls \cup
          {[kind |-> kind, booking |-> b, no |-> no, id |-> sent + 1, custom |-> custom,
            shown |-> IF custom = -1 THEN ShownHours(n) * rateSeen ELSE custom,
            length |-> n, seen |-> rateSeen, taken |-> 0, outcome |-> "sent"]}

\* handleCharge and handleCancel
Confirm(custom) ==
    /\ modal.kind # "none"
    /\ ~modal.busy
    /\ modal.kind = "cancel" => custom = -1
    /\ modal' = [modal EXCEPT !.busy = TRUE]
    /\ Send(modal.kind, modal.booking, modal.length, modal.no, custom)
    /\ UNCHANGED <<page, serverVars, listVars, seenRate, opened>>

\* handleStatusChange
MarkDone(row) ==
    /\ Clickable(row, "complete")
    /\ Send("complete", row.booking, row.length, 0, -1)
    /\ UNCHANGED <<page, serverVars, listVars, seenRate, modal, opened>>

OutcomeOf(c) ==
    CASE c.kind = "charge" -> "charged"
      [] c.kind = "cancel" -> "cancelled"
      [] OTHER -> "completed"

Settled(c, outcome, amount) ==
    calls' = (calls \ {c}) \cup
        {[c EXCEPT !.outcome = outcome, !.taken = amount, !.length = length[c.booking]]}

ServerStep(c) ==
    /\ c.outcome = "sent"
    /\ UNCHANGED <<page, length, rate, listVars, seenRate, modal, opened, sent>>

\* handleAdminUpdateBooking: a PATCH of the status takes effect whatever the status is.
ServePatch(c) ==
    /\ ServerStep(c)
    /\ c.kind # "charge"
    /\ status' = [status EXCEPT ![c.booking] = OutcomeOf(c)]
    /\ Settled(c, "done", 0)

\* Only a completed booking can be charged, and only for an amount in the range.
ServeCharge(c) ==
    /\ ServerStep(c)
    /\ c.kind = "charge"
    /\ status[c.booking] = "completed"
    /\ LET amount == IF c.custom = -1 THEN AutoAmount(c.booking) ELSE c.custom
       IN  /\ amount \in 1 .. MaxCharge
           /\ Settled(c, "done", amount)
    /\ status' = [status EXCEPT ![c.booking] = "charged"]

\* The status or the amount does not allow it, the card is declined or a call fails.
Refuse(c) ==
    /\ ServerStep(c)
    /\ Settled(c, "refused", 0)
    /\ UNCHANGED status

\* onCharged and onCancelled: the row that is listed is replaced, none is added.
Replaced(c) ==
    LET row == [booking |-> c.booking, status |-> OutcomeOf(c), length |-> c.length,
                acted |-> TRUE]
    IN  {IF r.booking = c.booking THEN row ELSE r : r \in list}

\* The answer of a dialog closes the dialog of its kind that is open by now.
CallDone(c) ==
    /\ c.outcome = "done"
    /\ calls' = calls \ {c}
    /\ list' = Replaced(c)
    /\ modal' = IF modal.kind = c.kind THEN NoModal ELSE modal
    /\ UNCHANGED <<page, serverVars, filter, loading, loads, lists, overtaken, seenRate, opened,
                   sent>>

CallRefused(c) ==
    /\ c.outcome = "refused"
    /\ calls' = calls \ {c}
    /\ modal' = IF c.no # 0 /\ modal.no = c.no
                THEN [modal EXCEPT !.busy = FALSE] ELSE modal
    /\ UNCHANGED <<page, serverVars, listVars, seenRate, opened, sent>>

\* Customers, the scheduler, and other admins, who PATCH a status or an end whatever they
\* are, or save another rate.
Others ==
    /\ Mounted
    /\ \/ \E b \in Bookings : \E s \in Status \ {status[b]} :
            status' = [status EXCEPT ![b] = s] /\ UNCHANGED <<length, rate>>
       \/ \E b \in Bookings : \E n \in Lengths \ {length[b]} :
            length' = [length EXCEPT ![b] = n] /\ UNCHANGED <<status, rate>>
       \/ rate' \in Rates \ {rate} /\ UNCHANGED <<status, length>>
    /\ UNCHANGED <<page, listVars, seenRate, callVars>>

Stay ==
    \/ SettingsArrive \/ ChangeFilter \/ CloseModal \/ Others
    \/ \E l \in lists : ServeList(l) \/ ListArrives(l) \/ ListFails(l)
    \/ \E row \in list : MarkDone(row) \/ \E kind \in {"charge", "cancel"} : OpenModal(row, kind)
    \/ \E custom \in CustomAmounts \cup {-1} : Confirm(custom)
    \/ \E c \in calls :
         ServePatch(c) \/ ServeCharge(c) \/ Refuse(c) \/ CallDone(c) \/ CallRefused(c)

Next == Open \/ Leave \/ Stay

Spec == Closed /\ [][Next]_vars

(***************************************************************************)
(* Properties.                                                             *)
(***************************************************************************)

\* Every row shown matches the filter that is set, but for the rows this page's own calls
\* have changed since, while nothing newer is under way and nothing has come out of order.
\* load has no clean-up: a list that comes after the one asked for last replaces it for
\* good, and one that fails leaves the list of another filter.
ListMatchesFilter ==
    \/ NewestUnderWay
    \/ overtaken
    \/ \A row \in list : row.acted \/ Matches(row, filter)

\* A charge takes the amount its button showed, typed or computed: the page rounds the
\* hours where the server truncates them, and reads the rate once.  The exceptions are a
\* session that is no whole number of hours, an end another admin has moved since the row
\* was listed, a rate changed (or not yet loaded) since it was read, and an amount above
\* what may be charged, whose product an int32 may not hold.
ShownAmountIsTaken ==
    [][\A c \in calls, d \in calls' :
         d.id = c.id /\ c.kind = "charge" /\ c.outcome = "sent" /\ d.outcome = "done" =>
           \/ d.taken = c.shown
           \/ /\ c.custom = -1
              /\ \/ c.length % 2 = 1
                 \/ c.length # length[c.booking]
                 \/ c.seen # rate
                 \/ c.shown > MaxCharge]_vars
=============================================================================
