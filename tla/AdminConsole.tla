------------------------------ MODULE AdminConsole ------------------------------
(***************************************************************************)
(* The admin's pages under their layout: one is open at a time, and the    *)
(* one that is left forgets what it held.  A page's server is in any state *)
(* when the page opens, as left by the other pages and admins.             *)
(***************************************************************************)
EXTENDS Integers, FiniteSets, Sequences

CONSTANTS
    Bookings, DayOf, Lengths, DateFilters, StatusFilters, Rates, CustomAmounts, MaxCharge, IntLimit,
    MaxLoads, MaxModals, MaxCalls, AnyDay, AnyStatus, NoBooking,
    Values, Sources, Dates, Weekdays, Hours, DayStart, DayEnd, DefaultQuestion, Questions,
    MaxEdits, Blank, Nothing,
    Ids, MaxChanges, MaxSends, NoId

VARIABLES
    page,
    status, length, rate, filter, list, seenRate, loading, loads, lists, overtaken, modal, opened,
    calls, sent,
    stored, settings, form, section, put, outdated, edits,
    closures, used, rows, reading, answer, creating, editing, panel, saving, requests, sends, changes

B == INSTANCE AdminBookings

S == INSTANCE AdminSettings

C == INSTANCE AdminClosures
     WITH list <- rows, loading <- reading, form <- panel, calls <- requests,
          edits <- changes, MaxEdits <- MaxChanges

ASSUME AdminConsoleAssumption ==
    B!AdminBookingsAssumption /\ S!AdminSettingsAssumption /\ C!AdminClosuresAssumption

bookingsVars == <<status, length, rate, filter, list, seenRate, loading, loads, lists, overtaken,
                  modal, opened, calls, sent>>
settingsVars == <<stored, settings, form, section, put, outdated, edits>>
closuresVars == <<closures, used, rows, reading, answer, creating, editing, panel, saving,
                  requests, sends, changes>>
vars == <<page, bookingsVars, settingsVars, closuresVars>>

\* Every page of the console is in a state of its type; and what the server stores of the
\* settings and closures is what it accepts, whatever was typed.
TypeOK == B!TypeOK /\ S!TypeOK /\ C!TypeOK

Init == B!Closed /\ S!Closed /\ C!Closed

BookingsPage == (B!Open \/ B!Leave \/ B!Stay) /\ UNCHANGED <<settingsVars, closuresVars>>

SettingsPage == (S!Open \/ S!Leave \/ S!Stay) /\ UNCHANGED <<bookingsVars, closuresVars>>

ClosuresPage == (C!Open \/ C!Leave \/ C!Stay) /\ UNCHANGED <<bookingsVars, settingsVars>>

Next == BookingsPage \/ SettingsPage \/ ClosuresPage

Spec == Init /\ [][Next]_vars

\* Rows match the filter that is set unless a list is late, failed or overtaken
\* (AdminBookings).
ListMatchesFilter == B!ListMatchesFilter

\* A charge takes the amount its button showed, with the exceptions stated there.
ShownAmountIsTaken == B!ShownAmountIsTaken

\* A form not marked as changed is what the server holds (AdminSettings).
NoUnsavedChangeIsHidden == S!NoUnsavedChangeIsHidden

\* A closure holds what was typed in a form of its own (AdminClosures).
EditsStayWithTheirClosure == C!EditsStayWithTheirClosure
=============================================================================
