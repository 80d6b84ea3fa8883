----------------------------- MODULE AdminSettings -----------------------------
(***************************************************************************)
(* The admin's settings form: one form over four sections, saved whole;    *)
(* what it holds is compared with what was last read to tell which fields  *)
(* have unsaved changes.  The server checks what it is sent and stores it; *)
(* other admins store theirs.                                              *)
(*                                                                         *)
(* hourly_rate_cents stands for the fields of its section that take any    *)
(* value typed, notification_emails for those of "operations", and         *)
(* terms_content for the section "content".                                *)
(***************************************************************************)
EXTENDS Integers, FiniteSets, Sequences, SequencesExt

CONSTANTS
    Values,      \* what may be typed in a plain field
    Sources,     \* referral sources that may be typed
    Dates,       \* the days a restriction may start and end on
    Weekdays,
    Hours,       \* the times of a day trainer windows start and end at
    DayStart,    \* the window a weekday is given: '09:00' ...
    DayEnd,      \* ... to '17:00'
    DefaultQuestion,
    Questions,   \* what may be typed for the gate's question
    MaxEdits,    \* bound: edits of the form, and saves by others
    Blank,
    Nothing

\* Assumed by AdminConsole, of which this page is a part.
AdminSettingsAssumption ==
    /\ Values # {}
    /\ IsFiniteSet(Sources)
    /\ Dates \subseteq Int
    /\ Hours \subseteq 0 .. 24 * 60
    /\ DayStart \in Hours /\ DayEnd \in Hours /\ DayStart < DayEnd
    /\ DefaultQuestion \in Questions
    /\ Blank \notin Questions \cup Dates
    /\ MaxEdits \in Nat

Windows == [weekday : Weekdays, start : Hours, end : Hours]

Plain == {"hourly_rate_cents", "notification_emails", "terms_content"}

Fields == Plain \cup {"new_customer_restriction", "new_user_gate", "referral_sources"}

SECTIONS ==
    [general |-> {"hourly_rate_cents"},
     booking_rules |-> {"new_customer_restriction", "new_user_gate"},
     operations |-> {"notification_emails", "referral_sources"},
     content |-> {"terms_content"}]

\* A list of windows sorted by weekday and start is as good as their set.
Gates == [enabled : BOOLEAN, question : Questions \cup {Blank}, schedule : SUBSET Windows]

Restrictions == [start : Dates \cup {Blank}, end : Dates \cup {Blank}]

IsForm(s) ==
    /\ s = [f \in Fields |-> s[f]]
    /\ \A f \in Plain : s[f] \in Values
    /\ s["new_customer_restriction"] \in Restrictions \cup {Nothing}
    /\ s["new_user_gate"] \in Gates
    /\ s["referral_sources"] \in Seq(Sources)
    /\ IsInjective(s["referral_sources"])

\* What the server accepts: parseNewCustomerRestriction, parseNewUserGateSchedule.
Cleared(r) == IF r # Nothing /\ r.start = Blank /\ r.end = Blank THEN Nothing ELSE r

WholeRestriction(r) ==
    r # Nothing => r.start # Blank /\ r.end # Blank /\ r.start <= r.end

Overlap(v, w) == v.weekday = w.weekday /\ v.start < w.end /\ w.start < v.end

SoundSchedule(ws) ==
    /\ \A w \in ws : w.start < w.end
    /\ \A v, w \in ws : v # w => ~Overlap(v, w)

Acceptable(s) ==
    /\ WholeRestriction(Cleared(s["new_customer_restriction"]))
    /\ SoundSchedule(s["new_user_gate"].schedule)

\* ... and what it stores: blank dates are no restriction, a blank question the default one.
Parsed(s) ==
    LET gate == s["new_user_gate"]
        question == IF gate.question = Blank THEN DefaultQuestion ELSE gate.question
    IN  [s EXCEPT !["new_user_gate"] = [gate EXCEPT !.question = question],
                  !["new_customer_restriction"] = Cleared(@)]

\* The pages of the layout; each keeps its state for as long as it is the one open.
Pages == {"none", "bookings", "settings", "closures"}

VARIABLES
    page,       \* the page that is open
    stored,     \* the server: the row of the settings
    settings,   \* as last read or saved
    form,
    section,
    put,        \* the save under way
    outdated,   \* history: stored by others, or with no answer, since it was last read
    edits       \* history: edits made, and saves by others

pageVars == <<settings, form, section, put>>
vars == <<page, stored, pageVars, outdated, edits>>

NoPut == [state |-> "none", form |-> Nothing]

TypeOK ==
    /\ page \in Pages
    /\ IsForm(stored) /\ Acceptable(stored) /\ Parsed(stored) = stored
    /\ \/ settings = Nothing /\ form = Nothing
       \/ IsForm(settings) /\ Acceptable(settings) /\ IsForm(form)
    /\ section \in DOMAIN SECTIONS
    /\ put.state \in {"none", "sent", "done"}
    /\ put.form = Nothing \/ IsForm(put.form)
    /\ outdated \in BOOLEAN
    /\ edits \in 0 .. MaxEdits

\* A server as the migrations leave it.
Initial ==
    [f \in Fields |->
        CASE f \in Plain -> CHOOSE v \in Values : TRUE
          [] f = "new_customer_restriction" -> Nothing
          [] f = "new_user_gate" ->
               [enabled |-> FALSE, question |-> DefaultQuestion, schedule |-> {}]
          [] f = "referral_sources" -> << >>]

Mounted == page = "settings"

Closed ==
    /\ page = "none"
    /\ stored = Initial
    /\ settings = Nothing
    /\ form = Nothing
    /\ section = "general"
    /\ put = NoPut
    /\ outdated = FALSE
    /\ edits = 0

\* The page opens on a server that holds any of these.
Stored ==
    {Initial} \cup
    {[Initial EXCEPT !["new_user_gate"].schedule = ws] :
        ws \in {ws \in SUBSET Windows : SoundSchedule(ws)}} \cup
    {[Initial EXCEPT !["referral_sources"] = q] : q \in SetToSeqs(Sources)} \cup
    {[Initial EXCEPT !["new_customer_restriction"] = r] :
        r \in {r \in Restrictions : WholeRestriction(r)}}

Open ==
    /\ page = "none"
    /\ page' = "settings"
    /\ stored' \in Stored
    /\ UNCHANGED <<pageVars, outdated, edits>>

\* The page is left; a save under way has been made or not, as if by others.
Leave ==
    /\ Mounted
    /\ page' = "none"
    /\ stored' = Initial
    /\ settings' = Nothing
    /\ form' = Nothing
    /\ section' = "general"
    /\ put' = NoPut
    /\ outdated' = FALSE
    /\ edits' = 0

SettingsArrive ==
    /\ Mounted
    /\ settings = Nothing
    /\ settings' = stored
    /\ form' = stored
    /\ outdated' = FALSE
    /\ UNCHANGED <<page, stored, section, put, edits>>

DirtyFields == {f \in Fields : form[f] # settings[f]}

\* The sections are routes of one component, which keeps its form.
GoToSection(s) ==
    /\ settings # Nothing
    /\ s # section
    /\ section' = s
    /\ UNCHANGED <<page, stored, settings, form, put, outdated, edits>>

(***************************************************************************)
(* The editors.                                                            *)
(***************************************************************************)

Edit(f, value) ==
    /\ settings # Nothing
    /\ f \in SECTIONS[section]
    /\ value # form[f]
    /\ edits < MaxEdits
    /\ edits' = edits + 1
    /\ form' = [form EXCEPT ![f] = value]
    /\ UNCHANGED <<page, stored, settings, section, put, outdated>>

Type == \E f \in Plain, v \in Values : Edit(f, v)

\* updateRestriction, and "Clear"
EditRestriction ==
    LET r == form["new_customer_restriction"]
        current == IF r = Nothing THEN [start |-> Blank, end |-> Blank] ELSE r
    IN  /\ settings # Nothing
        /\ \/ \E d \in Dates \cup {Blank} :
                \/ Edit("new_customer_restriction", [current EXCEPT !.start = d])
                \/ Edit("new_customer_restriction", [current EXCEPT !.end = d])
           \/ Edit("new_customer_restriction", Nothing)

EditGate ==
    LET gate == form["new_user_gate"]
    IN  /\ settings # Nothing
        /\ \/ Edit("new_user_gate", [gate EXCEPT !.enabled = ~@])
           \/ \E q \in Questions \cup {Blank} : Edit("new_user_gate", [gate EXCEPT !.question = q])

OnDay(ws, d) == {w \in ws : w.weekday = d}

\* The map by weekday holds the last of a weekday's windows.
ByWeekday(ws, d) ==
    IF OnDay(ws, d) = {} THEN [weekday |-> d, start |-> DayStart, end |-> DayEnd]
    ELSE CHOOSE w \in OnDay(ws, d) : \A v \in OnDay(ws, d) : v.start <= w.start

Schedule(ws) == Edit("new_user_gate", [form["new_user_gate"] EXCEPT !.schedule = ws])

\* toggle, and setWindow, which leaves a weekday the one window it edits.
EditSchedule(d) ==
    /\ settings # Nothing
    /\ LET ws == form["new_user_gate"].schedule
           day == ByWeekday(ws, d)
           others == ws \ OnDay(ws, d)
       IN  IF OnDay(ws, d) = {}
           THEN Schedule(ws \cup {day})
           ELSE \/ Schedule(others)
                \/ \E h \in Hours : \/ Schedule(others \cup {[day EXCEPT !.start = h]})
                                    \/ Schedule(others \cup {[day EXCEPT !.end = h]})

\* addSource takes no source twice; moveSource swaps neighbours.
EditSources ==
    /\ settings # Nothing
    /\ LET sources == form["referral_sources"]
           n == Len(sources)
       IN  \/ \E s \in Sources \ Range(sources) : Edit("referral_sources", Append(sources, s))
           \/ \E i \in 1 .. n : Edit("referral_sources", RemoveAt(sources, i))
           \/ \E i \in 1 .. n - 1 :
                Edit("referral_sources",
                     [sources EXCEPT ![i] = sources[i + 1], ![i + 1] = sources[i]])

(***************************************************************************)
(* Saving.                                                                 *)
(***************************************************************************)

\* Blank dates mean no restriction.
Payload == [form EXCEPT !["new_customer_restriction"] = Cleared(@)]

\* One date without the other is not sent.
Complete ==
    LET r == form["new_customer_restriction"]
    IN  r # Nothing => (r.start = Blank <=> r.end = Blank)

\* Mutated form: what is sent counts as saved before the server has answered.
HandleSubmitOptimistically ==
    /\ settings # Nothing
    /\ put.state = "none"
    /\ Complete
    /\ put' = [state |-> "sent", form |-> Payload]
    /\ settings' = form
    /\ UNCHANGED <<page, stored, form, section, outdated, edits>>

HandleSubmit ==
    /\ settings # Nothing
    /\ put.state = "none"
    /\ Complete
    /\ put' = [state |-> "sent", form |-> Payload]
    /\ UNCHANGED <<page, stored, settings, form, section, outdated, edits>>

\* Mutated form: what is sent is stored unchecked.
ServePutUnchecked ==
    /\ put.state = "sent"
    /\ stored' = Parsed(put.form)
    /\ put' = [state |-> "done", form |-> stored']
    /\ UNCHANGED <<page, settings, form, section, outdated, edits>>

\* handleAdminUpdateSettings: every field is written, and the row is returned.
ServePut ==
    /\ put.state = "sent"
    /\ Acceptable(put.form)
    /\ stored' = Parsed(put.form)
    /\ put' = [state |-> "done", form |-> stored']
    /\ UNCHANGED <<page, settings, form, section, outdated, edits>>

\* The form is what was stored, whatever was typed while it was being saved.
SaveAnswered ==
    /\ put.state = "done"
    /\ settings' = put.form
    /\ form' = put.form
    /\ put' = NoPut
    /\ outdated' = (stored # put.form)
    /\ UNCHANGED <<page, stored, section, edits>>

\* The server refuses the save, or fails to make it.
SaveRefused ==
    /\ put.state = "sent"
    /\ put' = NoPut
    /\ UNCHANGED <<page, stored, settings, form, section, outdated, edits>>

\* The network fails: the save has been made, or it is made still, or not.
SaveLost ==
    /\ put.state # "none"
    /\ put' = NoPut
    /\ outdated' = TRUE
    /\ \/ UNCHANGED stored
       \/ put.state = "sent" /\ Acceptable(put.form) /\ stored' = Parsed(put.form)
    /\ UNCHANGED <<page, settings, form, section, edits>>

OthersSave ==
    /\ Mounted
    /\ edits < MaxEdits
    /\ edits' = edits + 1
    /\ \E f \in Plain, v \in Values : v # stored[f] /\ stored' = [stored EXCEPT ![f] = v]
    /\ outdated' = TRUE
    /\ UNCHANGED <<page, pageVars>>

Stay ==
    \/ SettingsArrive
    \/ \E s \in DOMAIN SECTIONS : GoToSection(s)
    \/ Type \/ EditRestriction \/ EditGate \/ EditSources
    \/ \E d \in Weekdays : EditSchedule(d)
    \/ HandleSubmit \/ ServePut \/ SaveAnswered \/ SaveRefused \/ SaveLost
    \/ OthersSave

Next == Open \/ Leave \/ Stay

Spec == Closed /\ [][Next]_vars

(***************************************************************************)
(* Properties.                                                             *)
(***************************************************************************)

\* While no save is under way, a form without "Unsaved changes" is what the server holds,
\* unless others have saved since it was read or an answer was lost: refused saves, the
\* server's own changes to what it was sent and edits made during a save leave no change
\* behind that is neither stored nor marked (dirtyFields, handleSubmit).
NoUnsavedChangeIsHidden ==
    settings # Nothing /\ put.state = "none" /\ ~outdated /\ DirtyFields = {} => form = stored
=============================================================================
