----------------------------- MODULE AdminClosures -----------------------------
(***************************************************************************)
(* The admin's list of closures: read once, then kept by the answers of    *)
(* the page's own calls; a form for a new closure, or one in the place of  *)
(* the row it edits.  A form that was left may still have its call under   *)
(* way, and the answer closes whichever form of its kind is open by then.  *)
(*                                                                         *)
(* What a closure holds is whether its dates and its times are in order.   *)
(***************************************************************************)
EXTENDS Naturals, FiniteSets

CONSTANTS
    Ids,        \* ids of closures, in the order in which they are given
    MaxEdits,   \* bound: changes of a form, and acts of other admins
    MaxSends,   \* bound: calls sent
    NoId        \* of a closure that is not made yet, or of none

\* Assumed by AdminConsole, of which this page is a part.
AdminClosuresAssumption ==
    /\ Ids \subseteq Nat
    /\ MaxEdits \in Nat
    /\ MaxSends \in Nat
    /\ NoId \notin Ids

\* of is the closure whose form this was typed in.
Contents == [of : Ids \cup {NoId}, dates : {"none", "ordered", "reversed"}, all_day : BOOLEAN,
             times : {"none", "ordered", "reversed"}]

emptyForm == [of |-> NoId, dates |-> "none", all_day |-> TRUE, times |-> "none"]

\* The payload leaves the times of an all-day closure out.
Payload(form) == IF form.all_day THEN [form EXCEPT !.times = "none"] ELSE form

\* The inputs that are shown are required.
Submittable(form) == form.dates # "none" /\ (~form.all_day => form.times # "none")

\* parseClosureUpsert
Acceptable(c) == c.dates = "ordered" /\ (~c.all_day => c.times = "ordered")

\* The pages of the layout; each keeps its state for as long as it is the one open.
Pages == {"none", "bookings", "settings", "closures"}

VARIABLES
    page,       \* the page that is open
    closures,   \* the server's: content by id
    used,       \* ids the server has given
    list,       \* the page's: content by id (two rows of one closure are one here)
    loading,    \* "sent" and "served" while the list is under way
    answer,     \* the closures the server read for it
    creating,
    editing,
    form,       \* of the panel that is open
    saving,     \* the call of the panel that is open, 0 for none
    calls,      \* calls under way
    sends,      \* history: calls sent
    edits       \* history: changes of a form, and acts of others

serverVars == <<closures, used>>
panelVars == <<creating, editing, form, saving>>
listVars == <<list, loading, answer>>
vars == <<page, serverVars, listVars, panelVars, calls, sends, edits>>

IsTable(t) == DOMAIN t \subseteq Ids /\ \A i \in DOMAIN t : t[i] \in Contents

\* Stored closures have their dates in order, and times only if they need them.
TypeOK ==
    /\ page \in Pages
    /\ IsTable(closures)
    /\ \A i \in DOMAIN closures : Acceptable(closures[i]) /\ Payload(closures[i]) = closures[i]
    /\ DOMAIN closures \subseteq used /\ used \subseteq Ids
    /\ IsTable(list)
    /\ loading \in {"sent", "served", "no"}
    /\ IsTable(answer)
    /\ creating \in BOOLEAN
    /\ editing \in Ids \cup {NoId}
    /\ creating => editing = NoId
    /\ form \in Contents
    /\ saving \in 0 .. sends
    /\ \A c \in calls : /\ c.kind \in {"create", "update", "delete"}
                        /\ c.no \in 1 .. sends
                        /\ c.id \in Ids \cup {NoId}
                        /\ c.form \in Contents
                        /\ c.outcome \in {"sent", "done", "refused"}
    /\ sends \in 0 .. MaxSends
    /\ edits \in 0 .. MaxEdits

None == [i \in {} |-> emptyForm]

Mounted == page = "closures"

Closed ==
    /\ page = "none"
    /\ closures = None
    /\ used = {}
    /\ list = None
    /\ loading = "sent"
    /\ answer = None
    /\ creating = FALSE
    /\ editing = NoId
    /\ form = emptyForm
    /\ saving = 0
    /\ calls = {}
    /\ sends = 0
    /\ edits = 0

\* A closure of the server's, made in its own form.
Sound(i) == [of |-> i, dates |-> "ordered", all_day |-> TRUE, times |-> "none"]

\* The page opens on a server that has some closures.
Open ==
    /\ page = "none"
    /\ page' = "closures"
    /\ \E s \in SUBSET Ids :
         /\ \A i \in s, j \in Ids \ s : i < j
         /\ used' = s
         /\ closures' = [i \in s |-> Sound(i)]
    /\ UNCHANGED <<listVars, panelVars, calls, sends, edits>>

Leave ==
    /\ Mounted
    /\ page' = "none"
    /\ closures' = None
    /\ used' = {}
    /\ list' = None
    /\ loading' = "sent"
    /\ answer' = None
    /\ creating' = FALSE
    /\ editing' = NoId
    /\ form' = emptyForm
    /\ saving' = 0
    /\ calls' = {}
    /\ sends' = 0
    /\ edits' = 0

\* load, made once
ServeList ==
    /\ Mounted
    /\ loading = "sent"
    /\ loading' = "served"
    /\ answer' = closures
    /\ UNCHANGED <<page, serverVars, list, panelVars, calls, sends, edits>>

\* It takes the place of what the answers of calls have put there before.
ListArrives ==
    /\ loading = "served"
    /\ loading' = "no"
    /\ list' = answer
    /\ answer' = None
    /\ UNCHANGED <<page, serverVars, panelVars, calls, sends, edits>>

ListFails ==
    /\ Mounted
    /\ loading # "no"
    /\ loading' = "no"
    /\ answer' = None
    /\ UNCHANGED <<page, serverVars, list, panelVars, calls, sends, edits>>

(***************************************************************************)
(* The panels.                                                             *)
(***************************************************************************)

\* "+ Add closure": the panel that is open for a new one stays as it is.
AddClosure ==
    /\ Mounted
    /\ ~creating
    /\ creating' = TRUE
    /\ editing' = NoId
    /\ form' = emptyForm
    /\ saving' = 0
    /\ UNCHANGED <<page, serverVars, listVars, calls, sends, edits>>

\* Rows are there once the list is; the one being edited has no buttons.
Row(i) == Mounted /\ loading = "no" /\ i \in DOMAIN list /\ editing # i

\* Mutated form: the form that is open is kept when another row is edited.
EditClosureInPlace(i) ==
    /\ Row(i)
    /\ editing' = i
    /\ creating' = FALSE
    /\ form' = IF editing # NoId THEN form ELSE list[i]
    /\ saving' = 0
    /\ UNCHANGED <<page, serverVars, listVars, calls, sends, edits>>

\* "Edit": the row's own panel, filled with the closure as it is listed.
EditClosure(i) ==
    /\ Row(i)
    /\ editing' = i
    /\ creating' = FALSE
    /\ form' = list[i]
    /\ saving' = 0
    /\ UNCHANGED <<page, serverVars, listVars, calls, sends, edits>>

\* A row that is gone takes its panel with it.
PanelOpen == creating \/ editing \in DOMAIN list

ClosePanel ==
    /\ creating' = FALSE
    /\ editing' = NoId
    /\ form' = emptyForm
    /\ saving' = 0

Cancel ==
    /\ PanelOpen
    /\ ClosePanel
    /\ UNCHANGED <<page, serverVars, listVars, calls, sends, edits>>

Change ==
    /\ PanelOpen
    /\ edits < MaxEdits
    /\ edits' = edits + 1
    /\ \/ \E d \in {"ordered", "reversed"} : form' = [form EXCEPT !.dates = d]
       \/ form' = [form EXCEPT !.all_day = ~@]
       \/ \E t \in {"ordered", "reversed"} :
            ~form.all_day /\ form' = [form EXCEPT !.times = t]
    /\ form' # form
    /\ UNCHANGED <<page, serverVars, listVars, creating, editing, saving, calls, sends>>

Send(kind, id, content) ==
    /\ sends < MaxSends
    /\ sends' = sends + 1
    /\ calls' = calls \cup {[kind |-> kind, id |-> id, form |-> content, no |-> sends + 1,
                             outcome |-> "sent"]}

\* handleCreate and handleUpdate: the closure is the one the form was shown for.
Submit ==
    /\ PanelOpen
    /\ saving = 0
    /\ Submittable(form)
    /\ Send(IF creating THEN "create" ELSE "update", editing, Payload(form))
    /\ saving' = sends + 1
    /\ UNCHANGED <<page, serverVars, listVars, creating, editing, form, edits>>

\* handleDelete, confirmed
Delete(i) ==
    /\ Row(i)
    /\ Send("delete", i, emptyForm)
    /\ UNCHANGED <<page, serverVars, listVars, panelVars, edits>>

(***************************************************************************)
(* The server and its answers.                                             *)
(***************************************************************************)

Put(t, i, content) == [j \in DOMAIN t \cup {i} |-> IF j = i THEN content ELSE t[j]]

Without(t, i) == [j \in DOMAIN t \ {i} |-> t[j]]

Settled(c, d) == calls' = (calls \ {c}) \cup {d}

ServerStep(c) ==
    /\ c.outcome = "sent"
    /\ UNCHANGED <<page, listVars, panelVars, sends, edits>>

\* Any id that is not given yet is the next one: ids are told apart by nothing else.
NextId(i) == i \in Ids \ used /\ \A j \in Ids \ used : i <= j

ServeCreate(c) ==
    /\ ServerStep(c)
    /\ c.kind = "create"
    /\ Acceptable(c.form)
    /\ \E i \in Ids :
         /\ NextId(i)
         /\ used' = used \cup {i}
         /\ LET made == [c.form EXCEPT !.of = i]
            IN  /\ closures' = Put(closures, i, made)
                /\ Settled(c, [c EXCEPT !.id = i, !.form = made, !.outcome = "done"])

ServeUpdate(c) ==
    /\ ServerStep(c)
    /\ c.kind = "update"
    /\ Acceptable(c.form)
    /\ c.id \in DOMAIN closures
    /\ closures' = Put(closures, c.id, c.form)
    /\ Settled(c, [c EXCEPT !.outcome = "done"])
    /\ UNCHANGED used

\* It is no error when the closure is gone already.
ServeDelete(c) ==
    /\ ServerStep(c)
    /\ c.kind = "delete"
    /\ closures' = Without(closures, c.id)
    /\ Settled(c, [c EXCEPT !.outcome = "done"])
    /\ UNCHANGED used

\* Not acceptable, no longer there, or lost: on the way, or on the way back when the
\* server has done what was asked.
Refuse(c) ==
    /\ c.outcome # "refused"
    /\ Settled(c, [c EXCEPT !.outcome = "refused"])
    /\ UNCHANGED <<page, serverVars, listVars, panelVars, sends, edits>>

Answered(c) ==
    /\ calls' = calls \ {c}
    /\ UNCHANGED <<page, serverVars, loading, answer, sends, edits>>

\* setCreating(false): also of a panel that was opened since.
CreateDone(c) ==
    /\ c.kind = "create" /\ c.outcome = "done"
    /\ list' = Put(list, c.id, c.form)
    /\ IF creating THEN ClosePanel ELSE UNCHANGED panelVars
    /\ Answered(c)

\* setEditing(null): also of another row.
UpdateDone(c) ==
    /\ c.kind = "update" /\ c.outcome = "done"
    /\ list' = IF c.id \in DOMAIN list THEN Put(list, c.id, c.form) ELSE list
    /\ IF creating THEN UNCHANGED panelVars ELSE ClosePanel
    /\ Answered(c)

DeleteDone(c) ==
    /\ c.kind = "delete" /\ c.outcome = "done"
    /\ list' = Without(list, c.id)
    /\ UNCHANGED panelVars
    /\ Answered(c)

CallRefused(c) ==
    /\ c.outcome = "refused"
    /\ saving' = IF saving = c.no THEN 0 ELSE saving
    /\ UNCHANGED <<list, creating, editing, form>>
    /\ Answered(c)

\* Another admin deletes a closure, or changes one in its own form.
Others ==
    /\ Mounted
    /\ edits < MaxEdits
    /\ edits' = edits + 1
    /\ \E i \in DOMAIN closures :
         \/ closures' = Without(closures, i)
         \/ /\ closures[i].all_day
            /\ closures' = Put(closures, i, [Sound(i) EXCEPT !.all_day = FALSE, !.times = "ordered"])
    /\ UNCHANGED <<page, used, listVars, panelVars, calls, sends>>

Stay ==
    \/ ServeList \/ ListArrives \/ ListFails \/ AddClosure \/ Cancel \/ Change \/ Submit \/ Others
    \/ \E i \in Ids : EditClosure(i) \/ Delete(i)
    \/ \E c \in calls :
         \/ ServeCreate(c) \/ ServeUpdate(c) \/ ServeDelete(c) \/ Refuse(c)
         \/ CreateDone(c) \/ UpdateDone(c) \/ DeleteDone(c) \/ CallRefused(c)

Next == Open \/ Leave \/ Stay

Spec == Closed /\ [][Next]_vars

(***************************************************************************)
(* Properties.                                                             *)
(***************************************************************************)

\* What the server holds for a closure, and what a row shows, was typed in a form opened
\* for that closure: neither a row edited while another's save is under way, nor an answer
\* that closes another's form, puts one closure's dates on another (handleUpdate, which
\* is of the row the form was shown for, and the panel each row has of its own).
EditsStayWithTheirClosure ==
    /\ \A i \in DOMAIN closures : closures[i].of = i
    /\ \A i \in DOMAIN list : list[i].of = i
=============================================================================
