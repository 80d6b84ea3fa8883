-------------------------- MODULE AdminBookingsProofs --------------------------
(***************************************************************************)
(* Lemmas about AdminBookings, for any bookings, lengths, rates and limits *)
(* and any number of lists, dialogs and calls.  AdminConsoleProofs uses    *)
(* them for the page as one of the console.                                *)
(***************************************************************************)
EXTENDS AdminBookings, TLAPS

(***************************************************************************)
(* The inductive invariant.                                                *)
(***************************************************************************)
OnePerBooking(rs) == \A r, s \in rs : r.booking = s.booking => r = s

ListRecords == [no : Nat, filter : Filters, rows : SUBSET Rows, answered : BOOLEAN]

\* The list asked for last is for the filter that is set, and an answer has one row for
\* each booking that matches the filter it was asked for.
ListsOK ==
    /\ lists \subseteq ListRecords
    /\ \A l \in lists :
         /\ l.no \in 1 .. loads
         /\ l.no = loads => l.filter = filter
         /\ OnePerBooking(l.rows)
         /\ \A row \in l.rows : Matches(row, l.filter)

Modals == [kind : {"none", "charge", "cancel"}, booking : Bookings \cup {NoBooking},
           length : Lengths, no : 0 .. MaxModals, busy : BOOLEAN]

\* A dialog is open for a booking.
ModalOK == modal \in Modals /\ (modal.kind # "none" => modal.booking \in Bookings)

\* Calls are told apart by their number; the button of a charge that is not yet served
\* shows what was typed, or the length in whole hours at the rate the page has seen.
Shows(c) == c.shown = IF c.custom = -1 THEN ShownHours(c.length) * c.seen ELSE c.custom

CallsOK ==
    /\ calls \subseteq Calls
    /\ \A c \in calls :
         /\ c.id <= sent
         /\ c.outcome = "sent" => Shows(c)
    /\ \A c, d \in calls : c.id = d.id => c = d

\* A page that is not open has the filters it opens with.
ShutOK == ~Mounted => filter = Everything

PageInv ==
    /\ TypeOK
    /\ ListsOK
    /\ ListMatchesFilter
    /\ ModalOK
    /\ CallsOK
    /\ ShutOK

(***************************************************************************)
(* Amounts.                                                                *)
(***************************************************************************)

\* An int32 holds what is below its limit.
LEMMA WrappedIsNothing ==
    ASSUME IntLimit \in Nat \ {0}, NEW n \in 0 .. IntLimit - 1
    PROVE  Wrapped(n) = n
<1>1. (n + IntLimit) % (2 * IntLimit) = n + IntLimit
  OBVIOUS
<1>2. QED BY <1>1 DEF Wrapped

\* Whole hours are rounded and truncated alike.
LEMMA WholeHours ==
    ASSUME NEW n \in Nat, n % 2 = 0
    PROVE  (n + 1) \div 2 = n \div 2
OBVIOUS

LEMMA HoursAreNat ==
    ASSUME NEW n \in Nat
    PROVE  n \div 2 \in Nat
OBVIOUS

LEMMA ShownHoursNat ==
    ASSUME NEW n \in Nat
    PROVE  ShownHours(n) \in Nat
<1>1. n + 1 \in Nat
  OBVIOUS
<1>2. QED BY <1>1, HoursAreNat DEF ShownHours, Larger

LEMMA LengthsTyped ==
    ASSUME AdminBookingsAssumption
    PROVE  SomeLength \in Lengths /\ Lengths \subseteq Nat \ {0}
BY DEF AdminBookingsAssumption, SomeLength

LEMMA EverythingTyped == Everything \in Filters
BY DEF Everything, Filters, Days

(***************************************************************************)
(* The server and the rate the page has seen.                              *)
(***************************************************************************)
LEMMA ServerTyped ==
    ASSUME AdminBookingsAssumption, TypeOK, CallsOK, Next
    PROVE  /\ page' \in Pages
           /\ status' \in [Bookings -> Status]
           /\ length' \in [Bookings -> Lengths]
           /\ length' \in [Bookings -> Lengths]
      /\ rate' \in Rates
           /\ seenRate' \in Rates \cup {0}
<1> DEFINE Typed ==
      /\ page' \in Pages
      /\ status' \in [Bookings -> Status]
      /\ length' \in [Bookings -> Lengths]
      /\ rate' \in Rates
      /\ seenRate' \in Rates \cup {0}
<1>1. /\ page \in Pages /\ status \in [Bookings -> Status] /\ rate \in Rates
      /\ length \in [Bookings -> Lengths] /\ seenRate \in Rates \cup {0} /\ Rates # {}
  BY DEF TypeOK, AdminBookingsAssumption
<1>2. CASE Open
  BY <1>1, <1>2 DEF Open, Pages
<1>3. CASE Leave
  BY <1>1, <1>3, LengthsTyped DEF Leave, Pages, Status
<1>4. CASE SettingsArrive
  BY <1>1, <1>4 DEF SettingsArrive, serverVars
<1>5. CASE Others
  BY <1>1, <1>5 DEF Others
<1>6. ASSUME NEW c \in calls, ServePatch(c) \/ ServeCharge(c)
      PROVE  Typed
  BY <1>1, <1>6 DEF ServePatch, ServeCharge, ServerStep, OutcomeOf, Status
<1>7. CASE UNCHANGED <<page, status, length, rate, seenRate>>
  BY <1>1, <1>7
<1>8. QED BY <1>2, <1>3, <1>4, <1>5, <1>6, <1>7
  DEF Next, Stay, serverVars, ChangeFilter, SetFilter, CloseModal, ServeList, ListArrives,
      ListFails, MarkDone, OpenModal, Confirm, Refuse, ServerStep, CallDone, CallRefused

(***************************************************************************)
(* The lists.                                                              *)
(***************************************************************************)
ListInv ==
    /\ filter \in Filters
    /\ list \subseteq Rows
    /\ OnePerBooking(list)
    /\ loading \in BOOLEAN
    /\ loads \in 0 .. MaxLoads
    /\ overtaken \in BOOLEAN
    /\ ListsOK
    /\ ListMatchesFilter
    /\ ShutOK

\* A list that is asked for is the last, and is under way.
LEMMA LoadKeeps ==
    ASSUME AdminBookingsAssumption, ListInv, NEW f \in Filters, Load(f), filter' = f,
           list' = list, page' = "bookings"
    PROVE  ListInv'
<1> DEFINE asked == [no |-> loads + 1, filter |-> f, rows |-> {}, answered |-> FALSE]
<1>1. /\ loads \in Nat /\ loads' = loads + 1 /\ loads' \in 0 .. MaxLoads
      /\ lists' = lists \cup {asked} /\ loading' = TRUE
      /\ overtaken' = FALSE
  BY DEF AdminBookingsAssumption, ListInv, Load
<1>2. asked \in ListRecords
  BY <1>1 DEF ListRecords
<1>3. ListsOK'
  <2>1. \A l \in lists' :
           /\ l.no \in 1 .. loads'
           /\ l.no = loads' => l.filter = f
           /\ OnePerBooking(l.rows)
           /\ \A row \in l.rows : Matches(row, l.filter)
    BY <1>1 DEF ListInv, ListsOK, OnePerBooking
  <2>2. lists' \subseteq ListRecords
    BY <1>1, <1>2 DEF ListInv, ListsOK
  <2>3. QED BY <2>1, <2>2 DEF ListsOK
<1>4. ListMatchesFilter'
  <2>1. asked \in lists' /\ asked.no = loads'
    BY <1>1
  <2>2. QED BY <2>1 DEF ListMatchesFilter, NewestUnderWay
<1>5. ShutOK'
  BY DEF ShutOK, Mounted
<1>6. QED BY <1>1, <1>3, <1>4, <1>5 DEF ListInv

LEMMA FiltersTyped ==
    ASSUME filter \in Filters
    PROVE  /\ \A d \in Days : [filter EXCEPT !.date = d] \in Filters
           /\ \A s \in StatusFilters \cup {AnyStatus} : [filter EXCEPT !.status = s] \in Filters
BY DEF Filters

\* The answer has the bookings that match, each once.
LEMMA ServeListKeeps ==
    ASSUME AdminBookingsAssumption, TypeOK, ListInv, NEW l \in lists, ServeList(l)
    PROVE  ListInv'
<1> DEFINE rowOf(b) == [booking |-> b, status |-> status[b], length |-> length[b],
                       acted |-> FALSE]
           all == {rowOf(b) : b \in Bookings}
           rs == {r \in all : Matches(r, l.filter)}
           served == [l EXCEPT !.rows = rs, !.answered = TRUE]
<1>1. /\ lists' = (lists \ {l}) \cup {served}
      /\ UNCHANGED <<page, filter, list, loading, loads, overtaken>>
      /\ l \in ListRecords /\ status \in [Bookings -> Status]
      /\ length \in [Bookings -> Lengths]
  BY DEF ServeList, serverVars, ListInv, ListsOK, TypeOK
<1>2. all \subseteq Rows /\ OnePerBooking(all)
  <2>1. \A b \in Bookings : status[b] \in Status /\ length[b] \in Lengths
    BY <1>1
  <2>2. \A b \in Bookings : rowOf(b) \in Rows /\ rowOf(b).booking = b
    BY <2>1 DEF Rows
  <2> HIDE DEF rowOf
  <2>3. all \subseteq Rows
    BY <2>2
  <2>4. OnePerBooking(all)
    BY <2>2 DEF OnePerBooking
  <2>5. QED BY <2>3, <2>4
<1>3. rs \subseteq Rows /\ OnePerBooking(rs) /\ \A row \in rs : Matches(row, l.filter)
  BY <1>2 DEF OnePerBooking
<1> HIDE DEF rs
<1>4. /\ served \in ListRecords /\ served.no = l.no /\ served.filter = l.filter
      /\ served.rows = rs
  BY <1>1, <1>3 DEF ListRecords
<1> HIDE DEF served
<1>5. ListsOK'
  <2>1. \A k \in lists' :
           /\ k.no \in 1 .. loads
           /\ k.no = loads => k.filter = filter
           /\ OnePerBooking(k.rows)
           /\ \A row \in k.rows : Matches(row, k.filter)
    <3>1. SUFFICES ASSUME NEW k \in lists'
                   PROVE  /\ k.no \in 1 .. loads
                          /\ k.no = loads => k.filter = filter
                          /\ OnePerBooking(k.rows)
                          /\ \A row \in k.rows : Matches(row, k.filter)
      OBVIOUS
    <3>2. CASE k \in lists
      BY <3>2 DEF ListInv, ListsOK
    <3>3. CASE k = served
      BY <1>3, <1>4, <3>3 DEF ListInv, ListsOK
    <3>4. QED BY <1>1, <3>2, <3>3
  <2>2. lists' \subseteq ListRecords
    BY <1>1, <1>4 DEF ListInv, ListsOK
  <2>3. QED BY <1>1, <2>1, <2>2 DEF ListsOK
<1>6. NewestUnderWay => NewestUnderWay'
  BY <1>1, <1>4 DEF NewestUnderWay
<1>7. ListMatchesFilter'
  BY <1>1, <1>6 DEF ListInv, ListMatchesFilter
<1>8. QED BY <1>1, <1>5, <1>7 DEF ListInv, ShutOK, Mounted

LEMMA ListArrivesKeeps ==
    ASSUME ListInv, NEW l \in lists, ListArrives(l) \/ ListFails(l)
    PROVE  ListInv'
<1>1. /\ lists' = lists \ {l} /\ loading' = FALSE
      /\ UNCHANGED <<page, filter, loads>>
      /\ list' \in {list, l.rows}
      /\ overtaken' \in {TRUE, overtaken}
  BY DEF ListArrives, ListFails
<1>2. /\ l.rows \subseteq Rows /\ OnePerBooking(l.rows)
      /\ l.no = loads => \A row \in l.rows : Matches(row, filter)
  BY DEF ListInv, ListsOK, ListRecords
<1>3. ListsOK'
  BY <1>1 DEF ListInv, ListsOK
<1>4. ListMatchesFilter'
  <2>1. CASE ListArrives(l)
    <3>1. /\ list' = l.rows
          /\ ~NewestUnderWay => overtaken'
      BY <2>1 DEF ListArrives
    <3>2. CASE l.no = loads
      BY <1>1, <1>2, <3>1, <3>2 DEF ListMatchesFilter, Matches
    <3>3. CASE l.no # loads
      <4>1. NewestUnderWay => NewestUnderWay'
        BY <1>1, <3>3 DEF NewestUnderWay
      <4>2. QED BY <3>1, <4>1 DEF ListMatchesFilter
    <3>4. QED BY <3>2, <3>3
  <2>2. CASE ListFails(l)
    <3>1. /\ list' = list
          /\ l.no = loads => overtaken'
          /\ l.no # loads => overtaken' = overtaken
      BY <2>2 DEF ListFails
    <3>2. CASE l.no = loads
      BY <3>1, <3>2 DEF ListMatchesFilter
    <3>3. CASE l.no # loads
      <4>1. NewestUnderWay => NewestUnderWay'
        BY <1>1, <3>3 DEF NewestUnderWay
      <4>2. QED BY <1>1, <3>1, <3>3, <4>1 DEF ListInv, ListMatchesFilter, Matches
    <3>4. QED BY <3>2, <3>3
  <2>3. QED BY <2>1, <2>2
<1>5. list' \subseteq Rows /\ OnePerBooking(list')
  BY <1>1, <1>2 DEF ListInv
<1>6. overtaken' \in BOOLEAN
  BY <1>1 DEF ListInv
<1>7. QED BY <1>1, <1>3, <1>4, <1>5, <1>6 DEF ListInv, ShutOK, Mounted

\* An answer replaces the row of its booking by one that was acted on.
LEMMA CallDoneKeepsLists ==
    ASSUME ListInv, CallsOK, NEW c \in calls, CallDone(c)
    PROVE  ListInv'
<1> DEFINE b == c.booking
           new == [booking |-> b, status |-> OutcomeOf(c), length |-> c.length, acted |-> TRUE]
<1>1. /\ list' = {IF r.booking = b THEN new ELSE r : r \in list}
      /\ UNCHANGED <<page, filter, loading, loads, lists, overtaken>>
  BY DEF CallDone, Replaced
<1>2. new \in Rows /\ new.acted /\ new.booking = b
  BY DEF CallsOK, Calls, Rows, OutcomeOf, Status
<1> HIDE DEF new, b
<1>3. list' \subseteq Rows
  BY <1>1, <1>2 DEF ListInv
<1>4. OnePerBooking(list')
  BY <1>1, <1>2 DEF ListInv, OnePerBooking
<1>5. ListMatchesFilter'
  BY <1>1, <1>2 DEF ListInv, ListMatchesFilter, NewestUnderWay, Matches
<1>6. ListsOK' /\ ShutOK'
  BY <1>1 DEF ListInv, ListsOK, ShutOK, Mounted
<1>7. QED BY <1>1, <1>3, <1>4, <1>5, <1>6 DEF ListInv

LEMMA ListsKept ==
    ASSUME AdminBookingsAssumption, TypeOK, ListInv, CallsOK, Next
    PROVE  ListInv'
<1>1. CASE Open
  BY <1>1, LoadKeeps, EverythingTyped DEF Open, ListInv, ShutOK, Mounted
<1>2. CASE Leave
  <2>1. /\ filter' = Everything /\ list' = {} /\ loading' = TRUE /\ loads' = 0
        /\ lists' = {} /\ overtaken' = FALSE
    BY <1>2 DEF Leave
  <2>2. ListsOK' /\ ListMatchesFilter' /\ ShutOK' /\ OnePerBooking(list')
    BY <2>1 DEF ListsOK, ListMatchesFilter, ShutOK, OnePerBooking
  <2>3. loads' \in 0 .. MaxLoads
    BY <2>1 DEF AdminBookingsAssumption
  <2>4. QED BY <2>1, <2>2, <2>3, EverythingTyped DEF ListInv
<1>3. CASE ChangeFilter
  <2>1. PICK f \in Filters : SetFilter(f)
    BY <1>3, FiltersTyped, EverythingTyped DEF ChangeFilter, ListInv
  <2>2. QED BY <2>1, LoadKeeps DEF SetFilter, Uncovered, Mounted
<1>4. ASSUME NEW l \in lists, ServeList(l) \/ ListArrives(l) \/ ListFails(l)
      PROVE  ListInv'
  BY <1>4, ServeListKeeps, ListArrivesKeeps
<1>5. ASSUME NEW c \in calls, CallDone(c)
      PROVE  ListInv'
  BY <1>5, CallDoneKeepsLists
<1>6. CASE UNCHANGED <<page, listVars>>
  BY <1>6 DEF listVars, ListInv, ListsOK, ListMatchesFilter, NewestUnderWay, Matches, ShutOK,
              Mounted
<1>7. QED BY <1>1, <1>2, <1>3, <1>4, <1>5, <1>6
  DEF Next, Stay, SettingsArrive, CloseModal, Others, MarkDone, OpenModal, Confirm, ServePatch,
      ServeCharge, Refuse, ServerStep, CallRefused

(***************************************************************************)
(* The dialogs and the calls.                                              *)
(***************************************************************************)
CallInv ==
    /\ opened \in 0 .. MaxModals
    /\ sent \in 0 .. MaxCalls
    /\ ModalOK
    /\ CallsOK

LEMMA NoModalTyped ==
    ASSUME AdminBookingsAssumption
    PROVE  NoModal \in Modals /\ NoModal.kind = "none"
<1>1. 0 \in 0 .. MaxModals
  BY DEF AdminBookingsAssumption
<1>2. QED BY <1>1, LengthsTyped DEF NoModal, Modals

\* A call is sent under a number of its own, with the amount its button shows.
LEMMA SendKeeps ==
    ASSUME AdminBookingsAssumption, TypeOK, CallInv,
           NEW kind \in {"charge", "cancel", "complete"}, NEW b \in Bookings,
           NEW n \in Lengths, NEW no \in 0 .. MaxModals, NEW custom \in CustomAmounts \cup {-1},
           Send(kind, b, n, no, custom)
    PROVE  CallsOK' /\ sent' \in 0 .. MaxCalls
<1> DEFINE rateSeen == IF kind = "charge" THEN seenRate ELSE 0
           amount == IF custom = -1 THEN ShownHours(n) * rateSeen ELSE custom
           call == [kind |-> kind, booking |-> b, no |-> no, id |-> sent + 1,
                    custom |-> custom, shown |-> amount, length |-> n, seen |-> rateSeen,
                    taken |-> 0, outcome |-> "sent"]
<1>1. /\ sent < MaxCalls /\ sent' = sent + 1 /\ calls' = calls \cup {call}
      /\ sent \in 0 .. MaxCalls /\ MaxCalls \in Nat /\ MaxCharge \in Nat
      /\ rateSeen \in Rates \cup {0}
  BY DEF Send, CallInv, AdminBookingsAssumption, TypeOK
<1>2. sent' \in 0 .. MaxCalls /\ sent + 1 \in 1 .. MaxCalls /\ 0 \in 0 .. MaxCharge
  BY <1>1
<1> HIDE DEF rateSeen
<1>3. amount \in Nat
  <2>1. rateSeen \in Nat /\ (custom # -1 => custom \in Nat)
    BY <1>1 DEF AdminBookingsAssumption
  <2>2. ShownHours(n) \in Nat
    BY ShownHoursNat, LengthsTyped
  <2>3. ShownHours(n) * rateSeen \in Nat
    BY <2>1, <2>2
  <2>4. QED BY <2>1, <2>3
<1>4. call.id = sent + 1 /\ Shows(call)
  BY DEF Shows
<1> HIDE DEF amount
<1>5. call \in Calls
  BY <1>1, <1>2, <1>3 DEF Calls
<1> HIDE DEF call
<1>6. calls \subseteq Calls /\ \A c \in calls : c.id \in Nat /\ c.id <= sent
  BY DEF CallInv, CallsOK, Calls
<1>7. \A c, d \in calls' : c.id = d.id => c = d
  BY <1>1, <1>4, <1>6 DEF CallInv, CallsOK
<1>8. \A c \in calls' : c.id <= sent'
  BY <1>1, <1>4, <1>6
<1>9. \A c \in calls' : c.outcome = "sent" => Shows(c)
  BY <1>1, <1>4 DEF CallInv, CallsOK
<1>10. QED BY <1>1, <1>2, <1>5, <1>6, <1>7, <1>8, <1>9 DEF CallsOK, Shows

\* A call that is answered is the one that was sent, but for its outcome.
LEMMA SettledKeeps ==
    ASSUME TypeOK, CallInv, NEW c \in calls, NEW outcome \in {"done", "refused"},
           NEW amount \in 0 .. MaxCharge, Settled(c, outcome, amount), sent' = sent
    PROVE  CallsOK'
<1> DEFINE d == [c EXCEPT !.outcome = outcome, !.taken = amount, !.length = length[c.booking]]
<1>1. calls' = (calls \ {c}) \cup {d} /\ c \in Calls
  BY DEF Settled, CallInv, CallsOK
<1>2. length[c.booking] \in Lengths
  BY <1>1 DEF Calls, TypeOK
<1>3. d \in Calls /\ d.id = c.id /\ d.outcome = outcome
  BY <1>1, <1>2 DEF Calls
<1> HIDE DEF d
<1>4. d.id <= sent
  BY <1>3 DEF CallInv, CallsOK
<1>5. \A e, f \in calls' : e.id = f.id => e = f
  BY <1>1, <1>3 DEF CallInv, CallsOK
<1>6. \A e \in calls' : e.outcome = "sent" => Shows(e)
  BY <1>1, <1>3 DEF CallInv, CallsOK
<1>7. QED BY <1>1, <1>3, <1>4, <1>5, <1>6 DEF CallInv, CallsOK, Shows

LEMMA DialogsKeep ==
    ASSUME AdminBookingsAssumption, TypeOK, ListInv, CallInv,
           \/ CloseModal
           \/ \E row \in list : \E kind \in {"charge", "cancel"} : OpenModal(row, kind)
    PROVE  CallInv'
<1>1. CASE CloseModal
  BY <1>1, NoModalTyped DEF CloseModal, CallInv, ModalOK, CallsOK, Shows
<1>2. ASSUME NEW row \in list, NEW kind \in {"charge", "cancel"}, OpenModal(row, kind)
      PROVE  CallInv'
  <2>1. /\ opened < MaxModals /\ opened' = opened + 1
        /\ modal' = [kind |-> kind, booking |-> row.booking, length |-> row.length,
                     no |-> opened + 1, busy |-> FALSE]
        /\ UNCHANGED <<calls, sent>>
        /\ opened \in 0 .. MaxModals /\ MaxModals \in Nat
        /\ row.booking \in Bookings /\ row.length \in Lengths
    BY <1>2 DEF OpenModal, CallInv, ListInv, Rows, AdminBookingsAssumption
  <2>2. opened' \in 0 .. MaxModals /\ opened + 1 \in 0 .. MaxModals
    BY <2>1
  <2>3. ModalOK'
    BY <2>1, <2>2 DEF ModalOK, Modals
  <2>4. QED BY <2>1, <2>2, <2>3 DEF CallInv, CallsOK
<1>3. QED BY <1>1, <1>2

LEMMA SendsKeep ==
    ASSUME AdminBookingsAssumption, TypeOK, ListInv, CallInv,
           \/ \E custom \in CustomAmounts \cup {-1} : Confirm(custom)
           \/ \E row \in list : MarkDone(row)
    PROVE  CallInv'
<1>1. ASSUME NEW custom \in CustomAmounts \cup {-1}, Confirm(custom)
      PROVE  CallInv'
  <2>1. /\ modal.kind # "none" /\ modal \in Modals /\ modal.booking \in Bookings
        /\ modal' = [modal EXCEPT !.busy = TRUE] /\ opened' = opened
        /\ Send(modal.kind, modal.booking, modal.length, modal.no, custom)
    BY <1>1 DEF Confirm, CallInv, ModalOK
  <2>2. /\ modal.kind \in {"charge", "cancel", "complete"} /\ modal.no \in 0 .. MaxModals
        /\ modal.length \in Lengths
    BY <2>1 DEF Modals
  <2>3. ModalOK'
    BY <2>1 DEF ModalOK, Modals
  <2>4. CallsOK' /\ sent' \in 0 .. MaxCalls
    BY <2>1, <2>2, SendKeeps
  <2>5. QED BY <2>1, <2>3, <2>4 DEF CallInv
<1>2. ASSUME NEW row \in list, MarkDone(row)
      PROVE  CallInv'
  <2>1. /\ Send("complete", row.booking, row.length, 0, -1) /\ UNCHANGED <<modal, opened>>
        /\ row.booking \in Bookings /\ row.length \in Lengths /\ 0 \in 0 .. MaxModals
    BY <1>2 DEF MarkDone, ListInv, Rows, AdminBookingsAssumption
  <2>2. CallsOK' /\ sent' \in 0 .. MaxCalls
    BY <2>1, SendKeeps
  <2>3. QED BY <2>1, <2>2 DEF CallInv, ModalOK
<1>3. QED BY <1>1, <1>2

\* The amount taken is in the range that may be charged.
LEMMA ServesKeep ==
    ASSUME AdminBookingsAssumption, TypeOK, CallInv, NEW c \in calls,
           ServePatch(c) \/ ServeCharge(c) \/ Refuse(c)
    PROVE  CallInv'
<1>1. UNCHANGED <<modal, opened, sent>> /\ 0 \in 0 .. MaxCharge
  BY DEF ServePatch, ServeCharge, Refuse, ServerStep, AdminBookingsAssumption
<1>2. PICK outcome \in {"done", "refused"}, amount \in 0 .. MaxCharge :
           Settled(c, outcome, amount)
  <2>1. CASE ServeCharge(c)
    <3>1. PICK amount \in 1 .. MaxCharge : Settled(c, "done", amount)
      BY <2>1 DEF ServeCharge
    <3>2. amount \in 0 .. MaxCharge
      BY DEF AdminBookingsAssumption
    <3>3. QED BY <3>1, <3>2
  <2>2. CASE ServePatch(c) \/ Refuse(c)
    BY <1>1, <2>2 DEF ServePatch, Refuse
  <2>3. QED BY <2>1, <2>2
<1>3. CallsOK'
  BY <1>1, <1>2, SettledKeeps
<1>4. QED BY <1>1, <1>3 DEF CallInv, ModalOK

LEMMA AnswersKeep ==
    ASSUME AdminBookingsAssumption, CallInv, NEW c \in calls, CallDone(c) \/ CallRefused(c)
    PROVE  CallInv'
<1>1. /\ calls' = calls \ {c} /\ UNCHANGED <<opened, sent>>
      /\ modal' \in {modal, NoModal, [modal EXCEPT !.busy = FALSE]}
  BY DEF CallDone, CallRefused
<1>2. CallsOK'
  BY <1>1 DEF CallInv, CallsOK, Shows
<1>3. ModalOK'
  <2>1. modal \in Modals => [modal EXCEPT !.busy = FALSE] \in Modals
    BY DEF Modals
  <2>2. modal'.kind \in {"none", modal.kind} /\ (modal'.kind # "none" => modal'.booking = modal.booking)
    BY <1>1, NoModalTyped DEF CallInv, ModalOK, Modals
  <2>3. QED BY <1>1, <2>1, <2>2, NoModalTyped DEF CallInv, ModalOK
<1>4. QED BY <1>1, <1>2, <1>3 DEF CallInv

LEMMA CallsKept ==
    ASSUME AdminBookingsAssumption, TypeOK, ListInv, CallInv, Next
    PROVE  CallInv'
<1>1. CASE Leave
  <2>1. modal' = NoModal /\ opened' = 0 /\ calls' = {} /\ sent' = 0
    BY <1>1 DEF Leave
  <2>2. ModalOK' /\ CallsOK'
    BY <2>1, NoModalTyped DEF ModalOK, CallsOK
  <2>3. QED BY <2>1, <2>2 DEF CallInv, AdminBookingsAssumption
<1>2. CASE UNCHANGED callVars
  BY <1>2 DEF callVars, CallInv, ModalOK, CallsOK, Shows
<1>3. QED BY <1>1, <1>2, DialogsKeep, SendsKeep, ServesKeep, AnswersKeep
  DEF Next, Stay, Open, SettingsArrive, ChangeFilter, SetFilter, Others, ServeList, ListArrives,
      ListFails

(***************************************************************************)
(* The page.                                                               *)
(***************************************************************************)
LEMMA PageParts ==
    /\ PageInv => TypeOK /\ ListInv /\ CallInv /\ ListMatchesFilter
    /\ TypeOK /\ ListInv /\ CallInv => PageInv
BY DEF PageInv, TypeOK, ListInv, CallInv, OnePerBooking, ModalOK, Modals, ListMatchesFilter

LEMMA PageInit ==
    ASSUME AdminBookingsAssumption, Closed
    PROVE  PageInv
<1>1. ListInv
  <2>1. /\ filter = Everything /\ list = {} /\ loading = TRUE /\ loads = 0
        /\ lists = {} /\ overtaken = FALSE
    BY DEF Closed
  <2>2. ListsOK /\ ListMatchesFilter /\ ShutOK /\ OnePerBooking(list)
    BY <2>1 DEF ListsOK, ListMatchesFilter, ShutOK, OnePerBooking
  <2>3. loads \in 0 .. MaxLoads
    BY <2>1 DEF AdminBookingsAssumption
  <2>4. QED BY <2>1, <2>2, <2>3, EverythingTyped DEF ListInv
<1>2. CallInv
  BY NoModalTyped DEF Closed, AdminBookingsAssumption, CallInv, ModalOK, CallsOK, Shows
<1>3. /\ page \in Pages
      /\ status \in [Bookings -> Status]
      /\ length \in [Bookings -> Lengths]
      /\ rate \in Rates
      /\ seenRate \in Rates \cup {0}
  BY LengthsTyped DEF Closed, AdminBookingsAssumption, Pages, Status
<1>4. lists = {}
  BY <1>1 DEF Closed, ListInv
<1>5. TypeOK
  BY <1>1, <1>2, <1>3, <1>4 DEF TypeOK, ListInv, OnePerBooking, CallInv, ModalOK, Modals, CallsOK
<1>6. QED BY <1>1, <1>2, <1>5, PageParts

LEMMA PageStep ==
    ASSUME AdminBookingsAssumption, PageInv, Next
    PROVE  PageInv'
<1>1. TypeOK /\ ListInv /\ CallInv /\ CallsOK
  BY PageParts DEF CallInv
<1>2. ListInv' /\ CallInv'
  BY <1>1, ListsKept, CallsKept
<1>3. TypeOK'
  <2>1. \A l \in lists' : /\ l.no \in 1 .. loads'
                          /\ l.filter \in Filters
                          /\ l.rows \subseteq Rows
                          /\ l.answered \in BOOLEAN
    BY <1>2 DEF ListInv, ListsOK, ListRecords
  <2>2. /\ modal'.kind \in {"none", "charge", "cancel"}
        /\ modal'.booking \in Bookings \cup {NoBooking}
        /\ modal'.length \in Lengths
    BY <1>2 DEF CallInv, ModalOK, Modals
  <2>3. QED BY <1>1, <1>2, <2>1, <2>2, ServerTyped
    DEF TypeOK, ListInv, OnePerBooking, CallInv, CallsOK
<1>4. QED BY <1>2, <1>3 DEF PageInv, ListInv, CallInv

LEMMA PageStutters ==
    ASSUME PageInv, UNCHANGED vars
    PROVE  PageInv'
BY DEF PageInv, TypeOK, ListsOK, ListMatchesFilter, ModalOK, CallsOK, Shows, ShutOK, Mounted, vars,
       NewestUnderWay, Matches,
       serverVars, listVars, callVars

\* What the other pages do while this one is not open.
LEMMA PageAside ==
    ASSUME PageInv, UNCHANGED <<serverVars, listVars, seenRate, callVars>>,
           page' \in Pages, ~Mounted, page' # "bookings"
    PROVE  PageInv'
<1>1. TypeOK'
  BY DEF PageInv, TypeOK, serverVars, listVars, callVars
<1>2. ListsOK' /\ ListMatchesFilter' /\ ModalOK' /\ CallsOK' /\ ShutOK'
  BY DEF PageInv, serverVars, listVars, callVars, ListsOK, ListMatchesFilter, NewestUnderWay,
         Matches, ModalOK, CallsOK, Shows, ShutOK
<1>3. QED BY <1>1, <1>2 DEF PageInv

(***************************************************************************)
(* The amount that is taken.                                               *)
(***************************************************************************)
ChargeAsShown(c, d) ==
    d.id = c.id /\ c.kind = "charge" /\ c.outcome = "sent" /\ d.outcome = "done" =>
      \/ d.taken = c.shown
      \/ /\ c.custom = -1
         /\ \/ c.length % 2 = 1
            \/ c.length # length[c.booking]
            \/ c.seen # rate
            \/ c.shown > MaxCharge

\* For whole hours at the rate seen, the server's product is the page's if an int32 holds it.
LEMMA AmountsAgree ==
    ASSUME AdminBookingsAssumption, TypeOK, NEW b \in Bookings, NEW n \in Lengths,
           n = length[b], n % 2 # 1, ~(ShownHours(n) * rate > MaxCharge)
    PROVE  AutoAmount(b) = ShownHours(n) * rate
<1>1. n \in Nat /\ rate \in Nat /\ MaxCharge \in 1 .. IntLimit - 1
      /\ IntLimit \in Nat \ {0}
  BY LengthsTyped DEF AdminBookingsAssumption, TypeOK
<1>2. n % 2 = 0
  BY <1>1
<1>3. AutoAmount(b) = Wrapped(ShownHours(n) * rate)
  BY <1>1, <1>2, WholeHours DEF AutoAmount, ShownHours
<1>4. ShownHours(n) \in Nat
  BY <1>1, ShownHoursNat
<1>5. ShownHours(n) * rate \in Nat
  BY <1>1, <1>4
<1>6. ShownHours(n) * rate \in 0 .. IntLimit - 1
  BY <1>1, <1>5
<1>7. QED BY <1>1, <1>3, <1>6, WrappedIsNothing

LEMMA ServeChargeAsShown ==
    ASSUME AdminBookingsAssumption, PageInv, NEW e \in calls, ServeCharge(e),
           NEW c \in calls, NEW d \in calls'
    PROVE  ChargeAsShown(c, d)
<1>1. SUFFICES ASSUME d.id = c.id, c.kind = "charge", c.outcome = "sent", d.outcome = "done"
               PROVE  \/ d.taken = c.shown
                      \/ /\ c.custom = -1
                         /\ \/ c.length % 2 = 1
                            \/ c.length # length[c.booking]
                            \/ c.seen # rate
                            \/ c.shown > MaxCharge
  BY DEF ChargeAsShown
<1> DEFINE amount == IF e.custom = -1 THEN AutoAmount(e.booking) ELSE e.custom
           settled == [e EXCEPT !.outcome = "done", !.taken = amount,
                                !.length = length[e.booking]]
<1>2. calls' = (calls \ {e}) \cup {settled} /\ rate \in Rates
  BY DEF ServeCharge, Settled, PageInv, TypeOK
<1>3. \A f \in calls : f \in Calls /\ (f.id = c.id => f = c)
  BY DEF PageInv, CallsOK
<1>4. settled.id = e.id /\ settled.taken = amount
  BY <1>3 DEF Calls
<1>5. c = e /\ d.taken = amount
  <2> HIDE DEF settled, amount
  <2>1. QED BY <1>1, <1>2, <1>3, <1>4
<1>6. /\ e.booking \in Bookings /\ e.length \in Lengths /\ TypeOK
      /\ e.shown = IF e.custom = -1 THEN ShownHours(e.length) * e.seen ELSE e.custom
  BY <1>1, <1>3, <1>5 DEF PageInv, CallsOK, Calls, Shows
<1>7. CASE e.custom # -1
  BY <1>5, <1>6, <1>7
<1>8. CASE e.custom = -1
  BY <1>2, <1>5, <1>6, <1>8, AmountsAgree
<1>9. QED BY <1>7, <1>8

\* A charge that is served keeps to the amount shown; no other step answers one.
LEMMA PageCharges ==
    ASSUME AdminBookingsAssumption, PageInv, Next, NEW c \in calls, NEW d \in calls'
    PROVE  ChargeAsShown(c, d)
<1>1. SUFFICES ASSUME d.id = c.id, c.kind = "charge", c.outcome = "sent", d.outcome = "done"
               PROVE  ChargeAsShown(c, d)
  BY DEF ChargeAsShown
<1>2. \A f, g \in calls : f.id = g.id => f = g
  BY DEF PageInv, CallsOK
<1>3. d \notin calls
  BY <1>1, <1>2
<1>4. PICK e \in calls : ServePatch(e) \/ ServeCharge(e) \/ Refuse(e)
  <2>1. ASSUME NEW kind, NEW b, NEW n, NEW no, NEW custom, Send(kind, b, n, no, custom)
        PROVE  FALSE
    BY <1>1, <1>3, <2>1 DEF Send
  <2>2. CASE calls' \subseteq calls
    BY <1>3, <2>2
  <2>3. QED BY <2>1, <2>2
    DEF Next, Stay, Open, Leave, SettingsArrive, ChangeFilter, SetFilter, CloseModal, Others,
        ServeList, ListArrives, ListFails, MarkDone, OpenModal, Confirm, CallDone, CallRefused,
        callVars
<1>5. ASSUME ServePatch(e)
      PROVE  FALSE
  <2>1. e.kind # "charge" /\ calls' = (calls \ {e})
               \cup {[e EXCEPT !.outcome = "done", !.taken = 0, !.length = length[e.booking]]}
    BY <1>5 DEF ServePatch, Settled
  <2>2. d.id = e.id
    BY <1>3, <2>1 DEF PageInv, CallsOK, Calls
  <2>3. QED BY <1>1, <1>2, <2>1, <2>2
<1>6. ASSUME Refuse(e)
      PROVE  FALSE
  <2>1. calls' = (calls \ {e})
               \cup {[e EXCEPT !.outcome = "refused", !.taken = 0, !.length = length[e.booking]]}
    BY <1>6 DEF Refuse, Settled
  <2>2. d.outcome = "refused"
    BY <1>3, <2>1 DEF PageInv, CallsOK, Calls
  <2>3. QED BY <1>1, <2>2
<1>7. QED BY <1>4, <1>5, <1>6, ServeChargeAsShown
=============================================================================
