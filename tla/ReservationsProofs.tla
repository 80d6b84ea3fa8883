-------------------------- MODULE ReservationsProofs --------------------------
(***************************************************************************)
(* Theorems about Reservations, for every set of rows, setup intents,      *)
(* requests, closures and periods.                                         *)
(***************************************************************************)
EXTENDS Reservations, TLAPS

(***************************************************************************)
(* The inductive invariant.                                                *)
(***************************************************************************)

\* A request under way carries an intent and a period.
RequestOK ==
    \A r \in Requests : request[r].pc # "idle" =>
        request[r].intent \in Intents /\ request[r].period \in Period

\* The unique index: a setup intent has one row at most.
OneRowPerIntent ==
    \A b, c \in Bookings : Present(b) /\ row[b].intent = row[c].intent => b = c

\* A booking that was named in a 201 is the intent's.
AnsweredRows == \A i \in Intents : \A b \in answered[i] : row[b].intent = i

\* So is the row a request has just inserted.
CreatedRows ==
    \A r \in Requests : request[r].pc = "created" =>
        /\ request[r].booking \in Bookings
        /\ row[request[r].booking].intent = request[r].intent

\* A card is given up together with a booking of its intent.
GivenUpCards == \A i \in Intents : card[i] = "givenUp" => \E b \in withdrawn : row[b].intent = i

\* What was validated stays clear of the closures that have not changed.
ValidatedPeriods ==
    \A r \in Requests : request[r].pc = "valid" =>
        \A c \in request[r].closed : ~Overlaps(request[r].period, closure[c])

BookInv ==
    /\ TypeOK
    /\ RequestOK
    /\ NoOverlap
    /\ OneRowPerIntent
    /\ AnsweredRows
    /\ CreatedRows
    /\ GivenUpCards
    /\ ValidatedPeriods

(***************************************************************************)
(* How the rows move.                                                      *)
(***************************************************************************)
LEMMA PeriodFacts ==
    ASSUME NEW p \in Period
    PROVE  p.from \in Nat /\ p.to \in Nat /\ p.from < p.to
BY ReservationsAssumption DEF Period

LEMMA WantedPeriods == Wanted \subseteq Period
BY ReservationsAssumption DEF Period

LEMMA RowFacts ==
    ASSUME TypeOK, NEW b \in Bookings
    PROVE  /\ row[b] \in Row
           /\ row[b].status \in Status \cup {"absent"}
           /\ Present(b) <=> row[b].intent \in Intents
           /\ Present(b) => row[b].period \in Period
           /\ ~Present(b) => row[b] = NoRow
BY ReservationsAssumption DEF TypeOK, Present, Row, NoRow

\* What a statement of the table does to the rows: nothing, one insert, or a change of the
\* status or the period of rows that are there.
SameRows ==
    \A b \in Bookings : row'[b].intent = row[b].intent /\ (Present(b))' = Present(b)

Moves == CompleteExpiredBookings
         \/ (\E b \in Bookings : CancelBooking(b))
         \/ (\E b \in Bookings, s \in PatchTargets : UpdateBookingStatus(b, s))
         \/ (\E b \in Bookings, t \in Hours : UpdateBookingEndTime(b, t))

LEMMA StatementsOnRows ==
    ASSUME [Next]_vars
    PROVE  row' = row \/ Moves \/ \E r \in Requests : CreateBooking(r)
BY DEF Next, vars, PrepareBooking, ConfirmCardSetup, Replay, Admit, Step, AnswerWith,
       GetPaymentMethodFromSetupIntent, ValidateBookingCreate, FailCreateBooking,
       AnswerCreated, Abandon, Moves, ChangeClosure

LEMMA MovesKeepRows ==
    ASSUME TypeOK, Moves
    PROVE  /\ row' \in [Bookings -> Row]
           /\ \A b \in Bookings : IF row'[b].status # "absent"
                                  THEN row'[b].intent \in Intents /\ row'[b].period \in Period
                                  ELSE row'[b] = NoRow
           /\ SameRows
<1>1. row \in [Bookings -> Row]
  BY DEF TypeOK
<1>2. CASE CompleteExpiredBookings
  <2>1. PICK over \in SUBSET {b \in Bookings : row[b].status = "confirmed"} :
          row' = [b \in Bookings |-> IF b \in over THEN [row[b] EXCEPT !.status = "finished"]
                                                   ELSE row[b]]
    BY <1>2 DEF CompleteExpiredBookings
  <2>2. QED BY <1>1, <2>1, RowFacts DEF SameRows, Present, Row, Status, NoRow
<1>3. CASE \E b \in Bookings : CancelBooking(b)
  <2>1. PICK b \in Bookings : CancelBooking(b)
    BY <1>3
  <2>2. QED BY <1>1, <2>1, RowFacts DEF CancelBooking, SameRows, Present, Row, Status, NoRow
<1>4. CASE \E b \in Bookings, s \in PatchTargets : UpdateBookingStatus(b, s)
  <2>1. PICK b \in Bookings, s \in PatchTargets : UpdateBookingStatus(b, s)
    BY <1>4
  <2>2. s \in Status
    BY ReservationsAssumption
  <2>3. QED BY <1>1, <2>1, <2>2, RowFacts
            DEF UpdateBookingStatus, SameRows, Present, Row, Status, NoRow
<1>5. CASE \E b \in Bookings, t \in Hours : UpdateBookingEndTime(b, t)
  <2>1. PICK b \in Bookings, t \in Hours : UpdateBookingEndTime(b, t)
    BY <1>5
  <2> DEFINE p == [row[b].period EXCEPT !.to = t]
  <2>2. p \in Period
    BY <2>1, RowFacts DEF UpdateBookingEndTime, Period
  <2>3. Present(b) /\ row' = [row EXCEPT ![b].period = p]
    BY <2>1 DEF UpdateBookingEndTime
  <2> HIDE DEF p
  <2>4. QED BY <1>1, <2>2, <2>3, RowFacts DEF SameRows, Present, Row, NoRow
<1>6. QED BY <1>2, <1>3, <1>4, <1>5 DEF Moves

\* The INSERT puts one new row beside the others.
LEMMA InsertedRow ==
    ASSUME TypeOK, RequestOK, NEW r \in Requests, CreateBooking(r)
    PROVE  \E b \in Bookings :
            /\ ~Present(b)
            /\ Fits(b, request[r].period)
            /\ row' = [row EXCEPT ![b] = [status |-> "confirmed", intent |-> request[r].intent,
                                          period |-> request[r].period]]
            /\ request' = [request EXCEPT ![r].pc = "created", ![r].booking = b]
            /\ request[r].intent \in Intents /\ request[r].period \in Period
            /\ Unused(request[r].intent)
BY DEF CreateBooking, RequestOK

(***************************************************************************)
(* How the requests move.                                                  *)
(***************************************************************************)

\* A request becomes idle, takes a step with its intent and period, or is admitted with an
\* unused intent; a changed closure only shortens what it may count on.
LEMMA StatementsOnRequests ==
    ASSUME [Next]_vars
    PROVE  \/ request' = request
           \/ \E r \in Requests : request' = [request EXCEPT ![r] = Idle]
           \/ \E r \in Requests, i \in Intents, p \in Wanted : Admit(r, i, p)
           \/ \E r \in Requests : GetPaymentMethodFromSetupIntent(r) \/ ValidateBookingCreate(r)
           \/ \E r \in Requests : CreateBooking(r)
           \/ \E c \in Closures, p \in Wanted \cup {NoPeriod} : ChangeClosure(c, p)
BY DEF Next, vars, Step, PrepareBooking, ConfirmCardSetup, Replay, AnswerWith,
       FailCreateBooking, AnswerCreated, Abandon, CompleteExpiredBookings, CancelBooking,
       UpdateBookingStatus, UpdateBookingEndTime

LEMMA RequestSteps ==
    ASSUME TypeOK, RequestOK, [Next]_vars
    PROVE  /\ request' \in [Requests -> Request]
           /\ RequestOK'
<1>1. request \in [Requests -> Request]
  BY DEF TypeOK
<1>2. Idle \in Request /\ Idle.pc = "idle"
  BY DEF Idle, Request
<1>3. CASE request' = request
  BY <1>1, <1>3 DEF RequestOK
<1>4. CASE \E r \in Requests : request' = [request EXCEPT ![r] = Idle]
  BY <1>1, <1>2, <1>4 DEF RequestOK
<1>5. CASE \E r \in Requests, i \in Intents, p \in Wanted : Admit(r, i, p)
  <2>1. PICK r \in Requests, i \in Intents, p \in Wanted : Admit(r, i, p)
    BY <1>5
  <2> DEFINE n == [pc |-> "admitted", intent |-> i, period |-> p,
                   booking |-> NoBooking, closed |-> Closures]
  <2>2. request' = [request EXCEPT ![r] = n]
    BY <2>1 DEF Admit
  <2>3. n \in Request /\ n.intent \in Intents /\ n.period \in Period
    BY WantedPeriods DEF Request
  <2> HIDE DEF n
  <2>4. QED BY <1>1, <2>2, <2>3 DEF RequestOK
<1>6. CASE \E r \in Requests : \/ GetPaymentMethodFromSetupIntent(r)
                               \/ ValidateBookingCreate(r)
  <2>1. PICK r \in Requests : request[r].pc # "idle" /\
          \E pc \in {"card", "valid"} : request' = [request EXCEPT ![r].pc = pc]
    BY <1>6 DEF GetPaymentMethodFromSetupIntent, ValidateBookingCreate
  <2>2. QED BY <1>1, <2>1 DEF RequestOK, Request
<1>7. CASE \E r \in Requests : CreateBooking(r)
  <2>1. PICK r \in Requests, b \in Bookings : request[r].pc = "valid" /\
          request' = [request EXCEPT ![r].pc = "created", ![r].booking = b]
    BY <1>7 DEF CreateBooking
  <2> DEFINE n == [request[r] EXCEPT !.pc = "created", !.booking = b]
  <2>2. request[r] \in Request /\ request[r].intent \in Intents /\ request[r].period \in Period
    BY <1>1, <2>1 DEF RequestOK
  <2>3. n \in Request /\ n.intent \in Intents /\ n.period \in Period
    BY <2>2 DEF Request
  <2>4. request' = [request EXCEPT ![r] = n]
    BY <1>1, <2>1, <2>2
  <2> HIDE DEF n
  <2>5. QED BY <1>1, <2>3, <2>4 DEF RequestOK
<1>8. CASE \E c \in Closures, p \in Wanted \cup {NoPeriod} : ChangeClosure(c, p)
  <2>1. PICK c \in Closures, p \in Wanted \cup {NoPeriod} : ChangeClosure(c, p)
    BY <1>8
  <2>2. request' = [r \in Requests |-> [request[r] EXCEPT !.closed = request[r].closed \ {c}]]
    BY <2>1 DEF ChangeClosure
  <2>3. QED BY <1>1, <2>2 DEF RequestOK, Request
<1>9. QED BY <1>3, <1>4, <1>5, <1>6, <1>7, <1>8, StatementsOnRequests

(***************************************************************************)
(* Type correctness.                                                       *)
(***************************************************************************)
LEMMA RowTypes ==
    ASSUME TypeOK, RequestOK, [Next]_vars
    PROVE  /\ row' \in [Bookings -> Row]
           /\ \A b \in Bookings : IF row'[b].status # "absent"
                                  THEN row'[b].intent \in Intents /\ row'[b].period \in Period
                                  ELSE row'[b] = NoRow
<1>1. CASE row' = row
  BY <1>1 DEF TypeOK, Present
<1>2. CASE \E r \in Requests : CreateBooking(r)
  <2>1. PICK r \in Requests, b \in Bookings :
          /\ row' = [row EXCEPT ![b] = [status |-> "confirmed", intent |-> request[r].intent,
                                        period |-> request[r].period]]
          /\ request[r].intent \in Intents /\ request[r].period \in Period
    BY <1>2, InsertedRow
  <2> DEFINE n == [status |-> "confirmed", intent |-> request[r].intent,
                   period |-> request[r].period]
  <2>2. n \in Row /\ n.status = "confirmed" /\ n.intent \in Intents /\ n.period \in Period
    BY <2>1 DEF Row, Status
  <2>3. row' = [row EXCEPT ![b] = n]
    BY <2>1
  <2> HIDE DEF n
  <2>4. QED BY <2>2, <2>3 DEF TypeOK, Present
<1>3. QED BY <1>1, <1>2, MovesKeepRows, StatementsOnRows

LEMMA StatementsOnAnswers ==
    ASSUME [Next]_vars
    PROVE  \/ answered' = answered
           \/ \E r \in Requests, i \in Intents : Replay(r, i)
           \/ \E r \in Requests : AnswerCreated(r)
BY DEF Next, vars, Step, PrepareBooking, ConfirmCardSetup, Admit, CreateBooking,
       GetPaymentMethodFromSetupIntent, ValidateBookingCreate, FailCreateBooking,
       Abandon, CompleteExpiredBookings, CancelBooking, ChangeClosure,
       UpdateBookingStatus, UpdateBookingEndTime

LEMMA StatementsOnCards ==
    ASSUME [Next]_vars
    PROVE  \/ card' = card
           \/ \E i \in Intents, p \in Wanted : PrepareBooking(i, p)
           \/ \E i \in Intents : ConfirmCardSetup(i)
           \/ \E b \in Bookings : CancelBooking(b)
BY DEF Next, vars, Step, Replay, AnswerWith, Admit, CreateBooking,
       GetPaymentMethodFromSetupIntent, ValidateBookingCreate, FailCreateBooking,
       AnswerCreated, Abandon, CompleteExpiredBookings, ChangeClosure,
       UpdateBookingStatus, UpdateBookingEndTime

LEMMA StatementsOnClosures ==
    ASSUME [Next]_vars
    PROVE  \/ closure' = closure
           \/ \E c \in Closures, p \in Wanted \cup {NoPeriod} : ChangeClosure(c, p)
BY DEF Next, vars, Step, PrepareBooking, ConfirmCardSetup, Replay, AnswerWith, Admit,
       CreateBooking, GetPaymentMethodFromSetupIntent, ValidateBookingCreate,
       FailCreateBooking, AnswerCreated, Abandon, CompleteExpiredBookings, CancelBooking,
       UpdateBookingStatus, UpdateBookingEndTime

\* The 201s name rows of the table.
LEMMA AnswerTypes ==
    ASSUME TypeOK, RequestOK, CreatedRows, [Next]_vars
    PROVE  answered' \in [Intents -> SUBSET Bookings]
<1>1. CASE answered' = answered
  BY <1>1 DEF TypeOK
<1>2. CASE \E r \in Requests, i \in Intents : Replay(r, i)
  BY <1>2 DEF Replay, AnswerWith, BookingsOf, TypeOK
<1>3. CASE \E r \in Requests : AnswerCreated(r)
  BY <1>3 DEF AnswerCreated, AnswerWith, TypeOK, RequestOK, CreatedRows
<1>4. QED BY <1>1, <1>2, <1>3, StatementsOnAnswers

LEMMA CardTypes ==
    ASSUME TypeOK, RequestOK, [Next]_vars
    PROVE  /\ card' \in [Intents -> {"none", "pending", "saved", "givenUp"}]
           /\ turnedAway' \subseteq Intents
           /\ withdrawn' \subseteq Bookings
<1>1. card' \in [Intents -> {"none", "pending", "saved", "givenUp"}]
  <2>1. CASE card' = card
    BY <2>1 DEF TypeOK
  <2>2. CASE \E i \in Intents, p \in Wanted : PrepareBooking(i, p)
    BY <2>2 DEF PrepareBooking, TypeOK
  <2>3. CASE \E i \in Intents : ConfirmCardSetup(i)
    BY <2>3 DEF ConfirmCardSetup, TypeOK
  <2>4. CASE \E b \in Bookings : CancelBooking(b)
    BY <2>4 DEF CancelBooking, TypeOK
  <2>5. QED BY <2>1, <2>2, <2>3, <2>4, StatementsOnCards
<1>2. turnedAway' \subseteq Intents
  <2>1. CASE turnedAway' = turnedAway
    BY <2>1 DEF TypeOK
  <2>2. CASE \E r \in Requests : FailCreateBooking(r)
    BY <2>2 DEF FailCreateBooking, TypeOK, RequestOK
  <2>3. QED BY <2>1, <2>2
        DEF Next, vars, Step, PrepareBooking, ConfirmCardSetup, Replay, AnswerWith, Admit,
         CreateBooking, GetPaymentMethodFromSetupIntent, ValidateBookingCreate,
         AnswerCreated, Abandon, CompleteExpiredBookings, CancelBooking, ChangeClosure,
         UpdateBookingStatus, UpdateBookingEndTime
<1>3. withdrawn' \subseteq Bookings
  BY DEF TypeOK, Next, vars, Step, PrepareBooking, ConfirmCardSetup, Replay, AnswerWith,
         Admit, CreateBooking, GetPaymentMethodFromSetupIntent, ValidateBookingCreate,
         FailCreateBooking, AnswerCreated, Abandon, CompleteExpiredBookings,
         CancelBooking, ChangeClosure, UpdateBookingStatus, UpdateBookingEndTime
<1>4. QED BY <1>1, <1>2, <1>3

LEMMA ClosureTypes ==
    ASSUME TypeOK, [Next]_vars
    PROVE  closure' \in [Closures -> Period \cup {NoPeriod}]
<1>1. CASE closure' = closure
  BY <1>1 DEF TypeOK
<1>2. CASE \E c \in Closures, p \in Wanted \cup {NoPeriod} : ChangeClosure(c, p)
  BY <1>2, WantedPeriods DEF ChangeClosure, TypeOK
<1>3. QED BY <1>1, <1>2, StatementsOnClosures

LEMMA NextTypes ==
    ASSUME TypeOK, RequestOK, CreatedRows, [Next]_vars
    PROVE  TypeOK' /\ RequestOK'
<1>1. TypeOK'
  BY RowTypes, RequestSteps, AnswerTypes, CardTypes, ClosureTypes DEF TypeOK, Present
<1>2. QED BY <1>1, RequestSteps

(***************************************************************************)
(* The invariant is inductive.                                             *)
(***************************************************************************)

\* The intent of a row never changes.
LEMMA IntentsStay ==
    ASSUME TypeOK, RequestOK, [Next]_vars, NEW b \in Bookings, row[b].intent \in Intents
    PROVE  row'[b].intent = row[b].intent
<1>1. CASE row' = row
  BY <1>1
<1>2. CASE Moves
  BY <1>2, MovesKeepRows DEF SameRows
<1>3. CASE \E r \in Requests : CreateBooking(r)
  <2>1. PICK c \in Bookings : ~Present(c) /\ \A d \in Bookings \ {c} : row'[d] = row[d]
    BY <1>3, InsertedRow DEF TypeOK
  <2>2. c # b
    BY <2>1, RowFacts
  <2>3. QED BY <2>1, <2>2
<1>4. QED BY <1>1, <1>2, <1>3, StatementsOnRows

\* One row takes a new period, or comes alive, where the constraint lets it.
LEMMA FittingRow ==
    ASSUME NoOverlap, NEW b \in Bookings,
           \A c \in Bookings \ {b} : row'[c] = row[c],
           (Live(b))' => Fits(b, row'[b].period)
    PROVE  NoOverlap'
<1> SUFFICES ASSUME NEW c \in Bookings, NEW d \in Bookings, c # d, (Live(c))', (Live(d))'
             PROVE  ~Overlaps(row'[c].period, row'[d].period)
  BY DEF NoOverlap
<1>1. CASE c # b /\ d # b
  BY <1>1 DEF NoOverlap, Live
<1>2. CASE c = b
  BY <1>2 DEF Fits, Live
<1>3. CASE d = b
  BY <1>3 DEF Fits, Live, Overlaps
<1>4. QED BY <1>1, <1>2, <1>3

LEMMA NextNoOverlap ==
    ASSUME BookInv, [Next]_vars
    PROVE  NoOverlap'
<1>0. TypeOK /\ RequestOK /\ NoOverlap /\ row \in [Bookings -> Row]
  BY DEF BookInv, TypeOK
<1>1. CASE row' = row
  BY <1>0, <1>1 DEF NoOverlap, Live
<1>2. CASE \E r \in Requests : CreateBooking(r)
  <2>1. PICK r \in Requests, b \in Bookings :
          /\ Fits(b, request[r].period)
          /\ row' = [row EXCEPT ![b] = [status |-> "confirmed", intent |-> request[r].intent,
                                        period |-> request[r].period]]
    BY <1>0, <1>2, InsertedRow
  <2>2. row'[b].period = request[r].period /\ \A c \in Bookings \ {b} : row'[c] = row[c]
    BY <1>0, <2>1
  <2>3. QED BY <1>0, <2>1, <2>2, FittingRow
<1>3. CASE CompleteExpiredBookings
  <2>1. \A b \in Bookings : row'[b].period = row[b].period /\ ((Live(b))' => Live(b))
    <3>1. PICK over \in SUBSET {b \in Bookings : row[b].status = "confirmed"} :
            row' = [b \in Bookings |-> IF b \in over THEN [row[b] EXCEPT !.status = "finished"]
                                                     ELSE row[b]]
      BY <1>3 DEF CompleteExpiredBookings
    <3>2. QED BY <1>0, <3>1 DEF Live, Row
  <2>2. QED BY <1>0, <2>1 DEF NoOverlap
<1>4. CASE \E b \in Bookings : CancelBooking(b)
  <2>1. PICK b \in Bookings : CancelBooking(b)
    BY <1>4
  <2>2. row'[b].status = "cancelled" /\ \A c \in Bookings \ {b} : row'[c] = row[c]
    BY <1>0, <2>1 DEF CancelBooking, Row
  <2>3. QED BY <1>0, <2>2, FittingRow DEF Live
<1>5. CASE \E b \in Bookings, s \in PatchTargets : UpdateBookingStatus(b, s)
  <2>1. PICK b \in Bookings, s \in PatchTargets : UpdateBookingStatus(b, s)
    BY <1>5
  <2>2. /\ row'[b].status = s /\ row'[b].period = row[b].period
        /\ \A c \in Bookings \ {b} : row'[c] = row[c]
        /\ s # "cancelled" => Fits(b, row[b].period)
    BY <1>0, <2>1 DEF UpdateBookingStatus, Row
  <2>3. QED BY <1>0, <2>2, FittingRow DEF Live
<1>6. CASE \E b \in Bookings, t \in Hours : UpdateBookingEndTime(b, t)
  <2>1. PICK b \in Bookings, t \in Hours : UpdateBookingEndTime(b, t)
    BY <1>6
  <2> DEFINE p == [row[b].period EXCEPT !.to = t]
  <2>2. row' = [row EXCEPT ![b].period = p] /\ (Live(b) => Fits(b, p))
    BY <2>1 DEF UpdateBookingEndTime
  <2> HIDE DEF p
  <2>3. /\ row'[b].status = row[b].status /\ row'[b].period = p
        /\ \A c \in Bookings \ {b} : row'[c] = row[c]
    BY <1>0, <2>2 DEF Row
  <2>4. QED BY <1>0, <2>2, <2>3, FittingRow DEF Live
<1>7. QED BY <1>1, <1>2, <1>3, <1>4, <1>5, <1>6, StatementsOnRows DEF Moves

LEMMA NextOneRow ==
    ASSUME BookInv, [Next]_vars
    PROVE  OneRowPerIntent'
<1>0. TypeOK /\ RequestOK /\ OneRowPerIntent /\ row \in [Bookings -> Row]
  BY DEF BookInv, TypeOK
<1>1. CASE row' = row
  BY <1>0, <1>1 DEF OneRowPerIntent, Present
<1>2. CASE Moves
  BY <1>0, <1>2, MovesKeepRows DEF OneRowPerIntent, SameRows
<1>3. CASE \E r \in Requests : CreateBooking(r)
  <2>1. PICK r \in Requests, b \in Bookings :
          /\ row' = [row EXCEPT ![b] = [status |-> "confirmed", intent |-> request[r].intent,
                                        period |-> request[r].period]]
          /\ Unused(request[r].intent)
    BY <1>0, <1>3, InsertedRow
  <2>2. /\ row'[b].intent = request[r].intent
        /\ \A c \in Bookings \ {b} : row'[c] = row[c]
        /\ \A c \in Bookings : row[c].intent # request[r].intent
    BY <1>0, <2>1 DEF Unused, BookingsOf
  <2>3. QED BY <1>0, <2>2 DEF OneRowPerIntent, Present
<1>4. QED BY <1>1, <1>2, <1>3, StatementsOnRows

LEMMA NextAnsweredRows ==
    ASSUME BookInv, [Next]_vars
    PROVE  AnsweredRows'
<1>0. /\ TypeOK /\ RequestOK /\ AnsweredRows /\ CreatedRows
      /\ answered \in [Intents -> SUBSET Bookings]
  BY DEF BookInv, TypeOK
<1>1. \A i \in Intents : \A b \in answered[i] : row'[b].intent = i
  BY <1>0, IntentsStay DEF AnsweredRows
<1>2. CASE answered' = answered
  BY <1>1, <1>2 DEF AnsweredRows
<1>3. CASE \E r \in Requests, i \in Intents : Replay(r, i)
  <2>1. PICK r \in Requests, i \in Intents : Replay(r, i)
    BY <1>3
  <2>2. PICK b \in BookingsOf(i) : answered' = [answered EXCEPT ![i] = answered[i] \cup {b}]
                                  /\ row' = row
    BY <2>1 DEF Replay, AnswerWith
  <2>3. QED BY <1>0, <1>1, <2>2 DEF AnsweredRows, BookingsOf
<1>4. CASE \E r \in Requests : AnswerCreated(r)
  <2>1. PICK r \in Requests : AnswerCreated(r)
    BY <1>4
  <2> DEFINE i == request[r].intent
             b == request[r].booking
  <2>2. /\ answered' = [answered EXCEPT ![i] = answered[i] \cup {b}]
        /\ row' = row /\ row[b].intent = i
    BY <1>0, <2>1 DEF AnswerCreated, AnswerWith, CreatedRows
  <2> HIDE DEF i, b
  <2>3. QED BY <1>0, <1>1, <2>2 DEF AnsweredRows
<1>5. QED BY <1>2, <1>3, <1>4, StatementsOnAnswers

LEMMA NextCreatedRows ==
    ASSUME BookInv, [Next]_vars
    PROVE  CreatedRows'
<1>0. /\ TypeOK /\ RequestOK /\ CreatedRows
      /\ request \in [Requests -> Request] /\ row \in [Bookings -> Row]
  BY DEF BookInv, TypeOK
<1>1. \A r \in Requests : request[r].pc = "created" =>
        request[r].booking \in Bookings /\ row'[request[r].booking].intent = request[r].intent
  BY <1>0, IntentsStay DEF CreatedRows, RequestOK
<1> SUFFICES ASSUME NEW r \in Requests, request'[r].pc = "created"
             PROVE  /\ request'[r].booking \in Bookings
                    /\ row'[request'[r].booking].intent = request'[r].intent
  BY DEF CreatedRows
<1>2. CASE \E q \in Requests : CreateBooking(q)
  <2>1. PICK q \in Requests : CreateBooking(q)
    BY <1>2
  <2>2. PICK b \in Bookings :
          /\ row' = [row EXCEPT ![b] = [status |-> "confirmed", intent |-> request[q].intent,
                                        period |-> request[q].period]]
          /\ request' = [request EXCEPT ![q].pc = "created", ![q].booking = b]
    BY <1>0, <2>1, InsertedRow
  <2>3. CASE r = q
    <3>1. request'[r].booking = b /\ request'[r].intent = request[q].intent
      BY <1>0, <2>2, <2>3 DEF Request
    <3>2. QED BY <1>0, <2>2, <3>1
  <2>4. CASE r # q
    BY <1>0, <1>1, <2>2, <2>4
  <2>5. QED BY <2>3, <2>4
<1>3. CASE request' = request
  BY <1>1, <1>3
<1>4. CASE \E q \in Requests : request' = [request EXCEPT ![q] = Idle]
  BY <1>0, <1>1, <1>4 DEF Idle
<1>5. CASE \E q \in Requests, i \in Intents, p \in Wanted : Admit(q, i, p)
  BY <1>0, <1>1, <1>5 DEF Admit
<1>6. CASE \E q \in Requests : GetPaymentMethodFromSetupIntent(q) \/ ValidateBookingCreate(q)
  <2>1. PICK q \in Requests : \E pc \in {"card", "valid"} : request' = [request EXCEPT ![q].pc = pc]
    BY <1>6 DEF GetPaymentMethodFromSetupIntent, ValidateBookingCreate
  <2>2. QED BY <1>0, <1>1, <2>1 DEF Request
<1>7. CASE \E c \in Closures, p \in Wanted \cup {NoPeriod} : ChangeClosure(c, p)
  <2>1. PICK c \in Closures :
          request' = [q \in Requests |-> [request[q] EXCEPT !.closed = request[q].closed \ {c}]]
    BY <1>7 DEF ChangeClosure
  <2>2. QED BY <1>0, <1>1, <2>1 DEF Request
<1>8. QED BY <1>2, <1>3, <1>4, <1>5, <1>6, <1>7, StatementsOnRequests

LEMMA NextGivenUpCards ==
    ASSUME BookInv, [Next]_vars
    PROVE  GivenUpCards'
<1>0. /\ TypeOK /\ RequestOK /\ GivenUpCards /\ withdrawn \subseteq Bookings
      /\ card \in [Intents -> {"none", "pending", "saved", "givenUp"}]
  BY DEF BookInv, TypeOK
<1>1. withdrawn \subseteq withdrawn'
  BY DEF Next, vars, Step, PrepareBooking, ConfirmCardSetup, Replay, AnswerWith, Admit,
         CreateBooking, GetPaymentMethodFromSetupIntent, ValidateBookingCreate,
         FailCreateBooking, AnswerCreated, Abandon, CompleteExpiredBookings,
         CancelBooking, ChangeClosure, UpdateBookingStatus, UpdateBookingEndTime
<1>2. \A i \in Intents : card[i] = "givenUp" => \E b \in withdrawn' : row'[b].intent = i
  BY <1>0, <1>1, IntentsStay DEF GivenUpCards
<1>3. CASE card' = card
  BY <1>2, <1>3 DEF GivenUpCards
<1>4. CASE \E i \in Intents, p \in Wanted : PrepareBooking(i, p)
  BY <1>0, <1>2, <1>4 DEF PrepareBooking, GivenUpCards
<1>5. CASE \E i \in Intents : ConfirmCardSetup(i)
  BY <1>0, <1>2, <1>5 DEF ConfirmCardSetup, GivenUpCards
<1>6. CASE \E b \in Bookings : CancelBooking(b)
  <2>1. PICK b \in Bookings : CancelBooking(b)
    BY <1>6
  <2>2. row[b].intent \in Intents
    BY <1>0, <2>1, RowFacts DEF CancelBooking, Present
  <2>3. row'[b].intent = row[b].intent
    BY <1>0, <2>2, IntentsStay
  <2>4. /\ b \in withdrawn'
        /\ \A i \in Intents \ {row[b].intent} : card'[i] = card[i]
    BY <1>0, <2>1, <2>2 DEF CancelBooking
  <2>5. QED BY <1>2, <2>3, <2>4 DEF GivenUpCards
<1>7. QED BY <1>3, <1>4, <1>5, <1>6, StatementsOnCards

LEMMA NextValidatedPeriods ==
    ASSUME BookInv, [Next]_vars
    PROVE  ValidatedPeriods'
<1>0. /\ TypeOK /\ ValidatedPeriods /\ request \in [Requests -> Request]
      /\ closure \in [Closures -> Period \cup {NoPeriod}]
  BY DEF BookInv, TypeOK
<1>1. CASE \E c \in Closures, p \in Wanted \cup {NoPeriod} : ChangeClosure(c, p)
  <2>1. PICK c \in Closures, p \in Wanted \cup {NoPeriod} : ChangeClosure(c, p)
    BY <1>1
  <2>2. /\ request' = [q \in Requests |-> [request[q] EXCEPT !.closed = request[q].closed \ {c}]]
        /\ \A d \in Closures \ {c} : closure'[d] = closure[d]
    BY <1>0, <2>1 DEF ChangeClosure
  <2>3. \A q \in Requests : /\ request'[q].pc = request[q].pc
                            /\ request'[q].period = request[q].period
                            /\ request'[q].closed = request[q].closed \ {c}
    BY <1>0, <2>2 DEF Request
  <2>4. \A q \in Requests : request[q].closed \subseteq Closures
    BY <1>0 DEF Request
  <2>5. QED BY <1>0, <2>2, <2>3, <2>4 DEF ValidatedPeriods
<1>2. ASSUME ~ \E c \in Closures, p \in Wanted \cup {NoPeriod} : ChangeClosure(c, p),
             NEW r \in Requests, request'[r].pc = "valid"
      PROVE  \/ request'[r] = request[r]
             \/ ValidateBookingCreate(r)
  <2>1. CASE request' = request
    BY <2>1
  <2>2. CASE \E q \in Requests : request' = [request EXCEPT ![q] = Idle]
    BY <1>0, <1>2, <2>2 DEF Idle
  <2>3. CASE \E q \in Requests, i \in Intents, p \in Wanted : Admit(q, i, p)
    BY <1>0, <1>2, <2>3 DEF Admit
  <2>4. CASE \E q \in Requests : GetPaymentMethodFromSetupIntent(q)
    BY <1>0, <1>2, <2>4 DEF GetPaymentMethodFromSetupIntent, Request
  <2>5. CASE \E q \in Requests : ValidateBookingCreate(q)
    BY <1>0, <1>2, <2>5 DEF ValidateBookingCreate, Request
  <2>6. CASE \E q \in Requests : CreateBooking(q)
    BY <1>0, <1>2, <2>6 DEF CreateBooking, Request
  <2>7. QED BY <1>2, <2>1, <2>2, <2>3, <2>4, <2>5, <2>6, StatementsOnRequests
<1>3. CASE ~ \E c \in Closures, p \in Wanted \cup {NoPeriod} : ChangeClosure(c, p)
  <2>1. closure' = closure
    BY <1>3, StatementsOnClosures
  <2> SUFFICES ASSUME NEW r \in Requests, request'[r].pc = "valid", NEW c \in request'[r].closed
               PROVE  ~Overlaps(request'[r].period, closure'[c])
    BY DEF ValidatedPeriods
  <2>2. CASE request'[r] = request[r]
    BY <1>0, <2>1, <2>2 DEF ValidatedPeriods
  <2>3. CASE ValidateBookingCreate(r)
    <3>1. /\ request'[r].period = request[r].period /\ request'[r].closed = request[r].closed
          /\ request[r].closed \subseteq Closures
      BY <1>0, <2>3 DEF ValidateBookingCreate, Request
    <3>2. QED BY <2>1, <2>3, <3>1 DEF ValidateBookingCreate
  <2>4. QED BY <1>2, <1>3, <2>2, <2>3
<1>4. QED BY <1>1, <1>3

LEMMA InitBookInv == Init => BookInv
<1> SUFFICES ASSUME Init PROVE BookInv
  OBVIOUS
<1>1. TypeOK
  BY DEF Init, TypeOK, NoRow, Row, Present, Idle, Request
<1>2. QED BY <1>1, ReservationsAssumption
          DEF Init, BookInv, RequestOK, NoOverlap, Live, OneRowPerIntent, Present, NoRow,
              AnsweredRows, CreatedRows, GivenUpCards, ValidatedPeriods, Idle

LEMMA BookInvariant == Spec => []BookInv
<1>1. BookInv /\ [Next]_vars => BookInv'
  <2> SUFFICES ASSUME BookInv, [Next]_vars PROVE BookInv'
    OBVIOUS
  <2>1. TypeOK' /\ RequestOK'
    BY NextTypes DEF BookInv
  <2>2. NoOverlap' /\ OneRowPerIntent'
    BY NextNoOverlap, NextOneRow
  <2>3. AnsweredRows' /\ CreatedRows'
    BY NextAnsweredRows, NextCreatedRows
  <2>4. GivenUpCards' /\ ValidatedPeriods'
    BY NextGivenUpCards, NextValidatedPeriods
  <2>5. QED BY <2>1, <2>2, <2>3, <2>4 DEF BookInv
<1>2. QED BY <1>1, InitBookInv, PTL DEF Spec

(***************************************************************************)
(* The theorems.                                                           *)
(***************************************************************************)

\* Every reachable state is type-correct, and a row is whole or absent.
THEOREM TypeCorrect == Spec => []TypeOK
<1>1. BookInv => TypeOK
  BY DEF BookInv
<1>2. QED BY <1>1, BookInvariant, PTL

\* Two live bookings never share an hour, whatever requests, customers and admins do.
THEOREM NeverDoubleBooked == Spec => []NoOverlap
<1>1. BookInv => NoOverlap
  BY DEF BookInv
<1>2. QED BY <1>1, BookInvariant, PTL

\* Every 201 for a setup intent names its one booking.
THEOREM AnswersNameOneBooking == Spec => []AnswersAgree
<1>1. BookInv => AnswersAgree
  <2> SUFFICES ASSUME BookInv, NEW i \in Intents, NEW b \in answered[i]
               PROVE  answered[i] = {b} /\ BookingsOf(i) = {b}
    BY DEF AnswersAgree
  <2>1. answered[i] \subseteq Bookings /\ AnsweredRows /\ OneRowPerIntent /\ TypeOK
    BY DEF BookInv, TypeOK
  <2>2. \A c \in answered[i] : c \in BookingsOf(i)
    BY <2>1 DEF AnsweredRows, BookingsOf
  <2>3. \A c \in BookingsOf(i) : c = b
    BY <2>1, <2>2, RowFacts DEF OneRowPerIntent, BookingsOf
  <2>4. QED BY <2>2, <2>3
<1>2. QED BY <1>1, BookInvariant, PTL

\* Only the customer's own cancel costs a booking its card.
THEOREM CardsAreLostByWithdrawalOnly == Spec => []DetachedCardsWereWithdrawn
<1>1. BookInv => DetachedCardsWereWithdrawn
  <2> SUFFICES ASSUME BookInv, NEW b \in Bookings, Present(b), card[row[b].intent] = "givenUp"
               PROVE  b \in withdrawn
    BY DEF DetachedCardsWereWithdrawn
  <2>1. TypeOK /\ OneRowPerIntent /\ GivenUpCards /\ withdrawn \subseteq Bookings
    BY DEF BookInv, TypeOK
  <2>2. row[b].intent \in Intents
    BY <2>1, RowFacts
  <2>3. PICK c \in withdrawn : row[c].intent = row[b].intent
    BY <2>1, <2>2 DEF GivenUpCards
  <2>4. QED BY <2>1, <2>3 DEF OneRowPerIntent
<1>2. QED BY <1>1, BookInvariant, PTL

\* An insert keeps clear of every closure that stood unchanged since its request came.
THEOREM InsertsRespectClosures == Spec => ClosedPeriodsStayFree
<1> DEFINE A == \A b \in Bookings, r \in Requests :
                  ~Present(b) /\ request[r].booking # b /\ request'[r].booking = b =>
                    \A c \in request[r].closed : ~Overlaps(row'[b].period, closure[c])
<1>1. ASSUME BookInv, [Next]_vars PROVE A
  <2> SUFFICES ASSUME NEW b \in Bookings, NEW r \in Requests,
                      request[r].booking # b, request'[r].booking = b
               PROVE  \A c \in request[r].closed : ~Overlaps(row'[b].period, closure[c])
    OBVIOUS
  <2>0. /\ TypeOK /\ RequestOK /\ ValidatedPeriods /\ NoBooking \notin Bookings
        /\ request \in [Requests -> Request] /\ row \in [Bookings -> Row]
    BY <1>1, ReservationsAssumption DEF BookInv, TypeOK
  <2>1. CASE request' = request
    BY <2>1
  <2>2. CASE \E q \in Requests : request' = [request EXCEPT ![q] = Idle]
    BY <2>0, <2>2 DEF Idle
  <2>3. CASE \E q \in Requests, i \in Intents, p \in Wanted : Admit(q, i, p)
    BY <2>0, <2>3 DEF Admit
  <2>4. CASE \E q \in Requests : GetPaymentMethodFromSetupIntent(q) \/ ValidateBookingCreate(q)
    <3>1. PICK q \in Requests : \E pc \in {"card", "valid"} : request' = [request EXCEPT ![q].pc = pc]
      BY <2>4 DEF GetPaymentMethodFromSetupIntent, ValidateBookingCreate
    <3>2. QED BY <2>0, <3>1 DEF Request
  <2>5. CASE \E c \in Closures, p \in Wanted \cup {NoPeriod} : ChangeClosure(c, p)
    <3>1. PICK c \in Closures :
          request' = [q \in Requests |-> [request[q] EXCEPT !.closed = request[q].closed \ {c}]]
      BY <2>5 DEF ChangeClosure
    <3>2. QED BY <2>0, <3>1 DEF Request
  <2>6. CASE \E q \in Requests : CreateBooking(q)
    <3>1. PICK q \in Requests : CreateBooking(q)
      BY <2>6
    <3>2. PICK c \in Bookings :
            /\ row' = [row EXCEPT ![c] = [status |-> "confirmed", intent |-> request[q].intent,
                                          period |-> request[q].period]]
            /\ request' = [request EXCEPT ![q].pc = "created", ![q].booking = c]
      BY <2>0, <3>1, InsertedRow
    <3>3. q = r /\ c = b
      BY <2>0, <3>2 DEF Request
    <3>4. row'[b].period = request[r].period /\ request[r].pc = "valid"
      BY <2>0, <3>1, <3>2, <3>3 DEF CreateBooking
    <3>5. QED BY <2>0, <3>4 DEF ValidatedPeriods
  <2>7. QED BY <1>1, <2>1, <2>2, <2>3, <2>4, <2>5, <2>6, StatementsOnRequests
<1>2. BookInv /\ [Next]_vars => A
  BY <1>1
<1>3. QED BY <1>2, BookInvariant, PTL DEF Spec, ClosedPeriodsStayFree

(***************************************************************************)
(* Reservations implements Calendar.                                       *)
(***************************************************************************)
heldBar == [b \in Bookings |-> IF Live(b) THEN {row[b].period} ELSE {}]

\* The constraint is what Calendar asks for.
LEMMA FitsIsFree ==
    ASSUME TypeOK, NEW b \in Bookings, NEW p \in Period, Fits(b, p)
    PROVE  Booked!Free(b, p)
<1> SUFFICES ASSUME NEW c \in Bookings \ {b}, NEW q \in heldBar[c]
             PROVE  Booked!Disjoint(p, q)
  BY DEF Booked!Free, heldBar
<1>1. Live(c) /\ q = row[c].period
  BY DEF heldBar
<1>2. q \in Period
  BY <1>1, RowFacts DEF Live, Present
<1>3. ~Overlaps(p, q)
  BY <1>1 DEF Fits
<1>4. p.from \in Nat /\ p.to \in Nat /\ q.from \in Nat /\ q.to \in Nat
  BY <1>2, PeriodFacts
<1>5. QED BY <1>3, <1>4 DEF Overlaps, Booked!Disjoint

\* Calendar's three actions, from what happens to one row.
LEMMA OneHolder ==
    ASSUME TypeOK, NEW b \in Bookings, \A c \in Bookings \ {b} : row'[c] = row[c]
    PROVE  /\ \A c \in Bookings \ {b} : heldBar'[c] = heldBar[c]
           /\ heldBar' = [heldBar EXCEPT ![b] = heldBar'[b]]
           /\ heldBar[b] = IF Live(b) THEN {row[b].period} ELSE {}
           /\ heldBar'[b] = IF row'[b].status \notin {"absent", "cancelled"}
                            THEN {row'[b].period} ELSE {}
<1>1. \A c \in Bookings \ {b} : heldBar'[c] = heldBar[c]
  BY DEF heldBar, Live
<1>2. /\ heldBar[b] = IF Live(b) THEN {row[b].period} ELSE {}
      /\ heldBar'[b] = IF row'[b].status \notin {"absent", "cancelled"}
                       THEN {row'[b].period} ELSE {}
  BY DEF heldBar, Live
<1>3. heldBar = [c \in Bookings |-> heldBar[c]] /\ heldBar' = [c \in Bookings |-> heldBar'[c]]
  BY DEF heldBar
<1>4. heldBar' = [heldBar EXCEPT ![b] = heldBar'[b]]
  <2> DEFINE g == heldBar
             h == heldBar'
  <2>1. /\ g = [c \in Bookings |-> g[c]] /\ h = [c \in Bookings |-> h[c]]
        /\ \A c \in Bookings \ {b} : h[c] = g[c]
    BY <1>1, <1>3
  <2> HIDE DEF g, h
  <2>2. h = [g EXCEPT ![b] = h[b]]
    BY <2>1
  <2>3. QED BY <2>2 DEF g, h
<1>5. QED BY <1>1, <1>2, <1>4

LEMMA RowMoveIsCalendarMove ==
    ASSUME TypeOK, NEW b \in Bookings, \A c \in Bookings \ {b} : row'[c] = row[c],
           row'[b].status \notin {"absent", "cancelled"} =>
                row'[b].period \in Period /\ Fits(b, row'[b].period),
           Live(b) => row'[b].period.from = row[b].period.from
    PROVE  Booked!Reserve(b) \/ Booked!Release(b) \/ Booked!Resize(b) \/ heldBar' = heldBar
<1>1. CASE row'[b].status \notin {"absent", "cancelled"} /\ ~Live(b)
  <2> DEFINE p == row'[b].period
  <2>1. Booked!Free(b, p)
    BY <1>1, FitsIsFree
  <2>2. heldBar[b] = {} /\ heldBar'[b] = {p} /\ heldBar' = [heldBar EXCEPT ![b] = {p}]
    BY <1>1, OneHolder
  <2>3. QED BY <2>1, <2>2 DEF Booked!Reserve, heldBar
<1>2. CASE row'[b].status \notin {"absent", "cancelled"} /\ Live(b)
  <2> DEFINE q == row'[b].period
             p == row[b].period
  <2>1. Booked!Free(b, q) /\ q.from = p.from
    BY <1>2, FitsIsFree
  <2>2. heldBar[b] = {p} /\ heldBar'[b] = {q} /\ heldBar' = [heldBar EXCEPT ![b] = {q}]
    BY <1>2, OneHolder
  <2>3. QED BY <2>1, <2>2 DEF Booked!Resize, heldBar
<1>3. CASE row'[b].status \in {"absent", "cancelled"} /\ Live(b)
  <2>1. heldBar[b] # {} /\ heldBar' = [heldBar EXCEPT ![b] = {}]
    BY <1>3, OneHolder
  <2>2. QED BY <2>1 DEF Booked!Release, heldBar
<1>4. CASE row'[b].status \in {"absent", "cancelled"} /\ ~Live(b)
  <2>1. heldBar'[b] = heldBar[b]
    BY <1>4, OneHolder
  <2>2. \A c \in Bookings : heldBar'[c] = heldBar[c]
    BY <2>1, OneHolder
  <2>3. heldBar = [c \in Bookings |-> heldBar[c]] /\ heldBar' = [c \in Bookings |-> heldBar'[c]]
    BY DEF heldBar
  <2>4. heldBar' = heldBar
    <3> DEFINE g == heldBar
               h == heldBar'
    <3>1. /\ g = [c \in Bookings |-> g[c]] /\ h = [c \in Bookings |-> h[c]]
          /\ \A c \in Bookings : h[c] = g[c]
      BY <2>2, <2>3
    <3> HIDE DEF g, h
    <3>2. h = g
      BY <3>1
    <3>3. QED BY <3>2 DEF g, h
  <2>5. QED BY <2>4
<1>5. QED BY <1>1, <1>2, <1>3, <1>4

\* Every statement on the table is one of Calendar's actions or leaves the held periods alone.
LEMMA StatementIsCalendarMove ==
    ASSUME BookInv, [Next]_vars
    PROVE  heldBar' = heldBar \/ \E b \in Bookings :
                Booked!Reserve(b) \/ Booked!Release(b) \/ Booked!Resize(b)
<1>1. TypeOK /\ RequestOK /\ row \in [Bookings -> Row]
  BY DEF BookInv, TypeOK
<1>2. CASE row' = row
  BY <1>2 DEF heldBar, Live
<1>3. CASE \E r \in Requests : CreateBooking(r)
  <2>1. PICK r \in Requests : CreateBooking(r)
    BY <1>3
  <2>2. PICK b \in Bookings :
          /\ ~Present(b)
          /\ Fits(b, request[r].period)
          /\ row' = [row EXCEPT ![b] = [status |-> "confirmed", intent |-> request[r].intent,
                                        period |-> request[r].period]]
          /\ request[r].period \in Period
    BY <1>1, <2>1, InsertedRow
  <2>3. /\ \A c \in Bookings \ {b} : row'[c] = row[c]
        /\ row'[b].period = request[r].period
        /\ ~Live(b)
    BY <1>1, <2>2 DEF Live, Present
  <2>4. QED BY <1>1, <2>2, <2>3, RowMoveIsCalendarMove
<1>4. CASE CompleteExpiredBookings
  <2>1. PICK over \in SUBSET {b \in Bookings : row[b].status = "confirmed"} :
          row' = [b \in Bookings |-> IF b \in over THEN [row[b] EXCEPT !.status = "finished"]
                                                   ELSE row[b]]
    BY <1>4 DEF CompleteExpiredBookings
  <2>2. \A b \in Bookings : (Live(b))' = Live(b) /\ row'[b].period = row[b].period
    BY <1>1, <2>1 DEF Live, Row
  <2>3. QED BY <2>2 DEF heldBar
<1>5. CASE \E b \in Bookings : CancelBooking(b)
  <2>1. PICK b \in Bookings : CancelBooking(b)
    BY <1>5
  <2>2. /\ \A c \in Bookings \ {b} : row'[c] = row[c]
        /\ row'[b].status = "cancelled" /\ row'[b].period = row[b].period
    BY <1>1, <2>1 DEF CancelBooking, Row
  <2>3. QED BY <1>1, <2>2, RowMoveIsCalendarMove
<1>6. CASE \E b \in Bookings, s \in PatchTargets : UpdateBookingStatus(b, s)
  <2>1. PICK b \in Bookings, s \in PatchTargets : UpdateBookingStatus(b, s)
    BY <1>6
  <2>2. /\ \A c \in Bookings \ {b} : row'[c] = row[c]
        /\ row'[b].status = s /\ row'[b].period = row[b].period
        /\ s # "cancelled" => Fits(b, row[b].period)
    BY <1>1, <2>1 DEF UpdateBookingStatus, Row
  <2>3. row[b].period \in Period
    BY <1>1, <2>1, RowFacts DEF UpdateBookingStatus
  <2>4. QED BY <1>1, <2>2, <2>3, RowMoveIsCalendarMove
<1>7. CASE \E b \in Bookings, t \in Hours : UpdateBookingEndTime(b, t)
  <2>1. PICK b \in Bookings, t \in Hours : UpdateBookingEndTime(b, t)
    BY <1>7
  <2> DEFINE p == [row[b].period EXCEPT !.to = t]
  <2>2. p \in Period /\ p.from = row[b].period.from
    BY <1>1, <2>1, RowFacts DEF UpdateBookingEndTime, Period
  <2>3. (Live(b) => Fits(b, p)) /\ row' = [row EXCEPT ![b].period = p]
    BY <2>1 DEF UpdateBookingEndTime
  <2> HIDE DEF p
  <2>4. /\ \A c \in Bookings \ {b} : row'[c] = row[c]
        /\ row'[b].status = row[b].status /\ row'[b].period = p
    BY <1>1, <2>3 DEF Row
  <2>5. row'[b].status \notin {"absent", "cancelled"} => Fits(b, p)
    BY <2>3, <2>4 DEF Live
  <2>6. QED BY <1>1, <2>2, <2>4, <2>5, RowMoveIsCalendarMove
<1>8. QED BY <1>2, <1>3, <1>4, <1>5, <1>6, <1>7, StatementsOnRows DEF Moves

\* The table, with its concurrent creates, cancels, revivals and moved ends, implements
\* Calendar.
THEOREM ReservationsRefineCalendar == Spec => ImplementsCalendar
<1>1. Init => Booked!Init
  BY DEF Init, Booked!Init, NoRow, Live
<1>2. ASSUME BookInv, [Next]_vars
      PROVE  [Booked!Next]_heldBar
  <2>1. CASE heldBar' = heldBar
    BY <2>1
  <2>2. CASE heldBar' # heldBar
    <3>1. PICK b \in Bookings : Booked!Reserve(b) \/ Booked!Release(b) \/ Booked!Resize(b)
      BY <1>2, <2>2, StatementIsCalendarMove
    <3>2. Booked!Next
      BY <3>1, Zenon DEF Booked!Next
    <3>3. QED BY <3>2
  <2>3. QED BY <2>1, <2>2
<1>3. BookInv /\ [Next]_vars => [Booked!Next]_heldBar
  BY <1>2
<1>4. QED BY <1>1, <1>3, BookInvariant, PTL
          DEF Spec, ImplementsCalendar, Booked!Spec, heldBar
==============================================================================
