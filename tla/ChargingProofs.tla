--------------------------- MODULE ChargingProofs ---------------------------
(***************************************************************************)
(* Theorems about Charging, for every set of bookings, workers and         *)
(* amounts.  What holds in every environment comes first (types, and that  *)
(* a recorded payment is real), then what holds when Stripe rejects no     *)
(* retry of a request of unknown outcome and no PATCH hits a row a live    *)
(* worker is charging.                                                     *)
(***************************************************************************)
EXTENDS Charging, TLAPS

\* To the caller a rejected payment looks like a rejected card lookup.
LEMMA RejectedLikeLookup ==
    ASSUME NEW w \in Workers, RejectPayment(w)
    PROVE  FailLookup(w)
BY DEF RejectPayment, FailLookup

(***************************************************************************)
(* The row updates, field by field.                                        *)
(***************************************************************************)
LEMMA ClaimedFields ==
    ASSUME NEW r \in Row
    PROVE  /\ Claimed(r) \in Row
           /\ Claimed(r).status = "charging"
           /\ Claimed(r).completedAt = r.completedAt
           /\ Claimed(r).key # 0
           /\ r.key # 0 => Claimed(r).key = r.key
           /\ r.key = 0 => Claimed(r).key = r.attempts + 1
           /\ Claimed(r).pi = r.pi
           /\ Claimed(r).amount = r.amount
           /\ Claimed(r).attempts = r.attempts
<1> DEFINE k == IF r.key = 0 THEN r.attempts + 1 ELSE r.key
<1>1. k \in Nat /\ k # 0
  BY DEF Row
<1>2. Claimed(r) = [r EXCEPT !.status = "charging", !.key = k]
  BY DEF Claimed
<1>3. /\ r.key # 0 => k = r.key
      /\ r.key = 0 => k = r.attempts + 1
  OBVIOUS
<1> HIDE DEF k
<1>4. QED BY <1>1, <1>2, <1>3 DEF Row, Status

LEMMA RevertedFields ==
    ASSUME NEW r \in Row, NEW clear \in BOOLEAN
    PROVE  /\ Reverted(r, clear) \in Row
           /\ Reverted(r, clear).pi = r.pi
           /\ Reverted(r, clear).amount = r.amount
           /\ r.status # "charging" => Reverted(r, clear) = r
           /\ r.status = "charging" =>
                /\ Reverted(r, clear).status = "completed"
                /\ Reverted(r, clear).attempts = r.attempts + 1
                /\ Reverted(r, clear).key = IF clear THEN 0 ELSE r.key
<1> DEFINE k == IF clear THEN 0 ELSE r.key
           n == r.attempts + 1
<1>1. k \in Nat /\ n \in Nat
  BY DEF Row
<1>2. Reverted(r, clear) =
        IF r.status # "charging" THEN r
        ELSE [r EXCEPT !.status = "completed", !.attempts = n, !.key = k]
  BY DEF Reverted
<1>3. k = IF clear THEN 0 ELSE r.key
  OBVIOUS
<1>4. n = r.attempts + 1
  OBVIOUS
<1>5. /\ Reverted(r, clear) \in Row
      /\ Reverted(r, clear).pi = r.pi
      /\ Reverted(r, clear).amount = r.amount
      /\ r.status # "charging" => Reverted(r, clear) = r
      /\ r.status = "charging" =>
            /\ Reverted(r, clear).status = "completed"
            /\ Reverted(r, clear).attempts = n
            /\ Reverted(r, clear).key = k
  <2> HIDE DEF k, n
  <2> QED BY <1>1, <1>2 DEF Row, Status
<1>6. QED BY <1>3, <1>4, <1>5

LEMMA ChargedFields ==
    ASSUME NEW r \in Row, NEW k \in Nat, NEW a \in Nat
    PROVE  /\ Charged(r, k, a) \in Row
           /\ Charged(r, k, a).key = r.key
           /\ Charged(r, k, a).attempts = r.attempts
           /\ r.status # "charging" => Charged(r, k, a) = r
           /\ r.status = "charging" =>
                /\ Charged(r, k, a).status = "charged"
                /\ Charged(r, k, a).pi = k
                /\ Charged(r, k, a).amount = a
BY DEF Charged, Row, Status

(***************************************************************************)
(* In every environment.                                                   *)
(***************************************************************************)

\* A worker that is not idle has a booking and a key, and an amount once it sent one.
WorkerOK ==
    \A w \in Workers : worker[w] # Idle =>
        /\ worker[w].booking \in Bookings
        /\ worker[w].key # 0
        /\ worker[w].pc # "idle"
        /\ worker[w].pc \in {"waiting", "paid"} => worker[w].amount \in Amounts

\* A worker told "paid" was told so of a payment in the ledger, for its own amount.
PaidIsReal ==
    \A w \in Workers : worker[w].pc = "paid" =>
        [booking |-> worker[w].booking, key |-> worker[w].key,
         amount |-> worker[w].amount, taken |-> TRUE] \in ledger

RecordInv == TypeOK /\ WorkerOK /\ PaidIsReal /\ RecordedPaymentIsReal

\* What a record of type Worker is, and that an idle one is the record Idle.
LEMMA IdleFacts ==
    /\ Idle \in Worker
    /\ Idle.pc = "idle"
    /\ Idle.booking = NoBooking
BY DEF Idle, Worker

LEMMA InitRecordInv == Init => RecordInv
<1> SUFFICES ASSUME Init PROVE RecordInv
  OBVIOUS
<1>1. NewRow \in Row /\ NewRow.pi = 0 /\ NewRow.amount = 0
  BY DEF NewRow, Row, Status
<1>2. TypeOK
  BY <1>1, IdleFacts DEF Init, TypeOK
<1>3. WorkerOK /\ PaidIsReal
  BY IdleFacts DEF Init, WorkerOK, PaidIsReal
<1>4. RecordedPaymentIsReal
  BY <1>1 DEF Init, RecordedPaymentIsReal
<1>5. QED BY <1>2, <1>3, <1>4 DEF RecordInv

\* A worker with its program counter off "idle" is not the idle record.
LEMMA Busy ==
    ASSUME RecordInv, NEW w \in Workers, worker[w].pc # "idle"
    PROVE  /\ worker[w] # Idle
           /\ worker[w] \in Worker
           /\ worker[w].booking \in Bookings
           /\ worker[w].key \in Nat \ {0}
           /\ worker[w].pc \in {"waiting", "paid"} => worker[w].amount \in Amounts
<1>1. worker[w] # Idle
  BY IdleFacts
<1>2. worker[w] \in Worker
  BY DEF RecordInv, TypeOK
<1>3. QED BY <1>1, <1>2 DEF RecordInv, WorkerOK, Worker

\* The steps that touch no row and no ledger: worker w moves on to the record x.
LEMMA WorkerMoves ==
    ASSUME RecordInv, NEW w \in Workers, NEW x \in Worker,
           worker' = [worker EXCEPT ![w] = x],
           x # Idle => /\ x.booking \in Bookings
                       /\ x.key # 0
                       /\ x.pc # "idle"
                       /\ x.pc \in {"waiting", "paid"} => x.amount \in Amounts,
           x.pc = "paid" => [booking |-> x.booking, key |-> x.key,
                             amount |-> x.amount, taken |-> TRUE] \in ledger,
           ledger \subseteq ledger'
    PROVE  /\ worker' \in [Workers -> Worker]
           /\ WorkerOK'
           /\ PaidIsReal'
BY DEF RecordInv, TypeOK, WorkerOK, PaidIsReal

\* A step that leaves rows and ledger alone keeps what is said of them.
LEMMA RowsMove ==
    ASSUME RecordInv, NEW b \in Bookings, NEW r \in Row,
           row' = [row EXCEPT ![b] = r],
           r.pi = 0 <=> r.amount = 0,
           r.pi # 0 => [booking |-> b, key |-> r.pi,
                        amount |-> r.amount, taken |-> TRUE] \in ledger,
           ledger' = ledger
    PROVE  /\ row' \in [Bookings -> Row]
           /\ \A c \in Bookings : row'[c].pi = 0 <=> row'[c].amount = 0
           /\ RecordedPaymentIsReal'
BY DEF RecordInv, TypeOK, RecordedPaymentIsReal

LEMMA NextRecordInv == RecordInv /\ [Next]_vars => RecordInv'
<1> SUFFICES ASSUME RecordInv, [Next]_vars PROVE RecordInv'
  OBVIOUS
<1> USE ChargingAssumption
<1> DEFINE Types == /\ row' \in [Bookings -> Row]
                    /\ worker' \in [Workers -> Worker]
                    /\ sent' \subseteq Request
                    /\ ledger' \subseteq Execution
                    /\ \A c \in Bookings : row'[c].pi = 0 <=> row'[c].amount = 0
<1>0. Types /\ WorkerOK' /\ PaidIsReal' /\ RecordedPaymentIsReal' => RecordInv'
  BY DEF RecordInv, TypeOK
<1>1. ASSUME NEW w \in Workers, NEW b \in Bookings, Claim(w, b)
      PROVE  RecordInv'
  <2>1. row[b] \in Row
    BY DEF RecordInv, TypeOK
  <2>2. Claimed(row[b]) \in Row /\ Claimed(row[b]).key \in Nat \ {0}
        /\ Claimed(row[b]).pi = row[b].pi /\ Claimed(row[b]).amount = row[b].amount
    BY <2>1, ClaimedFields DEF Row
  <2> DEFINE x == [Idle EXCEPT !.pc = "claimed", !.booking = b, !.key = Claimed(row[b]).key]
  <2>3. x \in Worker /\ x.booking = b /\ x.key = Claimed(row[b]).key /\ x.pc = "claimed"
    BY <2>2 DEF Idle, Worker
  <2>4. /\ worker' = [worker EXCEPT ![w] = x]
        /\ row' = [row EXCEPT ![b] = Claimed(row[b])]
        /\ sent' = sent /\ ledger' = ledger
    BY <1>1 DEF Claim
  <2> HIDE DEF x
  <2>5. worker' \in [Workers -> Worker] /\ WorkerOK' /\ PaidIsReal'
    BY <2>2, <2>3, <2>4, WorkerMoves
  <2>6. /\ row[b].pi = 0 <=> row[b].amount = 0
        /\ row[b].pi # 0 => [booking |-> b, key |-> row[b].pi,
                             amount |-> row[b].amount, taken |-> TRUE] \in ledger
    BY DEF RecordInv, TypeOK, RecordedPaymentIsReal
  <2>7. /\ row' \in [Bookings -> Row]
        /\ \A c \in Bookings : row'[c].pi = 0 <=> row'[c].amount = 0
        /\ RecordedPaymentIsReal'
    BY <2>2, <2>4, <2>6, RowsMove
  <2>8. QED BY <2>4, <2>5, <2>7, <1>0 DEF RecordInv, TypeOK
<1>2. ASSUME NEW w \in Workers, NEW c \in BOOLEAN, worker[w].pc # "idle",
             row' = [row EXCEPT ![worker[w].booking] = Reverted(@, c)],
             worker' = [worker EXCEPT ![w] = Idle],
             sent' = sent, ledger' = ledger
      PROVE  RecordInv'
  <2> DEFINE b == worker[w].booking
  <2>1. b \in Bookings
    BY <1>2, Busy
  <2>2. row[b] \in Row
    BY <2>1 DEF RecordInv, TypeOK
  <2>3. /\ Reverted(row[b], c) \in Row
        /\ Reverted(row[b], c).pi = row[b].pi
        /\ Reverted(row[b], c).amount = row[b].amount
    BY <2>2, RevertedFields, ZenonT(60)
  <2>4. worker' \in [Workers -> Worker] /\ WorkerOK' /\ PaidIsReal'
    BY <1>2, IdleFacts, WorkerMoves
  <2>5. /\ row[b].pi = 0 <=> row[b].amount = 0
        /\ row[b].pi # 0 => [booking |-> b, key |-> row[b].pi,
                             amount |-> row[b].amount, taken |-> TRUE] \in ledger
    BY <2>1 DEF RecordInv, TypeOK, RecordedPaymentIsReal
  <2>6. row' = [row EXCEPT ![b] = Reverted(row[b], c)]
    BY <1>2
  <2> HIDE DEF b
  <2>7. /\ row' \in [Bookings -> Row]
        /\ \A d \in Bookings : row'[d].pi = 0 <=> row'[d].amount = 0
        /\ RecordedPaymentIsReal'
    BY <1>2, <2>1, <2>3, <2>5, <2>6, RowsMove
  <2>8. QED BY <1>2, <2>4, <2>7, <1>0 DEF RecordInv, TypeOK
<1>3. ASSUME NEW w \in Workers, FailLookup(w)
      PROVE  RecordInv'
  <2>1. PICK err \in {"invalid_request", "no_answer"} :
          worker' = [worker EXCEPT ![w].pc = "failed", ![w].err = err]
    BY <1>3 DEF FailLookup
  <2> DEFINE x == [worker[w] EXCEPT !.pc = "failed", !.err = err]
  <2>2. worker[w].pc = "claimed" /\ row' = row /\ sent' = sent /\ ledger' = ledger
    BY <1>3 DEF FailLookup
  <2>3. worker[w] \in Worker /\ worker[w].booking \in Bookings /\ worker[w].key \in Nat \ {0}
    BY <2>2, Busy
  <2>4. /\ x \in Worker /\ x.pc = "failed"
        /\ x.booking = worker[w].booking /\ x.key = worker[w].key
    BY <2>3 DEF Worker, Failures
  <2>5. worker' = [worker EXCEPT ![w] = x]
    BY <2>1
  <2> HIDE DEF x
  <2>6. worker' \in [Workers -> Worker] /\ WorkerOK' /\ PaidIsReal'
    BY <2>2, <2>3, <2>4, <2>5, WorkerMoves
  <2>7. QED BY <2>2, <2>6, <1>0 DEF RecordInv, TypeOK, RecordedPaymentIsReal
<1>4. ASSUME NEW w \in Workers, Submit(w)
      PROVE  RecordInv'
  <2>1. PICK a \in Amounts :
          /\ sent' = sent \cup {[booking |-> worker[w].booking, key |-> worker[w].key,
                                 amount |-> a]}
          /\ worker' = [worker EXCEPT ![w].pc = "waiting", ![w].amount = a]
    BY <1>4 DEF Submit
  <2> DEFINE x == [worker[w] EXCEPT !.pc = "waiting", !.amount = a]
  <2>2. worker[w].pc = "claimed" /\ row' = row /\ ledger' = ledger
    BY <1>4 DEF Submit
  <2>3. worker[w] \in Worker /\ worker[w].booking \in Bookings /\ worker[w].key \in Nat \ {0}
    BY <2>2, Busy
  <2>4. /\ x \in Worker /\ x.pc = "waiting" /\ x.amount = a
        /\ x.booking = worker[w].booking /\ x.key = worker[w].key
    BY <2>3 DEF Worker
  <2>5. worker' = [worker EXCEPT ![w] = x]
    BY <2>1
  <2> HIDE DEF x
  <2>6. worker' \in [Workers -> Worker] /\ WorkerOK' /\ PaidIsReal'
    BY <2>2, <2>3, <2>4, <2>5, WorkerMoves
  <2>7. sent' \subseteq Request
    BY <2>1, <2>3 DEF Request, RecordInv, TypeOK
  <2>8. QED BY <2>2, <2>6, <2>7, <1>0 DEF RecordInv, TypeOK, RecordedPaymentIsReal
<1>5. ASSUME NEW w \in Workers, Receive(w)
      PROVE  RecordInv'
  <2>1. PICK e \in Executed(worker[w].booking, worker[w].key) :
          worker' = [worker EXCEPT ![w].pc = Answer(e, worker[w].amount).pc,
                                   ![w].err = Answer(e, worker[w].amount).err]
    BY <1>5 DEF Receive
  <2> DEFINE ans == Answer(e, worker[w].amount)
             x == [worker[w] EXCEPT !.pc = ans.pc, !.err = ans.err]
  <2>2. worker[w].pc = "waiting" /\ row' = row /\ sent' = sent /\ ledger' = ledger
    BY <1>5 DEF Receive
  <2>3. /\ worker[w] \in Worker /\ worker[w].booking \in Bookings
        /\ worker[w].key \in Nat \ {0} /\ worker[w].amount \in Amounts
    BY <2>2, Busy
  <2>4. /\ ans.pc \in {"paid", "failed"}
        /\ ans.err \in Failures \cup {"none"}
        /\ ans.pc = "paid" => e.amount = worker[w].amount /\ e.taken
    BY DEF Answer, Failures
  <2>5. /\ e \in ledger /\ e \in Execution
        /\ e.booking = worker[w].booking /\ e.key = worker[w].key
    BY DEF Executed, RecordInv, TypeOK
  <2>6. worker' = [worker EXCEPT ![w] = x]
    BY <2>1
  <2> HIDE DEF ans
  <2>7. /\ x \in Worker /\ x.pc = ans.pc /\ x.amount = worker[w].amount
        /\ x.booking = worker[w].booking /\ x.key = worker[w].key
    BY <2>3, <2>4 DEF Worker
  <2> HIDE DEF x
  <2>8. x.pc = "paid" => [booking |-> x.booking, key |-> x.key,
                          amount |-> x.amount, taken |-> TRUE] \in ledger
    <3> SUFFICES ASSUME x.pc = "paid"
                 PROVE  e = [booking |-> x.booking, key |-> x.key,
                             amount |-> x.amount, taken |-> TRUE]
      BY <2>5
    <3>1. e.taken = TRUE
      BY <2>4, <2>5, <2>7 DEF Execution
    <3> QED BY <3>1, <2>4, <2>5, <2>7 DEF Execution
  <2>9. worker' \in [Workers -> Worker] /\ WorkerOK' /\ PaidIsReal'
    BY <2>2, <2>3, <2>4, <2>6, <2>7, <2>8, WorkerMoves
  <2>10. QED BY <2>2, <2>9, <1>0 DEF RecordInv, TypeOK, RecordedPaymentIsReal
<1>6. ASSUME NEW w \in Workers, GiveUp(w)
      PROVE  RecordInv'
  <2> DEFINE x == [worker[w] EXCEPT !.pc = "failed", !.err = "no_answer"]
  <2>1. /\ worker[w].pc = "waiting" /\ row' = row /\ sent' = sent /\ ledger' = ledger
        /\ worker' = [worker EXCEPT ![w] = x]
    BY <1>6 DEF GiveUp
  <2>2. worker[w] \in Worker /\ worker[w].booking \in Bookings /\ worker[w].key \in Nat \ {0}
    BY <2>1, Busy
  <2>3. /\ x \in Worker /\ x.pc = "failed"
        /\ x.booking = worker[w].booking /\ x.key = worker[w].key
    BY <2>2 DEF Worker, Failures
  <2> HIDE DEF x
  <2>4. worker' \in [Workers -> Worker] /\ WorkerOK' /\ PaidIsReal'
    BY <2>1, <2>2, <2>3, WorkerMoves
  <2>5. QED BY <2>1, <2>4, <1>0 DEF RecordInv, TypeOK, RecordedPaymentIsReal
<1>7. ASSUME NEW w \in Workers, UpdateBookingCharged(w)
      PROVE  RecordInv'
  <2> DEFINE b == worker[w].booking
             k == worker[w].key
             a == worker[w].amount
  <2>1. /\ worker[w].pc = "paid" /\ sent' = sent /\ ledger' = ledger
        /\ row' = [row EXCEPT ![b] = Charged(row[b], k, a)]
        /\ worker' = [worker EXCEPT ![w] = Idle]
    BY <1>7 DEF UpdateBookingCharged
  <2>2. b \in Bookings /\ k \in Nat \ {0} /\ a \in Amounts
    BY <2>1, Busy
  <2>3. [booking |-> b, key |-> k, amount |-> a, taken |-> TRUE] \in ledger
    BY <2>1 DEF RecordInv, PaidIsReal
  <2>4. worker' \in [Workers -> Worker] /\ WorkerOK' /\ PaidIsReal'
    BY <2>1, IdleFacts, WorkerMoves
  <2> HIDE DEF b, k, a
  <2>5. /\ row[b] \in Row
        /\ row[b].pi = 0 <=> row[b].amount = 0
        /\ row[b].pi # 0 => [booking |-> b, key |-> row[b].pi,
                             amount |-> row[b].amount, taken |-> TRUE] \in ledger
    BY <2>2 DEF RecordInv, TypeOK, RecordedPaymentIsReal
  <2>6. a \in Nat \ {0}
    BY <2>2
  <2> DEFINE r == Charged(row[b], k, a)
  <2>7. r \in Row /\ (r = row[b] \/ (r.pi = k /\ r.amount = a))
    <3>1. k \in Nat /\ a \in Nat /\ row[b] \in Row
      BY <2>2, <2>5, <2>6
    <3>2. /\ Charged(row[b], k, a) \in Row
          /\ row[b].status # "charging" => Charged(row[b], k, a) = row[b]
          /\ row[b].status = "charging" =>
                Charged(row[b], k, a).pi = k /\ Charged(row[b], k, a).amount = a
      BY <3>1, ChargedFields
    <3>3. QED BY <3>2
  <2> HIDE DEF r
  <2>8. /\ r.pi = 0 <=> r.amount = 0
        /\ r.pi # 0 => [booking |-> b, key |-> r.pi,
                        amount |-> r.amount, taken |-> TRUE] \in ledger
    BY <2>2, <2>3, <2>5, <2>6, <2>7
  <2>9. row' = [row EXCEPT ![b] = r]
    BY <2>1 DEF r
  <2>10. /\ row' \in [Bookings -> Row]
         /\ \A d \in Bookings : row'[d].pi = 0 <=> row'[d].amount = 0
         /\ RecordedPaymentIsReal'
    BY <2>1, <2>2, <2>7, <2>8, <2>9, RowsMove
  <2>11. QED BY <2>1, <2>4, <2>10, <1>0 DEF RecordInv, TypeOK
<1>8. ASSUME NEW w \in Workers, Stop(w)
      PROVE  RecordInv'
  <2>1. /\ row' = row /\ sent' = sent /\ ledger' = ledger
        /\ worker' = [worker EXCEPT ![w] = Idle]
    BY <1>8 DEF Stop
  <2>2. worker' \in [Workers -> Worker] /\ WorkerOK' /\ PaidIsReal'
    BY <2>1, IdleFacts, WorkerMoves
  <2>3. QED BY <2>1, <2>2, <1>0 DEF RecordInv, TypeOK, RecordedPaymentIsReal
<1>9. ASSUME NEW q \in sent, Execute(q)
      PROVE  RecordInv'
  <2>1. PICK t \in BOOLEAN :
          ledger' = ledger \cup {[booking |-> q.booking, key |-> q.key,
                                  amount |-> q.amount, taken |-> t]}
    BY <1>9 DEF Execute
  <2>2. row' = row /\ worker' = worker /\ sent' = sent
    BY <1>9 DEF Execute
  <2>3. ledger' \subseteq Execution /\ ledger \subseteq ledger'
    BY <2>1 DEF RecordInv, TypeOK, Request, Execution
  <2>4. WorkerOK' /\ PaidIsReal' /\ RecordedPaymentIsReal'
    BY <2>2, <2>3 DEF RecordInv, WorkerOK, PaidIsReal, RecordedPaymentIsReal
  <2>5. QED BY <2>2, <2>3, <2>4, <1>0 DEF RecordInv, TypeOK
<1>10. ASSUME row' \in [Bookings -> Row],
              \A b \in Bookings : row'[b].pi = row[b].pi /\ row'[b].amount = row[b].amount,
              worker' = worker, sent' = sent, ledger' = ledger
       PROVE  RecordInv'
  <2>1. WorkerOK' /\ PaidIsReal' /\ RecordedPaymentIsReal'
    BY <1>10 DEF RecordInv, WorkerOK, PaidIsReal, RecordedPaymentIsReal
  <2>2. \A b \in Bookings : row'[b].pi = 0 <=> row'[b].amount = 0
    BY <1>10 DEF RecordInv, TypeOK
  <2>3. QED BY <1>10, <2>1, <2>2, <1>0 DEF RecordInv, TypeOK
<1>11. ASSUME CompleteExpiredBookings
       PROVE  RecordInv'
  <2>1. PICK over \in SUBSET Bookings :
          row' = [b \in Bookings |->
                    IF b \in over
                    THEN [row[b] EXCEPT !.status = "completed", !.completedAt = "recent"]
                    ELSE row[b]]
    BY <1>11 DEF CompleteExpiredBookings
  <2>2. worker' = worker /\ sent' = sent /\ ledger' = ledger
    BY <1>11 DEF CompleteExpiredBookings
  <2>3. ASSUME NEW b \in Bookings
        PROVE  row'[b] \in Row /\ row'[b].pi = row[b].pi /\ row'[b].amount = row[b].amount
    <3>1. row[b] \in Row
      BY DEF RecordInv, TypeOK
    <3>2. CASE b \in over
      <4>1. row'[b] = [row[b] EXCEPT !.status = "completed", !.completedAt = "recent"]
        BY <2>1, <3>2
      <4>2. QED BY <3>1, <4>1 DEF Row, Status
    <3>3. CASE b \notin over
      BY <2>1, <3>1, <3>3
    <3>4. QED BY <3>2, <3>3
  <2>4. row' \in [Bookings -> Row]
    BY <2>1, <2>3
  <2>5. QED BY <1>10, <2>2, <2>3, <2>4
<1>12. ASSUME NEW b \in Bookings, DelayPasses(b)
       PROVE  RecordInv'
  BY <1>10, <1>12 DEF DelayPasses, RecordInv, TypeOK, Row
<1>13. ASSUME NEW b \in Bookings, NEW s \in PatchTargets, UpdateBookingStatus(b, s)
       PROVE  RecordInv'
  <2>1. row[b] \in Row /\ s \in Status
    BY DEF RecordInv, TypeOK
  <2> DEFINE c == IF s = "completed" THEN "recent" ELSE row[b].completedAt
  <2>2. c \in {"unset", "recent", "due"}
    BY <2>1 DEF Row
  <2>3. /\ row' = [row EXCEPT ![b].status = s, ![b].completedAt = c]
        /\ worker' = worker /\ sent' = sent /\ ledger' = ledger
    BY <1>13 DEF UpdateBookingStatus
  <2> HIDE DEF c
  <2>4. QED BY <1>10, <2>1, <2>2, <2>3 DEF RecordInv, TypeOK, Row
<1>14. ASSUME UNCHANGED vars
       PROVE  RecordInv'
  BY <1>10, <1>14 DEF vars, RecordInv, TypeOK
<1>15. ASSUME NEW w \in Workers, Step(w)
       PROVE  RecordInv'
  <2>1. RejectAmount(w) => RecordInv'
    BY <1>2 DEF RejectAmount
  <2>2. RevertBookingFromChargingToCompleted(w) => RecordInv'
    <3> SUFFICES ASSUME RevertBookingFromChargingToCompleted(w) PROVE RecordInv'
      OBVIOUS
    <3>1. IsDefiniteFailure(worker[w].err) \in BOOLEAN
      BY DEF IsDefiniteFailure
    <3>2. QED BY <1>2, <3>1 DEF RevertBookingFromChargingToCompleted
  <2>3. QED
    BY <1>15, <2>1, <2>2, <1>3, <1>4, <1>5, <1>6, <1>7, RejectedLikeLookup DEF Step
<1>16. QED
  BY <1>1, <1>8, <1>9, <1>11, <1>12, <1>13, <1>14, <1>15
     DEF Next, ClaimBookingForCharge, ClaimBookingForAutoCharge, Workers

\* Rows, workers and ledger keep their types in every environment, PATCHes and crashes
\* included, and payment and amount are written together.
THEOREM TypeCorrect == Spec => []TypeOK
<1>1. RecordInv => TypeOK
  BY DEF RecordInv
<1>2. QED BY <1>1, InitRecordInv, NextRecordInv, PTL DEF Spec

\* Whatever admins patch and wherever workers die, a row never carries a payment that
\* Stripe did not take for that booking and that amount.
THEOREM RecordsAreReal == Spec => []RecordedPaymentIsReal
<1>1. RecordInv => RecordedPaymentIsReal
  BY DEF RecordInv
<1>2. QED BY <1>1, InitRecordInv, NextRecordInv, PTL DEF Spec

(***************************************************************************)
(* In the environment the code relies on: Stripe rejects no retry of a     *)
(* request of unknown outcome, neither at the card lookup nor at the       *)
(* PaymentIntent (RetryRejected is FALSE), and a PATCH waits for the       *)
(* worker (PatchesInFlight is FALSE).  ChargeInv is inductive there.       *)
(***************************************************************************)

\* A live worker owns its row, alone.
OwnsRow ==
    \A w \in Workers : worker[w] # Idle =>
        /\ row[worker[w].booking].status = "charging"
        /\ row[worker[w].booking].key = worker[w].key
        /\ row[worker[w].booking].pi = 0

Exclusive ==
    \A v, w \in Workers :
        worker[v] # Idle /\ worker[w] # Idle /\ worker[v].booking = worker[w].booking => v = w

\* Stripe executes a key once, and every request has a key.
OneExecution ==
    \A d, e \in ledger : d.booking = e.booking /\ d.key = e.key => d = e

Keyed == (\A q \in sent : q.key # 0) /\ (\A e \in ledger : e.key # 0)

\* What was executed was sent.
SentFirst == \A e \in ledger : \E q \in sent : q.booking = e.booking /\ q.key = e.key

\* A request Stripe may still execute is one the row would repeat.
LiveRequestsHoldKey ==
    \A q \in sent : Executed(q.booking, q.key) = {} =>
        row[q.booking].pi = 0 /\ row[q.booking].key = q.key

\* When a worker is about to clear its key, Stripe declined under it or never saw it.
RefusalsAreFinal ==
    \A w \in Workers : worker[w].pc = "failed" /\ IsDefiniteFailure(worker[w].err) =>
        \/ \E e \in Executed(worker[w].booking, worker[w].key) : ~e.taken
        \/ \A q \in sent : q.booking = worker[w].booking => q.key # worker[w].key

\* Keys are issued upwards, and a cleared key is below the next one.
KeysBelowAttempts ==
    \A q \in sent :
        /\ q.key <= row[q.booking].attempts + 1
        /\ row[q.booking].key = 0 => q.key <= row[q.booking].attempts

KeyBelowAttempts == \A b \in Bookings : row[b].key <= row[b].attempts + 1

ChargeInv ==
    /\ RecordInv
    /\ OwnsRow
    /\ Exclusive
    /\ OneExecution
    /\ Keyed
    /\ SentFirst
    /\ PaymentKeepsItsKey
    /\ LiveRequestsHoldKey
    /\ RefusalsAreFinal
    /\ KeysBelowAttempts
    /\ KeyBelowAttempts

LEMMA InitChargeInv == Init => ChargeInv
<1> SUFFICES ASSUME Init PROVE ChargeInv
  OBVIOUS
<1>1. RecordInv
  BY InitRecordInv
<1>2. NewRow.key <= NewRow.attempts + 1
  BY DEF NewRow
<1>3. KeyBelowAttempts
  BY <1>2 DEF Init, KeyBelowAttempts
<1>4. OwnsRow /\ Exclusive /\ RefusalsAreFinal
  BY IdleFacts DEF Init, OwnsRow, Exclusive, RefusalsAreFinal
<1>5. OneExecution /\ Keyed /\ SentFirst /\ PaymentKeepsItsKey /\ LiveRequestsHoldKey /\ KeysBelowAttempts
  BY DEF Init, OneExecution, Keyed, SentFirst, PaymentKeepsItsKey, LiveRequestsHoldKey, KeysBelowAttempts
<1>6. QED BY <1>1, <1>3, <1>4, <1>5 DEF ChargeInv

\* What a worker that is not idle knows of its booking's row.
LEMMA Owner ==
    ASSUME ChargeInv, NEW w \in Workers, worker[w] # Idle
    PROVE  /\ worker[w].booking \in Bookings
           /\ worker[w].key \in Nat \ {0}
           /\ row[worker[w].booking] \in Row
           /\ row[worker[w].booking].status = "charging"
           /\ row[worker[w].booking].key = worker[w].key
           /\ row[worker[w].booking].pi = 0
           /\ \A v \in Workers \ {w} :
                worker[v] # Idle => worker[v].booking # worker[w].booking
BY DEF ChargeInv, RecordInv, TypeOK, WorkerOK, Worker, OwnsRow, Exclusive

\* A step that changes neither key, payment nor attempts, and no status of an owned row.
LEMMA OtherColumnsMove ==
    ASSUME ChargeInv, RecordInv',
           \A b \in Bookings : /\ row'[b].key = row[b].key
                               /\ row'[b].pi = row[b].pi
                               /\ row'[b].attempts = row[b].attempts,
           \A w \in Workers : worker[w] # Idle =>
                row'[worker[w].booking].status = row[worker[w].booking].status,
           worker' = worker, sent' = sent, ledger' = ledger
    PROVE  ChargeInv'
<1>1. \A q \in sent : q.booking \in Bookings
  BY DEF ChargeInv, RecordInv, TypeOK, Request
<1>2. \A e \in ledger : e.booking \in Bookings
  BY DEF ChargeInv, RecordInv, TypeOK, Execution
<1>3. \A w \in Workers : worker[w] # Idle => worker[w].booking \in Bookings
  BY DEF ChargeInv, RecordInv, WorkerOK
<1>4. OwnsRow' /\ Exclusive'
  BY <1>3 DEF ChargeInv, OwnsRow, Exclusive
<1>5. OneExecution' /\ Keyed' /\ SentFirst' /\ RefusalsAreFinal'
  BY DEF ChargeInv, OneExecution, Keyed, SentFirst, RefusalsAreFinal, Executed
<1>6. PaymentKeepsItsKey' /\ LiveRequestsHoldKey'
  BY <1>1, <1>2 DEF ChargeInv, PaymentKeepsItsKey, LiveRequestsHoldKey, Executed
<1>7. KeysBelowAttempts' /\ KeyBelowAttempts'
  BY <1>1 DEF ChargeInv, KeysBelowAttempts, KeyBelowAttempts
<1>8. QED BY <1>4, <1>5, <1>6, <1>7 DEF ChargeInv

\* A step of an owner that keeps its booking and key, or lets go of them.
LEMMA OwnerMoves ==
    ASSUME ChargeInv, RecordInv', NEW w \in Workers, worker[w] # Idle,
           NEW x \in Worker,
           worker' = [worker EXCEPT ![w] = x],
           x # Idle => x.booking = worker[w].booking /\ x.key = worker[w].key,
           x.pc = "failed" /\ IsDefiniteFailure(x.err) =>
               \/ \E e \in Executed(x.booking, x.key) : ~e.taken
               \/ \A q \in sent : q.booking = x.booking => q.key # x.key,
           row' = row, sent' = sent, ledger' = ledger
    PROVE  ChargeInv'
<1>1. worker \in [Workers -> Worker]
  BY DEF ChargeInv, RecordInv, TypeOK
<1>2. worker'[w] = x /\ \A v \in Workers \ {w} : worker'[v] = worker[v]
  BY <1>1
<1>3. OwnsRow'
  BY <1>2, Owner DEF ChargeInv, OwnsRow
<1>4. Exclusive'
  BY <1>2, Owner DEF ChargeInv, Exclusive
<1>5. RefusalsAreFinal'
  BY <1>2 DEF ChargeInv, RefusalsAreFinal, Executed
<1>6. /\ OneExecution' /\ Keyed' /\ SentFirst' /\ PaymentKeepsItsKey' /\ LiveRequestsHoldKey'
      /\ KeysBelowAttempts' /\ KeyBelowAttempts'
  BY DEF ChargeInv, OneExecution, Keyed, SentFirst, PaymentKeepsItsKey, LiveRequestsHoldKey,
         KeysBelowAttempts, KeyBelowAttempts, Executed
<1>7. QED BY <1>3, <1>4, <1>5, <1>6 DEF ChargeInv

\* A claim: the row was nobody's, and keeps a key it already has.
LEMMA ClaimChargeInv ==
    ASSUME ChargeInv, RecordInv', NEW w \in Workers, NEW b \in Bookings, Claim(w, b)
    PROVE  ChargeInv'
<1> DEFINE r == Claimed(row[b])
           x == [Idle EXCEPT !.pc = "claimed", !.booking = b, !.key = r.key]
<1>1. row[b] \in Row /\ row \in [Bookings -> Row] /\ worker \in [Workers -> Worker]
  BY DEF ChargeInv, RecordInv, TypeOK
<1>2. /\ r \in Row /\ r.status = "charging" /\ r.key # 0 /\ r.pi = row[b].pi
      /\ row[b].key # 0 => r.key = row[b].key
      /\ row[b].key = 0 => r.key = row[b].attempts + 1
      /\ r.attempts = row[b].attempts
  BY <1>1, ClaimedFields
<1>3. x.pc = "claimed" /\ x.booking = b /\ x.key = r.key
  BY DEF Idle
<1>4. /\ worker[w] = Idle
      /\ row[b].status = "completed" /\ row[b].pi = 0
      /\ row' = [row EXCEPT ![b] = r]
      /\ worker' = [worker EXCEPT ![w] = x]
      /\ sent' = sent /\ ledger' = ledger
  BY DEF Claim, Eligible
<1> HIDE DEF r, x
<1>5. row'[b] = r /\ \A c \in Bookings \ {b} : row'[c] = row[c]
  BY <1>1, <1>4
<1>6. worker'[w] = x /\ \A v \in Workers \ {w} : worker'[v] = worker[v]
  BY <1>1, <1>4
<1>7. \A v \in Workers : worker[v] # Idle =>
        worker[v].booking \in Bookings /\ worker[v].booking # b
  BY <1>4, Owner
<1>8. OwnsRow'
  BY <1>2, <1>3, <1>4, <1>5, <1>6, <1>7 DEF ChargeInv, OwnsRow
<1>9. Exclusive'
  BY <1>3, <1>6, <1>7 DEF ChargeInv, Exclusive
<1>10. RefusalsAreFinal'
  BY <1>3, <1>4, <1>6 DEF ChargeInv, RefusalsAreFinal, Executed
<1>11. OneExecution' /\ Keyed' /\ SentFirst'
  BY <1>4 DEF ChargeInv, OneExecution, Keyed, SentFirst
<1>12. PaymentKeepsItsKey'
  <2> SUFFICES ASSUME NEW e \in ledger, e.taken
               PROVE  IF row'[e.booking].pi = 0 THEN row'[e.booking].key = e.key
                                                ELSE row'[e.booking].pi = e.key
    BY <1>4 DEF PaymentKeepsItsKey
  <2>1. e.booking \in Bookings /\ e.key # 0
    BY DEF ChargeInv, RecordInv, TypeOK, Execution, Keyed
  <2>2. IF row[e.booking].pi = 0 THEN row[e.booking].key = e.key
                                 ELSE row[e.booking].pi = e.key
    BY DEF ChargeInv, PaymentKeepsItsKey
  <2>3. QED BY <1>2, <1>4, <1>5, <2>1, <2>2
<1>13. LiveRequestsHoldKey'
  <2> SUFFICES ASSUME NEW q \in sent, Executed(q.booking, q.key) = {}
               PROVE  row'[q.booking].pi = 0 /\ row'[q.booking].key = q.key
    BY <1>4 DEF LiveRequestsHoldKey, Executed
  <2>1. q.booking \in Bookings /\ q.key # 0
    BY DEF ChargeInv, RecordInv, TypeOK, Request, Keyed
  <2>2. row[q.booking].pi = 0 /\ row[q.booking].key = q.key
    BY DEF ChargeInv, LiveRequestsHoldKey
  <2>3. QED BY <1>2, <1>5, <2>1, <2>2
<1>14. KeysBelowAttempts'
  <2> SUFFICES ASSUME NEW q \in sent
               PROVE  /\ q.key <= row'[q.booking].attempts + 1
                      /\ row'[q.booking].key = 0 => q.key <= row'[q.booking].attempts
    BY <1>4 DEF KeysBelowAttempts
  <2>1. q.booking \in Bookings
    BY DEF ChargeInv, RecordInv, TypeOK, Request
  <2>2. QED BY <1>2, <1>5, <2>1 DEF ChargeInv, KeysBelowAttempts
<1>15. KeyBelowAttempts'
  <2> SUFFICES ASSUME NEW c \in Bookings
               PROVE  row'[c].key <= row'[c].attempts + 1
    BY DEF KeyBelowAttempts
  <2>1. row[c].key <= row[c].attempts + 1
    BY DEF ChargeInv, KeyBelowAttempts
  <2>2. r.key <= r.attempts + 1
    BY <1>1, <1>2 DEF ChargeInv, KeyBelowAttempts, Row
  <2>3. QED BY <1>5, <2>1, <2>2
<1>16. QED BY <1>8, <1>9, <1>10, <1>11, <1>12, <1>13, <1>14, <1>15 DEF ChargeInv

\* A revert: a key is cleared only when no payment was taken, or ever will be, under it.
LEMMA RevertChargeInv ==
    ASSUME ChargeInv, RecordInv', NEW w \in Workers, worker[w] # Idle,
           NEW clear \in BOOLEAN,
           clear => worker[w].pc = "failed" /\ IsDefiniteFailure(worker[w].err),
           row' = [row EXCEPT ![worker[w].booking] = Reverted(@, clear)],
           worker' = [worker EXCEPT ![w] = Idle],
           sent' = sent, ledger' = ledger
    PROVE  ChargeInv'
<1> DEFINE b == worker[w].booking
           k == worker[w].key
           r == Reverted(row[b], clear)
<1>1. row \in [Bookings -> Row] /\ worker \in [Workers -> Worker]
  BY DEF ChargeInv, RecordInv, TypeOK
<1>2. /\ b \in Bookings /\ k \in Nat \ {0} /\ row[b] \in Row
      /\ row[b].status = "charging" /\ row[b].key = k /\ row[b].pi = 0
      /\ \A v \in Workers \ {w} : worker[v] # Idle => worker[v].booking # b
  BY Owner
<1>3. /\ r.pi = 0 /\ r.attempts = row[b].attempts + 1
      /\ r.key = IF clear THEN 0 ELSE k
  BY <1>2, RevertedFields
<1>4. clear =>
        \/ \E e \in Executed(b, k) : ~e.taken
        \/ \A q \in sent : q.booking = b => q.key # k
  BY DEF ChargeInv, RefusalsAreFinal
<1>5. row' = [row EXCEPT ![b] = r]
  OBVIOUS
<1> HIDE DEF b, k, r
<1>6. row'[b] = r /\ \A c \in Bookings \ {b} : row'[c] = row[c]
  BY <1>1, <1>2, <1>5
<1>7. worker'[w] = Idle /\ \A v \in Workers \ {w} : worker'[v] = worker[v]
  BY <1>1
<1>8. OwnsRow' /\ Exclusive'
  BY <1>2, <1>6, <1>7, Owner DEF ChargeInv, OwnsRow, Exclusive
<1>9. RefusalsAreFinal'
  BY <1>7, IdleFacts DEF ChargeInv, RefusalsAreFinal, Executed
<1>10. OneExecution' /\ Keyed' /\ SentFirst'
  BY DEF ChargeInv, OneExecution, Keyed, SentFirst
<1>11. PaymentKeepsItsKey'
  <2> SUFFICES ASSUME NEW e \in ledger, e.taken, e.booking = b
               PROVE  r.pi = 0 /\ r.key = e.key
    BY <1>6 DEF ChargeInv, RecordInv, TypeOK, Execution, PaymentKeepsItsKey
  <2>1. e.key = k
    BY <1>2 DEF ChargeInv, PaymentKeepsItsKey
  <2>2. ~ clear
    <3> SUFFICES ASSUME clear PROVE FALSE
      OBVIOUS
    <3>1. e \in Executed(b, k)
      BY <2>1 DEF Executed
    <3>2. \A d \in Executed(b, k) : d = e
      BY <3>1 DEF Executed, ChargeInv, OneExecution
    <3>3. \A q \in sent : q.booking = b => q.key # k
      BY <1>4, <3>2
    <3>4. \E q \in sent : q.booking = e.booking /\ q.key = e.key
      BY DEF ChargeInv, SentFirst
    <3>5. QED BY <2>1, <3>3, <3>4
  <2>3. QED BY <1>3, <2>1, <2>2
<1>12. LiveRequestsHoldKey'
  <2> SUFFICES ASSUME NEW q \in sent, Executed(q.booking, q.key) = {}, q.booking = b
               PROVE  r.pi = 0 /\ r.key = q.key
    BY <1>6 DEF ChargeInv, RecordInv, TypeOK, Request, LiveRequestsHoldKey, Executed
  <2>1. q.key = k
    BY <1>2 DEF ChargeInv, LiveRequestsHoldKey
  <2>2. ~ clear
    BY <1>4, <2>1
  <2>3. QED BY <1>3, <2>1, <2>2
<1>13. KeysBelowAttempts'
  <2> SUFFICES ASSUME NEW q \in sent, q.booking = b
               PROVE  q.key <= r.attempts + 1 /\ q.key <= r.attempts
    BY <1>6 DEF ChargeInv, RecordInv, TypeOK, Request, KeysBelowAttempts
  <2>1. q.key <= row[b].attempts + 1
    BY DEF ChargeInv, KeysBelowAttempts
  <2>2. q.key \in Nat /\ row[b].attempts \in Nat
    BY <1>2 DEF ChargeInv, RecordInv, TypeOK, Request, Row
  <2>3. QED BY <1>3, <2>1, <2>2
<1>14. KeyBelowAttempts'
  <2> SUFFICES r.key <= r.attempts + 1
    BY <1>6 DEF ChargeInv, KeyBelowAttempts
  <2>1. row[b].key <= row[b].attempts + 1 /\ row[b].key \in Nat /\ row[b].attempts \in Nat
    BY <1>2 DEF ChargeInv, KeyBelowAttempts, Row
  <2>2. QED BY <1>2, <1>3, <2>1
<1>15. QED BY <1>8, <1>9, <1>10, <1>11, <1>12, <1>13, <1>14 DEF ChargeInv

\* Recording the payment: the row trades its key's promise for the payment itself.
LEMMA RecordChargeInv ==
    ASSUME ChargeInv, RecordInv', NEW w \in Workers, UpdateBookingCharged(w)
    PROVE  ChargeInv'
<1> DEFINE b == worker[w].booking
           k == worker[w].key
           a == worker[w].amount
           r == Charged(row[b], k, a)
<1>1. row \in [Bookings -> Row] /\ worker \in [Workers -> Worker]
  BY DEF ChargeInv, RecordInv, TypeOK
<1>2. /\ worker[w].pc = "paid"
      /\ row' = [row EXCEPT ![b] = r]
      /\ worker' = [worker EXCEPT ![w] = Idle]
      /\ sent' = sent /\ ledger' = ledger
  BY DEF UpdateBookingCharged
<1>3. worker[w] # Idle
  BY <1>2, IdleFacts
<1>4. /\ b \in Bookings /\ k \in Nat \ {0} /\ row[b] \in Row
      /\ row[b].status = "charging" /\ row[b].key = k /\ row[b].pi = 0
      /\ \A v \in Workers \ {w} : worker[v] # Idle => worker[v].booking # b
  BY <1>3, Owner
<1>5. a \in Nat
  BY <1>2, <1>3, ChargingAssumption DEF ChargeInv, RecordInv, WorkerOK
<1>6. r.pi = k /\ r.attempts = row[b].attempts /\ r.key = k
  <2> HIDE DEF b, k, a
  <2>1. k \in Nat /\ a \in Nat /\ row[b] \in Row
    BY <1>4, <1>5
  <2>2. /\ Charged(row[b], k, a).key = row[b].key
        /\ Charged(row[b], k, a).attempts = row[b].attempts
        /\ row[b].status = "charging" => Charged(row[b], k, a).pi = k
    BY <2>1, ChargedFields, SMTT(30)
  <2>3. QED BY <1>4, <2>2
<1>7. \E e \in Executed(b, k) : e.taken
  <2> DEFINE e == [booking |-> b, key |-> k, amount |-> a, taken |-> TRUE]
  <2>1. e \in ledger
    BY <1>2 DEF ChargeInv, RecordInv, PaidIsReal
  <2>2. e \in Executed(b, k) /\ e.taken
    BY <2>1 DEF Executed
  <2>3. QED BY <2>2
<1> HIDE DEF b, k, a, r
<1>8. row'[b] = r /\ \A c \in Bookings \ {b} : row'[c] = row[c]
  BY <1>1, <1>2, <1>4
<1>9. worker'[w] = Idle /\ \A v \in Workers \ {w} : worker'[v] = worker[v]
  BY <1>1, <1>2
<1>10. OwnsRow' /\ Exclusive'
  BY <1>4, <1>8, <1>9, Owner DEF ChargeInv, OwnsRow, Exclusive
<1>11. RefusalsAreFinal' /\ OneExecution' /\ Keyed' /\ SentFirst'
  BY <1>2, <1>9, IdleFacts
     DEF ChargeInv, RefusalsAreFinal, Executed, OneExecution, Keyed, SentFirst
<1>12. PaymentKeepsItsKey'
  <2> SUFFICES ASSUME NEW e \in ledger, e.taken, e.booking = b
               PROVE  e.key = k
    BY <1>2, <1>4, <1>6, <1>8
       DEF ChargeInv, RecordInv, TypeOK, Execution, PaymentKeepsItsKey
  <2> QED BY <1>4 DEF ChargeInv, PaymentKeepsItsKey
<1>13. LiveRequestsHoldKey'
  <2> SUFFICES ASSUME NEW q \in sent, Executed(q.booking, q.key) = {}, q.booking = b
               PROVE  FALSE
    BY <1>2, <1>8 DEF ChargeInv, RecordInv, TypeOK, Request, LiveRequestsHoldKey, Executed
  <2>1. q.key = k
    BY <1>4 DEF ChargeInv, LiveRequestsHoldKey
  <2>2. QED BY <1>7, <2>1
<1>14. KeysBelowAttempts' /\ KeyBelowAttempts'
  BY <1>2, <1>4, <1>6, <1>8
     DEF ChargeInv, RecordInv, TypeOK, Request, KeysBelowAttempts, KeyBelowAttempts
<1>15. QED BY <1>10, <1>11, <1>12, <1>13, <1>14 DEF ChargeInv

\* Stripe executes a request: a payment can only be taken under the key the row still has.
LEMMA ExecuteChargeInv ==
    ASSUME ChargeInv, RecordInv', NEW q \in sent, Execute(q)
    PROVE  ChargeInv'
<1>1. PICK t \in BOOLEAN :
        ledger' = ledger \cup {[booking |-> q.booking, key |-> q.key,
                                amount |-> q.amount, taken |-> t]}
  BY DEF Execute
<1> DEFINE n == [booking |-> q.booking, key |-> q.key, amount |-> q.amount, taken |-> t]
<1>2. /\ row' = row /\ worker' = worker /\ sent' = sent
      /\ Executed(q.booking, q.key) = {}
  BY DEF Execute
<1>3. /\ n.booking = q.booking /\ n.key = q.key
      /\ ledger' = ledger \cup {n}
  BY <1>1
<1> HIDE DEF n
<1>4. row[q.booking].pi = 0 /\ row[q.booking].key = q.key
  BY <1>2 DEF ChargeInv, LiveRequestsHoldKey
<1>5. OneExecution' /\ Keyed' /\ SentFirst'
  BY <1>2, <1>3 DEF ChargeInv, OneExecution, Keyed, SentFirst, Executed
<1>6. PaymentKeepsItsKey'
  BY <1>2, <1>3, <1>4 DEF ChargeInv, PaymentKeepsItsKey
<1>7. LiveRequestsHoldKey'
  BY <1>2, <1>3 DEF ChargeInv, LiveRequestsHoldKey, Executed
<1>8. RefusalsAreFinal'
  BY <1>2, <1>3 DEF ChargeInv, RefusalsAreFinal, Executed
<1>9. OwnsRow' /\ Exclusive' /\ KeysBelowAttempts' /\ KeyBelowAttempts'
  BY <1>2 DEF ChargeInv, OwnsRow, Exclusive, KeysBelowAttempts, KeyBelowAttempts
<1>10. QED BY <1>5, <1>6, <1>7, <1>8, <1>9 DEF ChargeInv

\* A request goes out under the key of its owner.
LEMMA SubmitChargeInv ==
    ASSUME ChargeInv, RecordInv', NEW w \in Workers, Submit(w)
    PROVE  ChargeInv'
<1>1. PICK a \in Amounts :
        /\ sent' = sent \cup {[booking |-> worker[w].booking, key |-> worker[w].key,
                               amount |-> a]}
        /\ worker' = [worker EXCEPT ![w].pc = "waiting", ![w].amount = a]
  BY DEF Submit
<1> DEFINE b == worker[w].booking
           k == worker[w].key
           n == [booking |-> b, key |-> k, amount |-> a]
           x == [worker[w] EXCEPT !.pc = "waiting", !.amount = a]
<1>2. /\ worker[w].pc = "claimed" /\ row' = row /\ ledger' = ledger
      /\ sent' = sent \cup {n}
      /\ worker' = [worker EXCEPT ![w] = x]
  BY <1>1 DEF Submit
<1>3. worker[w] # Idle /\ worker \in [Workers -> Worker]
  BY <1>2, IdleFacts DEF ChargeInv, RecordInv, TypeOK
<1>4. /\ b \in Bookings /\ k \in Nat \ {0} /\ row[b] \in Row
      /\ row[b].status = "charging" /\ row[b].key = k /\ row[b].pi = 0
      /\ \A v \in Workers \ {w} : worker[v] # Idle => worker[v].booking # b
  BY <1>3, Owner
<1>5. x.pc = "waiting" /\ x.booking = b /\ x.key = k
  BY <1>3 DEF Worker
<1>6. n.booking = b /\ n.key = k
  OBVIOUS
<1> HIDE DEF b, k, n, x
<1>7. worker'[w] = x /\ \A v \in Workers \ {w} : worker'[v] = worker[v]
  BY <1>2, <1>3
<1>8. OwnsRow'
  BY <1>2, <1>4, <1>5, <1>7, Owner DEF ChargeInv, OwnsRow
<1>9. Exclusive'
  BY <1>4, <1>5, <1>7 DEF ChargeInv, Exclusive
<1>10. RefusalsAreFinal'
  <2> SUFFICES ASSUME NEW v \in Workers \ {w},
                      worker[v].pc = "failed", IsDefiniteFailure(worker[v].err)
               PROVE  \/ \E e \in Executed(worker[v].booking, worker[v].key) : ~e.taken
                      \/ \A q \in sent' : q.booking = worker[v].booking => q.key # worker[v].key
    BY <1>2, <1>5, <1>7 DEF RefusalsAreFinal, Executed
  <2>1. worker[v].booking # b
    BY <1>4, IdleFacts
  <2>2. QED BY <1>2, <1>6, <2>1 DEF ChargeInv, RefusalsAreFinal
<1>11. OneExecution' /\ Keyed' /\ SentFirst'
  BY <1>2, <1>4, <1>6 DEF ChargeInv, OneExecution, Keyed, SentFirst
<1>12. PaymentKeepsItsKey' /\ KeyBelowAttempts'
  BY <1>2 DEF ChargeInv, PaymentKeepsItsKey, KeyBelowAttempts
<1>13. LiveRequestsHoldKey'
  BY <1>2, <1>4, <1>6 DEF ChargeInv, LiveRequestsHoldKey, Executed
<1>14. KeysBelowAttempts'
  BY <1>2, <1>4, <1>6 DEF ChargeInv, KeysBelowAttempts, KeyBelowAttempts, Row
<1>15. QED BY <1>8, <1>9, <1>10, <1>11, <1>12, <1>13, <1>14 DEF ChargeInv

LEMMA NextChargeInv ==
    ASSUME ~RetryRejected, ~PatchesInFlight
    PROVE  ChargeInv /\ [Next]_vars => ChargeInv'
<1> SUFFICES ASSUME ChargeInv, [Next]_vars PROVE ChargeInv'
  OBVIOUS
<1>0. RecordInv'
  BY NextRecordInv DEF ChargeInv
<1>1. ASSUME NEW w \in Workers, Step(w)
      PROVE  ChargeInv'
  <2>1. worker[w] \in Worker
    BY DEF ChargeInv, RecordInv, TypeOK
  <2>2. CASE RejectAmount(w)
    <3>1. worker[w] # Idle
      BY <2>2, IdleFacts DEF RejectAmount
    <3>2. QED BY <1>0, <2>2, <3>1, RevertChargeInv DEF RejectAmount
  <2>3. CASE FailLookup(w)
    <3>1. PICK err \in {"invalid_request", "no_answer"} :
            /\ \/ err = "no_answer"
               \/ RetryRejected
               \/ \A q \in sent : q.booking = worker[w].booking => q.key # worker[w].key
            /\ worker' = [worker EXCEPT ![w].pc = "failed", ![w].err = err]
      BY <2>3 DEF FailLookup
    <3> DEFINE x == [worker[w] EXCEPT !.pc = "failed", !.err = err]
    <3>2. /\ worker[w] # Idle
          /\ row' = row /\ sent' = sent /\ ledger' = ledger
          /\ worker' = [worker EXCEPT ![w] = x]
      BY <2>3, <3>1, IdleFacts DEF FailLookup
    <3>3. x \in Worker /\ x.booking = worker[w].booking /\ x.key = worker[w].key /\ x.err = err
      BY <2>1 DEF Worker, Failures
    <3>4. IsDefiniteFailure(err) => err # "no_answer"
      BY DEF IsDefiniteFailure
    <3> HIDE DEF x
    <3>5. IsDefiniteFailure(x.err) =>
            \A q \in sent : q.booking = x.booking => q.key # x.key
      BY <3>1, <3>3, <3>4
    <3>6. QED BY <1>0, <3>2, <3>3, <3>5, OwnerMoves
  <2>4. CASE Submit(w)
    BY <1>0, <2>4, SubmitChargeInv
  <2>11. CASE RejectPayment(w)
    <3>1. FailLookup(w)
      BY <2>11, RejectedLikeLookup
    <3>2. QED BY <2>3, <3>1
  <2>5. CASE Receive(w)
    <3>1. PICK e \in Executed(worker[w].booking, worker[w].key) :
            worker' = [worker EXCEPT ![w].pc = Answer(e, worker[w].amount).pc,
                                     ![w].err = Answer(e, worker[w].amount).err]
      BY <2>5 DEF Receive
    <3> DEFINE ans == Answer(e, worker[w].amount)
               x == [worker[w] EXCEPT !.pc = ans.pc, !.err = ans.err]
    <3>2. /\ worker[w] # Idle
          /\ row' = row /\ sent' = sent /\ ledger' = ledger
          /\ worker' = [worker EXCEPT ![w] = x]
      BY <2>5, <3>1, IdleFacts DEF Receive
    <3>3. /\ ans.pc \in {"paid", "failed"}
          /\ ans.err \in Failures \cup {"none"}
          /\ IsDefiniteFailure(ans.err) => ~e.taken
      BY DEF Answer, Failures, IsDefiniteFailure
    <3> HIDE DEF ans
    <3>4. x \in Worker /\ x.booking = worker[w].booking /\ x.key = worker[w].key /\ x.err = ans.err
      BY <2>1, <3>3 DEF Worker
    <3> HIDE DEF x
    <3>5. QED BY <1>0, <3>2, <3>3, <3>4, OwnerMoves
  <2>6. CASE GiveUp(w)
    <3> DEFINE x == [worker[w] EXCEPT !.pc = "failed", !.err = "no_answer"]
    <3>1. /\ worker[w] # Idle
          /\ row' = row /\ sent' = sent /\ ledger' = ledger
          /\ worker' = [worker EXCEPT ![w] = x]
      BY <2>6, IdleFacts DEF GiveUp
    <3>2. /\ x \in Worker /\ x.booking = worker[w].booking /\ x.key = worker[w].key
          /\ ~IsDefiniteFailure(x.err)
      BY <2>1 DEF Worker, Failures, IsDefiniteFailure
    <3> HIDE DEF x
    <3>3. QED BY <1>0, <3>1, <3>2, OwnerMoves
  <2>7. CASE RevertBookingFromChargingToCompleted(w)
    <3>1. worker[w] # Idle /\ worker[w].pc = "failed"
      BY <2>7, IdleFacts DEF RevertBookingFromChargingToCompleted
    <3>2. IsDefiniteFailure(worker[w].err) \in BOOLEAN
      BY DEF IsDefiniteFailure
    <3>3. QED BY <1>0, <2>7, <3>1, <3>2, RevertChargeInv
              DEF RevertBookingFromChargingToCompleted
  <2>8. CASE UpdateBookingCharged(w)
    BY <1>0, <2>8, RecordChargeInv
  <2>9. QED BY <1>1, <2>2, <2>3, <2>4, <2>5, <2>6, <2>7, <2>8, <2>11 DEF Step
<1>2. ASSUME NEW w \in Workers, Stop(w)
      PROVE  ChargeInv'
  BY <1>0, <1>2, IdleFacts, OwnerMoves DEF Stop
<1>3. ASSUME CompleteExpiredBookings
      PROVE  ChargeInv'
  <2>1. PICK over \in SUBSET {b \in CardOnFile : row[b].status = "confirmed"} :
          row' = [b \in Bookings |->
                    IF b \in over
                    THEN [row[b] EXCEPT !.status = "completed", !.completedAt = "recent"]
                    ELSE row[b]]
    BY <1>3 DEF CompleteExpiredBookings
  <2>2. worker' = worker /\ sent' = sent /\ ledger' = ledger
    BY <1>3 DEF CompleteExpiredBookings
  <2>3. ASSUME NEW b \in Bookings
        PROVE  /\ row'[b].key = row[b].key /\ row'[b].pi = row[b].pi
               /\ row'[b].attempts = row[b].attempts
               /\ row[b].status = "charging" => row'[b].status = row[b].status
    <3>1. row[b] \in Row
      BY DEF ChargeInv, RecordInv, TypeOK
    <3>2. CASE b \in over
      <4>1. row'[b] = [row[b] EXCEPT !.status = "completed", !.completedAt = "recent"]
        BY <2>1, <3>2
      <4>2. row[b].status # "charging"
        BY <3>2
      <4>3. QED BY <3>1, <4>1, <4>2 DEF Row
    <3>3. CASE b \notin over
      BY <2>1, <3>3
    <3>4. QED BY <3>2, <3>3
  <2>4. QED BY <1>0, <2>2, <2>3, Owner, OtherColumnsMove
<1>4. ASSUME NEW b \in Bookings, DelayPasses(b)
      PROVE  ChargeInv'
  BY <1>0, <1>4, OtherColumnsMove DEF DelayPasses, ChargeInv, RecordInv, TypeOK, Row
<1>5. ASSUME NEW b \in Bookings, NEW s \in PatchTargets, UpdateBookingStatus(b, s)
      PROVE  ChargeInv'
  <2>1. row \in [Bookings -> Row]
    BY DEF ChargeInv, RecordInv, TypeOK
  <2> DEFINE c == IF s = "completed" THEN "recent" ELSE row[b].completedAt
  <2>2. /\ row' = [row EXCEPT ![b].status = s, ![b].completedAt = c]
        /\ worker' = worker /\ sent' = sent /\ ledger' = ledger
        /\ InFlight(b) = {}
    BY <1>5 DEF UpdateBookingStatus
  <2> HIDE DEF c
  <2>3. \A d \in Bookings : /\ row'[d].key = row[d].key /\ row'[d].pi = row[d].pi
                            /\ row'[d].attempts = row[d].attempts
                            /\ d # b => row'[d].status = row[d].status
    BY <2>1, <2>2 DEF Row
  <2>4. \A w \in Workers : worker[w] # Idle => worker[w].booking \in Bookings \ {b}
    BY <2>2, Owner DEF InFlight
  <2>5. QED BY <1>0, <2>2, <2>3, <2>4, OtherColumnsMove
<1>6. ASSUME UNCHANGED vars
      PROVE  ChargeInv'
  BY <1>0, <1>6, OtherColumnsMove DEF vars
<1>7. QED
  BY <1>0, <1>1, <1>2, <1>3, <1>4, <1>5, <1>6, ClaimChargeInv, ExecuteChargeInv
     DEF Next, ClaimBookingForCharge, ClaimBookingForAutoCharge, Workers

(***************************************************************************)
(* The theorems.                                                           *)
(***************************************************************************)
LEMMA ChargeInvariant ==
    ASSUME ~RetryRejected, ~PatchesInFlight
    PROVE  Spec => []ChargeInv
<1>1. ChargeInv /\ [Next]_vars => ChargeInv'
  BY NextChargeInv
<1>2. QED BY <1>1, InitChargeInv, PTL DEF Spec

\* One payment per booking, for any number of admins, schedulers, retries and rejected
\* first attempts, when no retry of a request of unknown outcome is rejected and PATCHes
\* keep off rows being charged.
THEOREM ChargedOnce ==
    ASSUME ~RetryRejected, ~PatchesInFlight
    PROVE  Spec => []NoDoubleCharge
<1>1. ChargeInv => NoDoubleCharge
  <2> SUFFICES ASSUME ChargeInv, NEW d \in ledger, NEW e \in ledger,
                      d.taken, e.taken, d.booking = e.booking
               PROVE  d = e
    BY DEF NoDoubleCharge
  <2>1. d.key = e.key
    BY DEF ChargeInv, PaymentKeepsItsKey
  <2>2. QED BY <2>1 DEF ChargeInv, OneExecution
<1>2. QED BY <1>1, ChargeInvariant, PTL

\* No payment is forgotten: it is on the row, or under the key of the next attempt, under
\* the same two assumptions.
THEOREM PaymentsKeepTheirKeys ==
    ASSUME ~RetryRejected, ~PatchesInFlight
    PROVE  Spec => []PaymentKeepsItsKey
<1>1. ChargeInv => PaymentKeepsItsKey
  BY DEF ChargeInv
<1>2. QED BY <1>1, ChargeInvariant, PTL

\* A claimed row has one owner.
THEOREM OneOwner ==
    ASSUME ~RetryRejected, ~PatchesInFlight
    PROVE  Spec => []SoleOwner
<1>1. ChargeInv => SoleOwner
  <2> SUFFICES ASSUME ChargeInv, NEW w \in Workers, worker[w] # Idle
               PROVE  /\ row[worker[w].booking].status = "charging"
                      /\ row[worker[w].booking].key = worker[w].key
                      /\ InFlight(worker[w].booking) = {w}
    BY DEF SoleOwner
  <2>1. NoBooking # worker[w].booking
    BY Owner, ChargingAssumption
  <2>2. \A v \in Workers : worker[v] = Idle => worker[v].booking # worker[w].booking
    BY <2>1, IdleFacts
  <2>3. InFlight(worker[w].booking) = {w}
    BY <2>2, Owner DEF InFlight
  <2>4. QED BY <2>3, Owner
<1>2. QED BY <1>1, ChargeInvariant, PTL

(***************************************************************************)
(* Where each column may change: the facts the two step theorems share.    *)
(***************************************************************************)

\* Only a claim issues a key, the number after the failures so far; only recording writes
\* a payment; only Stripe's execution of a request changes the ledger.
LEMMA Columns ==
    ASSUME ChargeInv, [Next]_vars, NEW b \in Bookings
    PROVE  /\ row'[b].key # 0 => row'[b].key \in {row[b].key, row[b].attempts + 1}
           /\ \/ row'[b].pi = row[b].pi /\ row'[b].amount = row[b].amount
              \/ \E w \in Workers : worker[w].booking = b /\ UpdateBookingCharged(w)
           /\ ledger' = ledger \/ \E q \in sent : Execute(q)
<1> DEFINE P == /\ row'[b].key # 0 => row'[b].key \in {row[b].key, row[b].attempts + 1}
                /\ \/ row'[b].pi = row[b].pi /\ row'[b].amount = row[b].amount
                   \/ \E w \in Workers : worker[w].booking = b /\ UpdateBookingCharged(w)
                /\ ledger' = ledger \/ \E q \in sent : Execute(q)
<1>1. row \in [Bookings -> Row] /\ row[b] \in Row
  BY DEF ChargeInv, RecordInv, TypeOK
<1>2. ASSUME NEW r \in Row, r.pi = row[b].pi, r.amount = row[b].amount,
             r.key # 0 => r.key \in {row[b].key, row[b].attempts + 1},
             row'[b] = r, ledger' = ledger
      PROVE  P
  BY <1>2
<1>3. ASSUME row'[b] = row[b], ledger' = ledger \/ \E q \in sent : Execute(q)
      PROVE  P
  BY <1>3
<1>4. ASSUME NEW w \in Workers, NEW c \in Bookings, Claim(w, c)
      PROVE  P
  <2>1. CASE c = b
    <3>1. row'[b] = Claimed(row[b]) /\ ledger' = ledger
      BY <1>1, <1>4, <2>1 DEF Claim
    <3>2. /\ Claimed(row[b]) \in Row
          /\ Claimed(row[b]).pi = row[b].pi /\ Claimed(row[b]).amount = row[b].amount
          /\ Claimed(row[b]).key \in {row[b].key, row[b].attempts + 1}
      BY <1>1, ClaimedFields
    <3>3. QED BY <1>2, <3>1, <3>2
  <2>2. CASE c # b
    BY <1>1, <1>3, <1>4, <2>2 DEF Claim
  <2>3. QED BY <2>1, <2>2
<1>5. ASSUME NEW w \in Workers, NEW clear \in BOOLEAN, ledger' = ledger,
             row' = [row EXCEPT ![worker[w].booking] = Reverted(@, clear)]
      PROVE  P
  <2>1. CASE worker[w].booking = b
    <3>1. row'[b] = Reverted(row[b], clear)
      BY <1>1, <1>5, <2>1
    <3>2. /\ Reverted(row[b], clear) \in Row
          /\ Reverted(row[b], clear).pi = row[b].pi
          /\ Reverted(row[b], clear).amount = row[b].amount
          /\ row[b].status # "charging" => Reverted(row[b], clear) = row[b]
          /\ row[b].status = "charging" =>
                Reverted(row[b], clear).key = IF clear THEN 0 ELSE row[b].key
      BY <1>1, RevertedFields
    <3>3. Reverted(row[b], clear).key # 0 => Reverted(row[b], clear).key = row[b].key
      BY <3>2
    <3>4. QED BY <1>2, <1>5, <3>1, <3>2, <3>3
  <2>2. CASE worker[w].booking # b
    BY <1>1, <1>3, <1>5, <2>2
  <2>3. QED BY <2>1, <2>2
<1>6. ASSUME NEW w \in Workers, UpdateBookingCharged(w)
      PROVE  P
  <2>1. CASE worker[w].booking = b
    <3> DEFINE k == worker[w].key
               a == worker[w].amount
    <3>1. row'[b] = Charged(row[b], k, a) /\ ledger' = ledger
      BY <1>1, <1>6, <2>1 DEF UpdateBookingCharged
    <3>2. worker[w] # Idle /\ worker[w].pc = "paid"
      BY <1>6, IdleFacts DEF UpdateBookingCharged
    <3>3. k \in Nat /\ a \in Nat
      BY <3>2, Owner, ChargingAssumption DEF ChargeInv, RecordInv, WorkerOK
    <3> HIDE DEF k, a
    <3>4. Charged(row[b], k, a).key = row[b].key
      BY <1>1, <3>3, ChargedFields
    <3>5. QED BY <1>6, <2>1, <3>1, <3>4
  <2>2. CASE worker[w].booking # b
    BY <1>1, <1>3, <1>6, <2>2 DEF UpdateBookingCharged
  <2>3. QED BY <2>1, <2>2
<1>7. ASSUME NEW w \in Workers, Step(w)
      PROVE  P
  <2>1. IsDefiniteFailure(worker[w].err) \in BOOLEAN
    BY DEF IsDefiniteFailure
  <2>2. RejectAmount(w) \/ RevertBookingFromChargingToCompleted(w) => P
    BY <1>5, <2>1 DEF RejectAmount, RevertBookingFromChargingToCompleted
  <2>3. FailLookup(w) \/ RejectPayment(w) \/ Submit(w) \/ Receive(w) \/ GiveUp(w) => P
    BY <1>3 DEF FailLookup, RejectPayment, Submit, Receive, GiveUp
  <2>4. QED BY <1>6, <1>7, <2>2, <2>3 DEF Step
<1>8. ASSUME CompleteExpiredBookings
      PROVE  P
  <2>1. PICK over \in SUBSET {c \in CardOnFile : row[c].status = "confirmed"} :
          row' = [c \in Bookings |->
                    IF c \in over
                    THEN [row[c] EXCEPT !.status = "completed", !.completedAt = "recent"]
                    ELSE row[c]]
    BY <1>8 DEF CompleteExpiredBookings
  <2>2. ledger' = ledger
    BY <1>8 DEF CompleteExpiredBookings
  <2> DEFINE r == [row[b] EXCEPT !.status = "completed", !.completedAt = "recent"]
  <2>3. r \in Row /\ r.key = row[b].key /\ r.pi = row[b].pi /\ r.amount = row[b].amount
    BY <1>1 DEF Row, Status
  <2>4. row'[b] = r \/ row'[b] = row[b]
    BY <2>1
  <2> HIDE DEF r
  <2>5. QED BY <1>2, <1>3, <2>2, <2>3, <2>4
<1>9. ASSUME NEW c \in Bookings, DelayPasses(c)
      PROVE  P
  <2> DEFINE r == [row[b] EXCEPT !.completedAt = "due"]
  <2>1. r \in Row /\ r.key = row[b].key /\ r.pi = row[b].pi /\ r.amount = row[b].amount
    BY <1>1 DEF Row
  <2>2. (row'[b] = r \/ row'[b] = row[b]) /\ ledger' = ledger
    BY <1>1, <1>9 DEF DelayPasses
  <2> HIDE DEF r
  <2>3. QED BY <1>2, <1>3, <2>1, <2>2
<1>10. ASSUME NEW c \in Bookings, NEW s \in PatchTargets, UpdateBookingStatus(c, s)
       PROVE  P
  <2> DEFINE d == IF s = "completed" THEN "recent" ELSE row[b].completedAt
             r == [row[b] EXCEPT !.status = s, !.completedAt = d]
  <2>1. d \in {"unset", "recent", "due"} /\ s \in Status
    BY <1>1, ChargingAssumption DEF Row
  <2>2. (row'[b] = r \/ row'[b] = row[b]) /\ ledger' = ledger
    BY <1>1, <1>10 DEF UpdateBookingStatus
  <2> HIDE DEF d
  <2>3. r \in Row /\ r.key = row[b].key /\ r.pi = row[b].pi /\ r.amount = row[b].amount
    BY <1>1, <2>1 DEF Row
  <2> HIDE DEF r
  <2>4. QED BY <1>2, <1>3, <2>2, <2>3
<1>11. ASSUME NEW w \in Workers, Stop(w)
       PROVE  P
  BY <1>3, <1>11 DEF Stop
<1>12. ASSUME NEW q \in sent, Execute(q)
       PROVE  P
  BY <1>3, <1>12 DEF Execute
<1>13. ASSUME UNCHANGED vars
       PROVE  P
  BY <1>3, <1>13 DEF vars
<1>14. P
  <2> HIDE DEF P
  <2> QED
  BY <1>4, <1>7, <1>8, <1>9, <1>10, <1>11, <1>12, <1>13
     DEF Next, ClaimBookingForCharge, ClaimBookingForAutoCharge, Workers
<1>15. QED BY <1>14

\* A claim never reissues a key that a request went out under: attempts are counted on
\* every path that clears a key.
THEOREM IssuedKeysAreFresh ==
    ASSUME ~RetryRejected, ~PatchesInFlight
    PROVE  Spec => KeysAreFresh
<1> DEFINE Fresh == \A b \in Bookings : row[b].key = 0 /\ row'[b].key # 0 =>
                        \A q \in sent : q.booking = b => q.key # row'[b].key
<1>1. ASSUME ChargeInv, [Next]_vars PROVE Fresh
  <2> SUFFICES ASSUME NEW b \in Bookings, row[b].key = 0, row'[b].key # 0,
                      NEW q \in sent, q.booking = b
               PROVE  q.key # row'[b].key
    OBVIOUS
  <2>1. row'[b].key = row[b].attempts + 1
    BY <1>1, Columns
  <2>2. q.key <= row[b].attempts
    BY <1>1 DEF ChargeInv, KeysBelowAttempts
  <2>3. q.key \in Nat /\ row[b].attempts \in Nat
    BY <1>1 DEF ChargeInv, RecordInv, TypeOK, Request, Row
  <2>4. QED BY <2>1, <2>2, <2>3
<1>2. ChargeInv /\ [Next]_vars => [Fresh]_vars
  BY <1>1
<1>3. QED BY <1>2, ChargeInvariant, PTL DEF Spec, KeysAreFresh

\* The refinement mapping, booking by booking.
takenBar == [b \in Bookings |-> {<<e.key, e.amount>> :
                                   e \in {x \in ledger : x.booking = b /\ x.taken}}]

recordedBar == [b \in Bookings |-> IF row[b].pi = 0 THEN {}
                                   ELSE {<<row[b].pi, row[b].amount>>}]

\* A PaymentIntent request executed with success is the first payment of its booking.
LEMMA ExecuteTakes ==
    ASSUME ChargeInv, NEW q \in sent, Execute(q)
    PROVE  takenBar' = takenBar \/ Once!Take(q.booking)
<1>1. PICK t \in BOOLEAN :
        ledger' = ledger \cup {[booking |-> q.booking, key |-> q.key,
                                amount |-> q.amount, taken |-> t]}
  BY DEF Execute
<1> DEFINE n == [booking |-> q.booking, key |-> q.key, amount |-> q.amount, taken |-> t]
           b == q.booking
<1>2. /\ row' = row /\ ledger' = ledger \cup {n}
      /\ n.booking = b /\ n.key = q.key /\ n.amount = q.amount /\ n.taken = t
      /\ b \in Bookings
  BY <1>1 DEF Execute, ChargeInv, RecordInv, TypeOK, Request
<1> HIDE DEF n
<1>3. CASE ~t
  <2>1. \A c \in Bookings : {x \in ledger' : x.booking = c /\ x.taken}
                          = {x \in ledger : x.booking = c /\ x.taken}
    BY <1>2, <1>3
  <2>2. QED BY <2>1 DEF takenBar
<1>4. CASE t
  <2>1. {x \in ledger : x.booking = b /\ x.taken} = {}
    <3> SUFFICES ASSUME NEW e \in ledger, e.booking = b, e.taken PROVE FALSE
      OBVIOUS
    <3>1. Executed(b, q.key) = {}
      BY DEF Execute
    <3>2. row[b].pi = 0 /\ row[b].key = q.key
      BY <3>1 DEF ChargeInv, LiveRequestsHoldKey
    <3>3. e.key = q.key
      BY <3>2 DEF ChargeInv, PaymentKeepsItsKey
    <3>4. QED BY <3>1, <3>3 DEF Executed
  <2>2. {x \in ledger' : x.booking = b /\ x.taken} = {n}
    BY <1>2, <1>4, <2>1
  <2>3. \A c \in Bookings \ {b} : {x \in ledger' : x.booking = c /\ x.taken}
                                = {x \in ledger : x.booking = c /\ x.taken}
    BY <1>2
  <2> DEFINE p == <<q.key, q.amount>>
  <2>4. takenBar[b] = {}
    BY <1>2, <2>1 DEF takenBar
  <2>5. takenBar' = [takenBar EXCEPT ![b] = {p}]
    <3>1. {<<e.key, e.amount>> : e \in {n}} = {p}
      BY <1>2
    <3> HIDE DEF p
    <3>2. takenBar'[b] = {p}
      BY <1>2, <2>2, <3>1 DEF takenBar
    <3>3. \A c \in Bookings \ {b} : takenBar'[c] = takenBar[c]
      BY <2>3 DEF takenBar
    <3>4. takenBar = [c \in Bookings |-> takenBar[c]] /\ takenBar' = [c \in Bookings |-> takenBar'[c]]
      BY DEF takenBar
    <3> HIDE DEF b
    <3>5. QED BY <1>2, <3>2, <3>3, <3>4
  <2>6. p \in takenBar'[b]
    BY <1>2, <2>5 DEF takenBar
  <2>7. recordedBar' = recordedBar
    BY <1>2 DEF recordedBar
  <2>8. QED BY <2>4, <2>5, <2>6, <2>7 DEF Once!Take, takenBar, recordedBar
<1>5. QED BY <1>3, <1>4

\* Recording is recording what was taken.
LEMMA ChargedRecords ==
    ASSUME ChargeInv, NEW w \in Workers, UpdateBookingCharged(w),
           NEW b \in Bookings, worker[w].booking = b
    PROVE  Once!Record(b)
<1> DEFINE k == worker[w].key
           a == worker[w].amount
<1>1. worker[w] # Idle /\ worker[w].pc = "paid" /\ ledger' = ledger
  BY IdleFacts DEF UpdateBookingCharged
<1>2. /\ b \in Bookings /\ k \in Nat \ {0} /\ row[b] \in Row
      /\ row[b].status = "charging" /\ row[b].key = k /\ row[b].pi = 0
  BY <1>1, Owner
<1>3. a \in Nat
  BY <1>1, ChargingAssumption DEF ChargeInv, RecordInv, WorkerOK
<1>4. row \in [Bookings -> Row] /\ row' = [row EXCEPT ![b] = Charged(row[b], k, a)]
  BY DEF UpdateBookingCharged, ChargeInv, RecordInv, TypeOK
<1> DEFINE n == [booking |-> b, key |-> k, amount |-> a, taken |-> TRUE]
<1>5. n \in ledger /\ n.booking = b /\ n.key = k /\ n.amount = a /\ n.taken
  BY <1>1 DEF ChargeInv, RecordInv, PaidIsReal
<1> HIDE DEF k, a, n
<1>6. Charged(row[b], k, a).pi = k /\ Charged(row[b], k, a).amount = a
  <2>1. k \in Nat /\ a \in Nat /\ row[b] \in Row
    BY <1>2, <1>3
  <2>2. row[b].status = "charging" =>
          Charged(row[b], k, a).pi = k /\ Charged(row[b], k, a).amount = a
    BY <2>1, ChargedFields
  <2>3. QED BY <1>2, <2>2
<1>7. {x \in ledger : x.booking = b /\ x.taken} = {n}
  <2> SUFFICES ASSUME NEW e \in ledger, e.booking = b, e.taken PROVE e = n
    BY <1>5
  <2>1. e.key = k
    BY <1>2 DEF ChargeInv, PaymentKeepsItsKey
  <2>2. QED BY <1>5, <2>1 DEF ChargeInv, OneExecution
<1>8. takenBar[b] = {<<k, a>>} /\ takenBar' = takenBar
  BY <1>1, <1>2, <1>5, <1>7 DEF takenBar
<1>9. recordedBar[b] = {}
  BY <1>2 DEF recordedBar
<1>10. recordedBar' = [recordedBar EXCEPT ![b] = {<<k, a>>}]
  BY <1>2, <1>4, <1>6 DEF recordedBar
<1>11. QED
  BY <1>2, <1>8, <1>9, <1>10 DEF Once!Record, takenBar, recordedBar

\* The two charge paths, with retries, crashes and late executions, implement PaymentOnce,
\* under the same two assumptions.
THEOREM ChargingRefinesPaymentOnce ==
    ASSUME ~RetryRejected, ~PatchesInFlight
    PROVE  Spec => ImplementsPaymentOnce
<1>1. Init => Once!Init
  BY DEF Init, Once!Init, NewRow
<1>2. ASSUME ChargeInv, [Next]_vars
      PROVE  [Once!Next]_<<takenBar, recordedBar>>
  <2>1. CASE \E w \in Workers : UpdateBookingCharged(w)
    <3>1. PICK w \in Workers : UpdateBookingCharged(w)
      BY <2>1
    <3>2. PICK b \in Bookings : worker[w].booking = b
      BY <1>2, <3>1, Owner, IdleFacts DEF UpdateBookingCharged
    <3>3. Once!Next
      <4>1. Once!Record(b)
        BY <1>2, <3>1, <3>2, ChargedRecords
      <4>2. QED BY <4>1, Zenon DEF Once!Next
    <3>4. QED BY <3>3
  <2>2. CASE ~ \E w \in Workers : UpdateBookingCharged(w)
    <3>1. recordedBar' = recordedBar
      BY <1>2, <2>2, Columns DEF recordedBar
    <3>2. CASE ledger' = ledger
      BY <3>1, <3>2 DEF takenBar
    <3>3. CASE \E q \in sent : Execute(q)
      <4>1. PICK q \in sent : Execute(q)
        BY <3>3
      <4>2. q.booking \in Bookings
        BY <1>2 DEF ChargeInv, RecordInv, TypeOK, Request
      <4>3. takenBar' = takenBar \/ Once!Take(q.booking)
        BY <1>2, <4>1, ExecuteTakes
      <4>4. CASE takenBar' = takenBar
        BY <3>1, <4>4
      <4>5. CASE Once!Take(q.booking)
        <5>1. Once!Next
          BY <4>2, <4>5, Zenon DEF Once!Next
        <5>2. QED BY <5>1
      <4>6. QED BY <4>3, <4>4, <4>5
    <3>4. CASE Bookings = {}
      BY <3>1, <3>4 DEF takenBar
    <3>5. QED BY <1>2, <3>2, <3>3, <3>4, Columns
  <2>3. QED BY <2>1, <2>2
<1>3. ChargeInv /\ [Next]_vars => [Once!Next]_<<takenBar, recordedBar>>
  BY <1>2
<1>4. QED BY <1>1, <1>3, ChargeInvariant, PTL
          DEF Spec, ImplementsPaymentOnce, Once!Spec, takenBar, recordedBar
==============================================================================
