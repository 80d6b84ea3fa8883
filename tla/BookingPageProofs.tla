---------------------------- MODULE BookingPageProofs ----------------------------
(***************************************************************************)
(* Theorems about BookingPage, for every strip of days, all windows, any   *)
(* least and greatest length and any number of changes and submissions.    *)
(***************************************************************************)
EXTENDS BookingPage, FiniteSetTheorems, WellFoundedInduction, TLAPS

(***************************************************************************)
(* The inductive invariant.                                                *)
(***************************************************************************)

\* A request that has not been cleaned up is for what is chosen, and slots that are shown
\* are slots of the chosen day that no request is about to replace.
SlotRequestsOK ==
    /\ \A r \in slotRequests : r.live => r.date = date /\ r.answer = answer
    /\ availability # NoAvailability =>
         ~LoadingSlots /\ availability.free \subseteq Slots[answer][date]

DateRequestsOK == \A r \in dateRequests : r.live => r.answer = answer

\* The submission under way is the one its customer waits for; it asks for hours offered
\* to the answer it carries, and nothing has been created for it before the card is set up.
SubmissionOK ==
    submission.pc # "idle" =>
        /\ submission.n \in Submissions
        /\ told[submission.n] = "waiting"
        /\ submission.date \in Dates
        /\ Ticks(submission) \subseteq OpenTicks[submission.answer][submission.date]
        /\ submission.pc \in {"preparing", "confirming"} => create[submission.n].state = "none"

\* Whoever waits, waits for the submission under way.
WaitingOK ==
    \A n \in Submissions :
        told[n] = "waiting" => submission.n = n /\ submission.pc # "idle"

\* What has not been submitted has not been created.
UnsentOK == \A n \in Submissions : told[n] = "nothing" => create[n].state = "none"

\* A create that stands is for a day of the strip.
CreatesOK ==
    \A n \in Submissions : create[n].state \in {"sent", "booked"} => create[n].date \in Dates

BookingInv ==
    /\ TypeOK
    /\ SlotRequestsOK
    /\ DateRequestsOK
    /\ SelectionIsShown
    /\ SelectionIsOpen
    /\ DateIsBookable
    /\ SubmissionOK
    /\ UnsentOK
    /\ CreatesOK
    /\ CreatesAskForOfferedHours
    /\ WaitingOK
    /\ ToldTheTruth

(***************************************************************************)
(* Days, slots and lengths.                                                *)
(***************************************************************************)
LEMMA NatLeast ==
    ASSUME NEW S \in SUBSET Nat, S # {}
    PROVE  \E m \in S : \A k \in S : m <= k
<1>1. PICK m \in S : \A k \in S : ~(<<k, m>> \in OpToRel(<, Nat))
  BY NatLessThanWellFounded, WFMin
<1>2. \A k \in S : ~(k < m)
  BY <1>1 DEF OpToRel
<1>3. QED BY <1>2

\* The page opens on a day of the strip, and lands on one of those that are bookable.
LEMMA Days ==
    /\ Today \in Dates
    /\ \A ds \in SUBSET Dates : ds # {} => First(ds) \in ds
<1>1. Dates \subseteq Nat /\ Dates # {}
  BY BookingPageAssumption
<1>2. \A ds \in SUBSET Dates : ds # {} => First(ds) \in ds
  BY <1>1, NatLeast DEF First
<1>3. Today = First(Dates)
  BY DEF Today, First
<1>4. QED BY <1>1, <1>2, <1>3

LEMMA WindowsTyped ==
    ASSUME NEW a \in Answers, NEW d \in Dates, NEW w \in Windows[a][d]
    PROVE  w.from \in Tick /\ w.to \in Tick
<1>1. Windows[a][d] \in SUBSET Span
  BY BookingPageAssumption
<1>2. w \in Span
  BY <1>1
<1>3. QED BY <1>2 DEF Span

\* A slot that is offered is an hour of open ticks.
LEMMA SlotsAreOpen ==
    ASSUME NEW a \in Answers, NEW d \in Dates, NEW s \in Slots[a][d]
    PROVE  /\ s \in Tick
           /\ Hour(s) \subseteq OpenTicks[a][d]
<1>1. OpenTicks[a][d] \subseteq Nat
  BY WindowsTyped, BookingPageAssumption DEF OpenTicks, Tick
<1>2. PICK o \in Opens(a, d) : s \in Tick /\ o <= s /\ o .. (s + 1) \subseteq OpenTicks[a][d]
  BY DEF Slots
<1>3. o \in Nat /\ s \in Nat
  BY <1>1, <1>2, BookingPageAssumption DEF Opens, Tick
<1>4. Hour(s) \subseteq o .. (s + 1)
  BY <1>2, <1>3 DEF Hour
<1>5. QED BY <1>2, <1>4

LEMMA FreeAreSlots ==
    ASSUME NEW a \in Answers, NEW d \in Dates
    PROVE  FreeSlots(a, d) \subseteq Slots[a][d] /\ FreeSlots(a, d) \subseteq Tick
BY SlotsAreOpen DEF FreeSlots

\* Hours that cover a range without a gap are at least half as many as its half hours.
LEMMA HoursCover ==
    ASSUME NEW S \in SUBSET Nat, IsFiniteSet(S), NEW from \in Nat, NEW to \in Nat, from <= to,
           from .. to \subseteq UNION {Hour(t) : t \in S}
    PROVE  to + 1 - from <= 2 * Cardinality(S)
<1> DEFINE T == {t + 1 : t \in S}
           f == [t \in S |-> t + 1]
<1>1. f \in Surjection(S, T)
  BY DEF Surjection
<1>2. IsFiniteSet(T) /\ Cardinality(T) <= Cardinality(S)
  BY <1>1, FS_Surjection
<1>3. IsFiniteSet(S \cup T)
      /\ Cardinality(S \cup T) = Cardinality(S) + Cardinality(T) - Cardinality(S \cap T)
  BY <1>2, FS_Union
<1>4. IsFiniteSet(S \cap T)
  BY <1>2, FS_Subset
<1>5. /\ Cardinality(S) \in Nat /\ Cardinality(T) \in Nat /\ Cardinality(S \cap T) \in Nat
      /\ Cardinality(S \cup T) \in Nat
  BY <1>2, <1>3, <1>4, FS_CardinalityType
<1>6. from .. to \subseteq S \cup T
  BY DEF Hour
<1>7. Cardinality(from .. to) = to - from + 1 /\ Cardinality(from .. to) <= Cardinality(S \cup T)
  BY <1>3, <1>6, FS_Interval, FS_Subset
<1> HIDE DEF T
<1>8. QED BY <1>2, <1>3, <1>5, <1>7

\* The half hours of a period of m hours from s are those of its m hours.
LEMMA HoursOf ==
    ASSUME NEW s \in Nat, NEW m \in Nat
    PROVE  s .. (s + 2 * m - 1) = UNION {Hour(s + 2 * i) : i \in 0 .. (m - 1)}
<1>1. ASSUME NEW t \in s .. (s + 2 * m - 1)
      PROVE  \E i \in 0 .. (m - 1) : t \in Hour(s + 2 * i)
  <2>1. PICK i \in Nat : t = s + 2 * i \/ t = s + 2 * i + 1
    <3>1. /\ (t - s) \div 2 \in Nat
          /\ t = s + 2 * ((t - s) \div 2) \/ t = s + 2 * ((t - s) \div 2) + 1
      OBVIOUS
    <3>2. QED BY <3>1
  <2>2. i \in 0 .. (m - 1)
    BY <2>1
  <2>3. QED BY <2>1, <2>2 DEF Hour
<1>2. ASSUME NEW i \in 0 .. (m - 1)
      PROVE  Hour(s + 2 * i) \subseteq s .. (s + 2 * m - 1)
  BY DEF Hour
<1>3. QED BY <1>1, <1>2

\* From a slot on, whole hours in open ticks are slots too.
LEMMA SlotsGoOn ==
    ASSUME NEW a \in Answers, NEW d \in Dates, NEW s \in Slots[a][d], NEW i \in Nat,
           s .. (s + 2 * i + 1) \subseteq OpenTicks[a][d]
    PROVE  s + 2 * i \in Slots[a][d]
<1>1. OpenTicks[a][d] \subseteq Tick
  BY WindowsTyped, BookingPageAssumption DEF OpenTicks, Tick
<1>2. PICK o \in Opens(a, d) :
        s \in Tick /\ o <= s /\ (s - o) % 2 = 0 /\ o .. (s + 1) \subseteq OpenTicks[a][d]
  BY DEF Slots
<1>3. o \in Nat /\ s \in Nat
  BY <1>1, <1>2, BookingPageAssumption DEF Opens, Tick
<1>4. s + 2 * i \in Tick
  BY <1>1, <1>3
<1>5. o .. (s + 2 * i + 1) \subseteq OpenTicks[a][d]
  BY <1>2, <1>3
<1>6. o <= s + 2 * i /\ (s + 2 * i - o) % 2 = 0
  BY <1>2, <1>3
<1> DEFINE t == s + 2 * i
<1>7. t \in Tick /\ o <= t /\ (t - o) % 2 = 0 /\ o .. (t + 1) \subseteq OpenTicks[a][d]
  BY <1>3, <1>4, <1>5, <1>6
<1> HIDE DEF t
<1>8. t \in Slots[a][d]
  BY <1>2, <1>7 DEF Slots
<1>9. QED BY <1>8 DEF t

\* A run of free slots and a period that create takes are the same thing.
LEMMA OffersAgree ==
    ASSUME MinHours <= MaxHours, NEW a \in Answers, NEW d \in Dates
    PROVE  HasBookableRun(a, d) <=>
             \E s \in Slots[a][d] :
               Acceptable([answer |-> a, date |-> d, from |-> s, to |-> s + 2 * MinHours])
<1> DEFINE Period(s) == [answer |-> a, date |-> d, from |-> s, to |-> s + 2 * MinHours]
           Hours(s) == {Hour(s + 2 * i) : i \in 0 .. (MinHours - 1)}
<1>1. MinHours \in Nat \ {0} /\ MaxHours \in Nat
  BY BookingPageAssumption
<1>2. \A s \in Slots[a][d] : s \in Nat
  BY SlotsAreOpen, BookingPageAssumption DEF Tick
<1>3. ASSUME NEW s \in Slots[a][d]
      PROVE  Ticks(Period(s)) = UNION Hours(s)
  <2>1. Ticks(Period(s)) = s .. (s + 2 * MinHours - 1)
    BY <1>1, <1>2 DEF Ticks
  <2>2. s \in Nat /\ MinHours \in Nat
    BY <1>1, <1>2
  <2>3. s .. (s + 2 * MinHours - 1) = UNION Hours(s)
    BY <2>2, HoursOf
  <2>4. QED BY <2>1, <2>3
<1>4. ASSUME NEW s \in Slots[a][d]
      PROVE  Acceptable(Period(s)) <=>
               UNION Hours(s) \subseteq OpenTicks[a][d] /\ (UNION Hours(s)) \cap Busy(d) = {}
  <2>1. /\ Period(s).to - Period(s).from >= 2 * MinHours
        /\ Period(s).to - Period(s).from <= 2 * MaxHours
    BY <1>1, <1>2
  <2>2. Period(s).answer = a /\ Period(s).date = d
    OBVIOUS
  <2>3. Ticks(Period(s)) = UNION Hours(s)
    BY <1>3
  <2> HIDE DEF Period, Hours
  <2>4. QED BY <2>1, <2>2, <2>3 DEF Acceptable
<1>5. ASSUME HasBookableRun(a, d)
      PROVE  \E s \in Slots[a][d] : Acceptable(Period(s))
  <2>1. PICK s \in FreeSlots(a, d) :
          \A i \in 0 .. (MinHours - 1) : s + 2 * i \in FreeSlots(a, d)
    BY <1>5 DEF HasBookableRun
  <2>2. s \in Slots[a][d]
    BY FreeAreSlots
  <2>3. \A i \in 0 .. (MinHours - 1) :
          Hour(s + 2 * i) \subseteq OpenTicks[a][d] /\ Hour(s + 2 * i) \cap Busy(d) = {}
    BY <2>1, FreeAreSlots, SlotsAreOpen DEF FreeSlots
  <2>4. Acceptable(Period(s))
    <3>1. UNION Hours(s) \subseteq OpenTicks[a][d] /\ (UNION Hours(s)) \cap Busy(d) = {}
      BY <2>3
    <3> HIDE DEF Period, Hours
    <3>2. QED BY <1>4, <2>2, <3>1
  <2>5. QED BY <2>2, <2>4
<1>6. ASSUME NEW s \in Slots[a][d], Acceptable(Period(s))
      PROVE  HasBookableRun(a, d)
  <2>1. /\ \A i \in 0 .. (MinHours - 1) : Hour(s + 2 * i) \cap Busy(d) = {}
        /\ UNION Hours(s) \subseteq OpenTicks[a][d]
    <3>1. UNION Hours(s) \subseteq OpenTicks[a][d] /\ (UNION Hours(s)) \cap Busy(d) = {}
      <4> HIDE DEF Period, Hours
      <4>1. QED BY <1>4, <1>6
    <3>2. QED BY <3>1
  <2>2. s .. (s + 2 * MinHours - 1) \subseteq OpenTicks[a][d]
    BY <1>1, <1>2, <2>1, HoursOf
  <2>3. \A i \in 0 .. (MinHours - 1) : s .. (s + 2 * i + 1) \subseteq OpenTicks[a][d]
    BY <1>1, <1>2, <2>2
  <2>4. \A i \in 0 .. (MinHours - 1) : s + 2 * i \in Slots[a][d]
    BY <1>1, <2>3, SlotsGoOn
  <2>5. \A i \in 0 .. (MinHours - 1) : s + 2 * i \in FreeSlots(a, d)
    BY <2>1, <2>4 DEF FreeSlots
  <2>6. s \in FreeSlots(a, d)
    BY <1>1, <1>2, <2>5
  <2>7. QED BY <2>5, <2>6 DEF HasBookableRun
<1>7. QED BY <1>5, <1>6

(***************************************************************************)
(* The types.                                                              *)
(***************************************************************************)
SlotRequest == [date : Dates, answer : Answers, live : BOOLEAN]

DateRequest == [answer : Answers, live : BOOLEAN]

LEMMA BookableAreDates == \A a : BookableDates(a) \subseteq Dates
BY DEF BookableDates

\* What the visitor has chosen, and the days known.
LEMMA ChoicesTyped ==
    ASSUME TypeOK, [Next]_vars
    PROVE  /\ settings' \in {"loading", "plain", "gate"}
           /\ date' \in Dates
           /\ answer' \in Answers
           /\ availableDates' \in [known : BOOLEAN, answer : Answers, dates : SUBSET Dates]
           /\ changes' \in 0 .. MaxChanges
<1> DEFINE Typed ==
      /\ settings' \in {"loading", "plain", "gate"}
      /\ date' \in Dates
      /\ answer' \in Answers
      /\ availableDates' \in [known : BOOLEAN, answer : Answers, dates : SUBSET Dates]
      /\ changes' \in 0 .. MaxChanges
<1>1. /\ settings \in {"loading", "plain", "gate"} /\ date \in Dates /\ answer \in Answers
      /\ availableDates \in [known : BOOLEAN, answer : Answers, dates : SUBSET Dates]
      /\ changes \in 0 .. MaxChanges /\ dateRequests \subseteq DateRequest
      /\ MaxChanges \in Nat
  BY BookingPageAssumption DEF TypeOK, DateRequest
<1>2. NoDates \in [known : BOOLEAN, answer : Answers, dates : SUBSET Dates]
  BY DEF NoDates, Answers
<1>3. ASSUME NEW kind \in {"plain", "gate"}, LoadSettings(kind)
      PROVE  Typed
  BY <1>1, <1>2, <1>3 DEF LoadSettings, FetchDates
<1>4. ASSUME NEW a \in Answers \ {"unanswered"}, AnswerGate(a)
      PROVE  Typed
  BY <1>1, <1>2, <1>4 DEF AnswerGate, FetchDates
<1>5. ASSUME NEW d \in Dates, ChooseDate(d)
      PROVE  Typed
  BY <1>1, <1>5 DEF ChooseDate
<1>6. ASSUME NEW r \in dateRequests, DatesArrive(r)
      PROVE  Typed
  <2>1. r.answer \in Answers /\ BookableDates(r.answer) \in SUBSET Dates
    BY <1>1, BookableAreDates DEF DateRequest
  <2>2. First(BookableDates(r.answer)) \in Dates \/ BookableDates(r.answer) = {}
    BY <2>1, Days
  <2>3. [known |-> TRUE, answer |-> r.answer, dates |-> BookableDates(r.answer)]
          \in [known : BOOLEAN, answer : Answers, dates : SUBSET Dates]
    BY <2>1
  <2>4. QED BY <1>1, <1>6, <2>2, <2>3 DEF DatesArrive, TakeDates
<1>7. CASE Reload
  BY <1>1, <1>2, <1>7, Days DEF Reload, Answers
<1>8. CASE UNCHANGED <<settings, date, answer, availableDates, changes>>
  BY <1>1, <1>8
<1>9. QED BY <1>3, <1>4, <1>5, <1>6, <1>7, <1>8
  DEF Next, Page, vars, pageVars, Select, SlotsArrive, SlotsFail, DatesFail, StartSelection,
      ExtendSelection, ClearSelection, Submit, PrepareAnswered, ConfirmCardSetup,
      FailBeforeCreate, CreateAnswered, CreateRefused, LoseCreateAnswer, ServeCreate, OthersTake

LEMMA CancelledTyped ==
    /\ \A R \in SUBSET SlotRequest : Cancelled(R) \in SUBSET SlotRequest
    /\ \A R \in SUBSET DateRequest : Cancelled(R) \in SUBSET DateRequest
    /\ \A R \in SUBSET SlotRequest : \A r \in Cancelled(R) : ~r.live
    /\ \A R \in SUBSET DateRequest : \A r \in Cancelled(R) : ~r.live
BY DEF Cancelled, SlotRequest, DateRequest

LEMMA RequestsTyped ==
    ASSUME TypeOK, [Next]_vars
    PROVE  slotRequests' \subseteq SlotRequest /\ dateRequests' \subseteq DateRequest
<1>1. /\ date \in Dates /\ answer \in Answers
      /\ slotRequests \subseteq SlotRequest /\ dateRequests \subseteq DateRequest
  BY DEF TypeOK, SlotRequest, DateRequest
<1>2. ASSUME NEW d \in Dates, NEW a \in Answers, FetchSlots(d, a)
      PROVE  slotRequests' \subseteq SlotRequest
  <2>1. [date |-> d, answer |-> a, live |-> TRUE] \in SlotRequest
    BY DEF SlotRequest
  <2>2. QED BY <1>1, <1>2, <2>1, CancelledTyped DEF FetchSlots
<1>3. ASSUME NEW a \in Answers, FetchDates(a)
      PROVE  dateRequests' \subseteq DateRequest
  <2>1. [answer |-> a, live |-> TRUE] \in DateRequest
    BY DEF DateRequest
  <2>2. QED BY <1>1, <1>3, <2>1, CancelledTyped DEF FetchDates
<1>4. ASSUME NEW kind \in {"plain", "gate"}, LoadSettings(kind)
      PROVE  slotRequests' \subseteq SlotRequest /\ dateRequests' \subseteq DateRequest
  BY <1>1, <1>2, <1>3, <1>4 DEF LoadSettings
<1>5. ASSUME NEW a \in Answers \ {"unanswered"}, AnswerGate(a)
      PROVE  slotRequests' \subseteq SlotRequest /\ dateRequests' \subseteq DateRequest
  BY <1>1, <1>2, <1>3, <1>5 DEF AnswerGate
<1>6. ASSUME NEW d \in Dates, ChooseDate(d)
      PROVE  slotRequests' \subseteq SlotRequest /\ dateRequests' \subseteq DateRequest
  BY <1>1, <1>2, <1>6 DEF ChooseDate
<1>7. ASSUME NEW r \in dateRequests, DatesArrive(r)
      PROVE  slotRequests' \subseteq SlotRequest /\ dateRequests' \subseteq DateRequest
  <2>1. First(BookableDates(r.answer)) \in Dates \/ BookableDates(r.answer) = {}
    BY Days, BookableAreDates
  <2>2. QED BY <1>1, <1>2, <1>7, <2>1 DEF DatesArrive, TakeDates
<1>8. CASE slotRequests' \subseteq slotRequests /\ dateRequests' \subseteq dateRequests
  BY <1>1, <1>8
<1>9. QED BY <1>4, <1>5, <1>6, <1>7, <1>8
  DEF Next, Page, vars, pageVars, Select, StopLoading, SlotsArrive, SlotsFail, DatesFail,
      StartSelection, ExtendSelection, ClearSelection, Submit, PrepareAnswered, ConfirmCardSetup,
      FailBeforeCreate, CreateAnswered, CreateRefused, LoseCreateAnswer, Reload, ServeCreate,
      OthersTake

\* The slots shown and those selected.
LEMMA SelectionTyped ==
    ASSUME TypeOK, [Next]_vars
    PROVE  /\ availability' \in [date : Dates \cup {NoDate}, answer : Answers, free : SUBSET Tick]
           /\ selection' \in [from : Nat, to : Nat]
<1> DEFINE Typed ==
      /\ availability' \in [date : Dates \cup {NoDate}, answer : Answers, free : SUBSET Tick]
      /\ selection' \in [from : Nat, to : Nat]
<1>1. /\ availability \in [date : Dates \cup {NoDate}, answer : Answers, free : SUBSET Tick]
      /\ selection \in [from : Nat, to : Nat]
      /\ slotRequests \subseteq SlotRequest
  BY DEF TypeOK, SlotRequest
<1>2. /\ NoAvailability \in [date : Dates \cup {NoDate}, answer : Answers, free : SUBSET Tick]
      /\ NoSelection \in [from : Nat, to : Nat]
  BY DEF NoAvailability, NoSelection, Answers
<1>3. ASSUME NEW r \in slotRequests, SlotsArrive(r)
      PROVE  Typed
  <2>1. r.date \in Dates /\ r.answer \in Answers
    BY <1>1 DEF SlotRequest
  <2>2. FreeSlots(r.answer, r.date) \in SUBSET Tick
    BY <2>1, FreeAreSlots
  <2>3. [date |-> r.date, answer |-> r.answer, free |-> FreeSlots(r.answer, r.date)]
          \in [date : Dates \cup {NoDate}, answer : Answers, free : SUBSET Tick]
    BY <2>1, <2>2
  <2>4. QED BY <1>1, <1>3, <2>3 DEF SlotsArrive
<1>4. ASSUME NEW s \in Tick, StartSelection(s) \/ ExtendSelection(s)
      PROVE  Typed
  <2>1. s \in Nat
    BY BookingPageAssumption DEF Tick
  <2>2. QED BY <1>1, <1>4, <2>1 DEF StartSelection, ExtendSelection, Select
<1>5. CASE \/ availability' = NoAvailability /\ selection' = NoSelection
           \/ availability' = availability /\ selection' = NoSelection
           \/ UNCHANGED <<availability, selection>>
  BY <1>1, <1>2, <1>5
<1>6. QED BY <1>3, <1>4, <1>5
  DEF Next, Page, vars, pageVars, FetchSlots, TakeDates, LoadSettings, AnswerGate, ChooseDate,
      DatesArrive, SlotsFail, DatesFail, ClearSelection, Submit, PrepareAnswered,
      ConfirmCardSetup, FailBeforeCreate, CreateAnswered, CreateRefused, LoseCreateAnswer,
      Reload, ServeCreate, OthersTake

Progress == [n : Nat, pc : {"idle", "preparing", "confirming", "creating"},
             date : Dates \cup {NoDate}, from : Nat, to : Nat, answer : Answers]

Request == [state : {"none", "sent", "booked", "refused"}, date : Dates \cup {NoDate},
            from : Nat, to : Nat, answer : Answers]

Telling == {"nothing", "waiting", "booked", "failed", "lost", "left"}

LEMMA SubmissionTyped ==
    ASSUME TypeOK, SubmissionOK, [Next]_vars
    PROVE  /\ submission' \in Progress
           /\ success' \in Submissions \cup {0}
           /\ error' \in BOOLEAN
           /\ told' \in [Submissions -> Telling]
<1> DEFINE Typed ==
      /\ submission' \in Progress
      /\ success' \in Submissions \cup {0}
      /\ error' \in BOOLEAN
      /\ told' \in [Submissions -> Telling]
<1>1. /\ submission \in Progress /\ success \in Submissions \cup {0} /\ error \in BOOLEAN
      /\ told \in [Submissions -> Telling] /\ date \in Dates /\ answer \in Answers
      /\ selection \in [from : Nat, to : Nat]
  BY DEF TypeOK, Progress, Telling
<1>2. Idle \in Progress /\ Submissions \subseteq Nat
  BY BookingPageAssumption DEF Idle, Progress, Submissions, Answers
<1>3. CASE Submit
  <2>1. PICK n \in Submissions :
             /\ submission' = [n |-> n, pc |-> "preparing", date |-> date,
                               from |-> selection.from, to |-> selection.to, answer |-> answer]
             /\ told' = [told EXCEPT ![n] = "waiting"]
    BY <1>3 DEF Submit
  <2>2. submission' \in Progress
    BY <1>1, <1>2, <2>1 DEF Progress
  <2>3. QED BY <1>1, <1>3, <2>1, <2>2 DEF Submit, Telling
<1>4. CASE PrepareAnswered
  BY <1>1, <1>4 DEF PrepareAnswered, Progress
<1>5. CASE ConfirmCardSetup
  BY <1>1, <1>5 DEF ConfirmCardSetup, Progress
<1>6. CASE FailBeforeCreate \/ CreateRefused \/ LoseCreateAnswer
  BY <1>1, <1>2, <1>6 DEF FailBeforeCreate, CreateRefused, LoseCreateAnswer, TellFailure, Telling
<1>7. CASE CreateAnswered
  BY <1>1, <1>2, <1>7 DEF CreateAnswered, Telling, SubmissionOK
<1>8. CASE Reload
  BY <1>1, <1>2, <1>8 DEF Reload, Telling
<1>9. CASE UNCHANGED submitVars
  BY <1>1, <1>9 DEF submitVars
<1>10. QED BY <1>3, <1>4, <1>5, <1>6, <1>7, <1>8, <1>9
  DEF Next, Page, vars, Select, LoadSettings, AnswerGate, ChooseDate, SlotsArrive, SlotsFail,
      DatesArrive, DatesFail, StartSelection, ExtendSelection, ClearSelection, ServeCreate,
      OthersTake

LEMMA ServerTyped ==
    ASSUME TypeOK, [Next]_vars
    PROVE  blocked' \subseteq Blocks /\ create' \in [Submissions -> Request]
<1>1. /\ submission \in Progress /\ blocked \subseteq Blocks
      /\ create \in [Submissions -> Request]
  BY DEF TypeOK, Progress, Request
<1>2. [Unsent EXCEPT !.state = "refused"] \in Request
  BY DEF Unsent, Request, Answers
<1>3. CASE ConfirmCardSetup
  <2>1. [state |-> "sent", date |-> submission.date, from |-> submission.from,
         to |-> submission.to, answer |-> submission.answer] \in Request
    BY <1>1 DEF Progress, Request
  <2>2. QED BY <1>1, <1>3, <2>1 DEF ConfirmCardSetup
<1>4. ASSUME NEW n \in Submissions, ServeCreate(n)
      PROVE  blocked' \subseteq Blocks /\ create' \in [Submissions -> Request]
  <2>1. [create[n] EXCEPT !.state = "booked"] \in Request
    BY <1>1 DEF Request
  <2>2. QED BY <1>1, <1>2, <1>4, <2>1 DEF ServeCreate
<1>5. ASSUME NEW b \in Blocks, OthersTake(b)
      PROVE  blocked' \subseteq Blocks /\ create' \in [Submissions -> Request]
  BY <1>1, <1>5 DEF OthersTake
<1>6. CASE UNCHANGED serverVars
  BY <1>1, <1>6 DEF serverVars
<1>7. QED BY <1>3, <1>4, <1>5, <1>6
  DEF Next, Page, vars, Select, LoadSettings, AnswerGate, ChooseDate, SlotsArrive, SlotsFail,
      DatesArrive, DatesFail, StartSelection, ExtendSelection, ClearSelection, Submit,
      PrepareAnswered, FailBeforeCreate, CreateAnswered, CreateRefused, LoseCreateAnswer, Reload

LEMMA TypesKept ==
    ASSUME TypeOK, SubmissionOK, [Next]_vars
    PROVE  TypeOK'
BY ChoicesTyped, RequestsTyped, SelectionTyped, SubmissionTyped, ServerTyped
DEF TypeOK, SlotRequest, DateRequest, Progress, Request, Telling

(***************************************************************************)
(* The page.                                                               *)
(***************************************************************************)

\* Every effect that asks for slots drops what was shown and selected.
LEMMA Refetched ==
    ASSUME TypeOK, TypeOK', FetchSlots(date', answer')
    PROVE  SlotRequestsOK' /\ SelectionIsShown' /\ SelectionIsOpen'
<1>1. /\ slotRequests' = Cancelled(slotRequests)
                           \cup {[date |-> date', answer |-> answer', live |-> TRUE]}
      /\ availability' = NoAvailability /\ selection' = NoSelection
  BY DEF FetchSlots
<1>2. \A r \in Cancelled(slotRequests) : ~r.live
  BY CancelledTyped DEF TypeOK, SlotRequest
<1>3. SlotRequestsOK'
  BY <1>1, <1>2 DEF SlotRequestsOK
<1>4. QED BY <1>1, <1>3 DEF SelectionIsShown, SelectionIsOpen, Selected

\* Slots and selection stay while the choices do and no request is added.
LEMMA SelectionUntouched ==
    ASSUME SlotRequestsOK, SelectionIsShown, SelectionIsOpen,
           UNCHANGED <<date, answer, availability>>, slotRequests' \subseteq slotRequests,
           selection' = selection \/ selection' = NoSelection
    PROVE  SlotRequestsOK' /\ SelectionIsShown' /\ SelectionIsOpen'
<1>1. SlotRequestsOK'
  BY DEF SlotRequestsOK, LoadingSlots
<1>2. SelectionIsShown' /\ SelectionIsOpen'
  BY DEF SelectionIsShown, SelectionIsOpen, Selected
<1>3. QED BY <1>1, <1>2

\* The slots that arrive are shown if they are for what is still chosen.
LEMMA ArrivalShown ==
    ASSUME TypeOK, SlotRequestsOK, SelectionIsShown, SelectionIsOpen,
           NEW r \in slotRequests, SlotsArrive(r)
    PROVE  SlotRequestsOK' /\ SelectionIsShown' /\ SelectionIsOpen'
<1>1. /\ slotRequests' = slotRequests \ {r}
      /\ UNCHANGED <<date, answer, selection>>
      /\ availability' = IF r.live THEN [date |-> r.date, answer |-> r.answer,
                                         free |-> FreeSlots(r.answer, r.date)]
                                   ELSE availability
  BY DEF SlotsArrive, StopLoading
<1>2. CASE ~r.live
  BY <1>1, <1>2, SelectionUntouched
<1>3. CASE r.live
  <2>1. /\ \A q \in slotRequests : q.date \in Dates /\ q.answer \in Answers
                                   /\ q = [date |-> q.date, answer |-> q.answer, live |-> q.live]
        /\ date \in Dates /\ answer \in Answers
    BY DEF TypeOK
  <2>2. r.date = date /\ r.answer = answer
    BY <1>3 DEF SlotRequestsOK
  <2>3. \A q \in slotRequests : q.live => q = r
    <3>1. SUFFICES ASSUME NEW q \in slotRequests, q.live
                   PROVE  q = r
      OBVIOUS
    <3>2. q.date = date /\ q.answer = answer
      BY <3>1 DEF SlotRequestsOK
    <3>3. q.live = r.live
      BY <3>1, <1>3 DEF TypeOK
    <3>4. QED BY <2>1, <2>2, <3>2, <3>3
  <2>4. ~LoadingSlots'
    BY <1>1, <2>3 DEF LoadingSlots
  <2>5. availability = NoAvailability
    BY <1>3 DEF SlotRequestsOK, LoadingSlots
  <2>6. selection = NoSelection
    BY <2>5 DEF SelectionIsShown, Selected
  <2>7. availability' = [date |-> date, answer |-> answer, free |-> FreeSlots(answer, date)]
    BY <1>1, <1>3, <2>2
  <2>8. FreeSlots(answer, date) \subseteq Slots[answer][date]
    BY <2>1, FreeAreSlots
  <2>9. SlotRequestsOK'
    BY <1>1, <2>4, <2>7, <2>8 DEF SlotRequestsOK
  <2>10. SelectionIsShown' /\ SelectionIsOpen'
    BY <1>1, <2>6, <2>7 DEF SelectionIsShown, SelectionIsOpen, Selected
  <2>11. QED BY <2>9, <2>10
<1>4. QED BY <1>2, <1>3

\* A slot that is clicked is an hour of the day shown.
LEMMA HourSelected ==
    ASSUME TypeOK, SlotRequestsOK, SelectionIsShown, NEW s \in Tick, StartSelection(s)
    PROVE  SlotRequestsOK' /\ SelectionIsShown' /\ SelectionIsOpen'
<1>1. /\ selection' = [from |-> s, to |-> s + 2]
      /\ UNCHANGED <<date, answer, availability, slotRequests>>
      /\ availability # NoAvailability /\ s \in availability.free
  BY DEF StartSelection, Clickable, Select
<1>2. s \in Nat /\ date \in Dates /\ answer \in Answers
  BY BookingPageAssumption DEF Tick, TypeOK
<1>3. Hour(s) \subseteq OpenTicks[answer][date]
  BY <1>1, <1>2, SlotsAreOpen DEF SlotRequestsOK
<1>4. /\ selection'.from = s /\ selection'.to = s + 2
      /\ Ticks(selection') = Hour(s)
  BY <1>1, <1>2 DEF Ticks, Hour
<1>5. SlotRequestsOK'
  BY <1>1 DEF SlotRequestsOK, LoadingSlots
<1>6. SelectionIsShown'
  BY <1>1, <1>4 DEF SelectionIsShown, Selected
<1>7. SelectionIsOpen'
  BY <1>1, <1>3, <1>4 DEF SelectionIsOpen
<1>8. QED BY <1>5, <1>6, <1>7

\* A selection that grows keeps to the hours shown, and to the greatest length.
LEMMA HoursSelected ==
    ASSUME TypeOK, SlotRequestsOK, SelectionIsShown, NEW s \in Tick, ExtendSelection(s)
    PROVE  SlotRequestsOK' /\ SelectionIsShown' /\ SelectionIsOpen'
<1> DEFINE S == SlotsTo(s)
<1>1. /\ selection' = [from |-> selection.from, to |-> s + 2]
      /\ UNCHANGED <<date, answer, availability, slotRequests>>
      /\ availability # NoAvailability
      /\ selection.from <= s
      /\ Cardinality(S) \in MinHours .. MaxHours
      /\ S \subseteq availability.free
      /\ selection.from .. (s + 1) = UNION {Hour(t) : t \in S}
  BY DEF ExtendSelection, Clickable, Select
<1>2. /\ s \in Nat /\ Tick \subseteq Nat /\ LastTick \in Nat
      /\ MinHours \in Nat /\ MaxHours \in Nat
      /\ date \in Dates /\ answer \in Answers /\ selection.from \in Nat
      /\ availability.date = date /\ availability.answer = answer
  BY <1>1, BookingPageAssumption DEF Tick, TypeOK, SelectionIsShown
<1>3. S \subseteq Slots[answer][date]
  BY <1>2 DEF SlotsTo
<1>4. S \subseteq Tick /\ \A t \in S : Hour(t) \subseteq OpenTicks[answer][date]
  BY <1>2, <1>3, SlotsAreOpen
<1>5. IsFiniteSet(S)
  <2>1. IsFiniteSet(Tick)
    BY <1>2, FS_Interval DEF Tick
  <2>2. QED BY <1>4, <2>1, FS_Subset
<1> HIDE DEF S
<1>6. Cardinality(S) \in Nat /\ Cardinality(S) <= MaxHours
  BY <1>1, <1>2, <1>5, FS_CardinalityType
<1>7. (s + 1) + 1 - selection.from <= 2 * Cardinality(S)
  <2>1. /\ S \in SUBSET Nat
        /\ s + 1 \in Nat
        /\ selection.from <= s + 1
        /\ selection.from .. (s + 1) \subseteq UNION {Hour(t) : t \in S}
    BY <1>1, <1>2, <1>4
  <2>2. QED BY <1>2, <1>5, <2>1, HoursCover
<1>8. /\ selection'.from = selection.from /\ selection'.to = s + 2
      /\ selection'.to - selection'.from <= 2 * MaxHours
      /\ Ticks(selection') = selection.from .. (s + 1)
  <2>1. selection'.from = selection.from /\ selection'.to = s + 2
    BY <1>1
  <2>2. s + 2 - selection.from <= 2 * MaxHours
    BY <1>2, <1>6, <1>7
  <2>3. s + 2 - 1 = s + 1
    BY <1>2
  <2>4. Ticks(selection') = selection.from .. (s + 2 - 1)
    BY <1>1, <1>2 DEF Ticks
  <2>5. selection'.to - selection'.from <= 2 * MaxHours
    BY <1>2, <2>1, <2>2
  <2>6. QED BY <2>1, <2>3, <2>4, <2>5
<1>9. SlotRequestsOK'
  BY <1>1 DEF SlotRequestsOK, LoadingSlots
<1>10. SelectionIsShown'
  <2>1. Ticks(selection') \subseteq UNION {Hour(t) : t \in availability.free}
    BY <1>1, <1>8
  <2>2. QED BY <1>1, <1>2, <2>1 DEF SelectionIsShown
<1>11. SelectionIsOpen'
  <2>1. Ticks(selection') \subseteq OpenTicks[answer][date]
    BY <1>1, <1>4, <1>8
  <2>2. QED BY <1>1, <1>8, <2>1 DEF SelectionIsOpen
<1>12. QED BY <1>9, <1>10, <1>11

LEMMA SelectionKept ==
    ASSUME TypeOK, TypeOK', SlotRequestsOK, SelectionIsShown, SelectionIsOpen, [Next]_vars
    PROVE  SlotRequestsOK' /\ SelectionIsShown' /\ SelectionIsOpen'
<1>1. ASSUME NEW kind \in {"plain", "gate"}, LoadSettings(kind)
      PROVE  FetchSlots(date', answer')
             \/ UNCHANGED <<date, answer, availability, slotRequests, selection>>
  BY <1>1 DEF LoadSettings
<1>2. ASSUME NEW a \in Answers \ {"unanswered"}, AnswerGate(a)
      PROVE  FetchSlots(date', answer')
  BY <1>2 DEF AnswerGate
<1>3. ASSUME NEW d \in Dates, ChooseDate(d)
      PROVE  FetchSlots(date', answer')
  BY <1>3 DEF ChooseDate
<1>4. ASSUME NEW r \in dateRequests, DatesArrive(r)
      PROVE  FetchSlots(date', answer')
             \/ UNCHANGED <<date, answer, availability, slotRequests, selection>>
  BY <1>4 DEF DatesArrive, TakeDates
<1>5. ASSUME NEW s \in Tick, StartSelection(s) \/ ExtendSelection(s)
      PROVE  SlotRequestsOK' /\ SelectionIsShown' /\ SelectionIsOpen'
  BY <1>5, HourSelected, HoursSelected
<1>6. ASSUME NEW r \in slotRequests, SlotsArrive(r)
      PROVE  SlotRequestsOK' /\ SelectionIsShown' /\ SelectionIsOpen'
  BY <1>6, ArrivalShown
<1>7. CASE Reload
  BY <1>7
  DEF Reload, SlotRequestsOK, SelectionIsShown, SelectionIsOpen, Selected
<1>8. ASSUME UNCHANGED <<date, answer, availability>>, slotRequests' \subseteq slotRequests,
             selection' = selection \/ selection' = NoSelection
      PROVE  SlotRequestsOK' /\ SelectionIsShown' /\ SelectionIsOpen'
  BY <1>8, SelectionUntouched
<1>9. QED BY <1>1, <1>2, <1>3, <1>4, <1>5, <1>6, <1>7, <1>8, Refetched
  DEF Next, Page, vars, pageVars, StopLoading, SlotsFail, DatesFail, ClearSelection, Submit,
      PrepareAnswered, ConfirmCardSetup, FailBeforeCreate, CreateAnswered, CreateRefused,
      LoseCreateAnswer, ServeCreate, OthersTake

\* The strip knows the days of the answer given, and stands on one of them.
LEMMA DatesKept ==
    ASSUME TypeOK, DateRequestsOK, DateIsBookable, [Next]_vars
    PROVE  DateRequestsOK' /\ DateIsBookable'
<1>1. ASSUME FetchDates(answer')
      PROVE  DateRequestsOK' /\ DateIsBookable'
  <2>1. \A r \in Cancelled(dateRequests) : ~r.live
    BY CancelledTyped DEF TypeOK, DateRequest
  <2>2. QED BY <1>1, <2>1 DEF FetchDates, DateRequestsOK, DateIsBookable, NoDates
<1>2. ASSUME NEW kind \in {"plain", "gate"}, LoadSettings(kind)
      PROVE  DateRequestsOK' /\ DateIsBookable'
  BY <1>1, <1>2 DEF LoadSettings, DateRequestsOK, DateIsBookable
<1>3. ASSUME NEW a \in Answers \ {"unanswered"}, AnswerGate(a)
      PROVE  DateRequestsOK' /\ DateIsBookable'
  BY <1>1, <1>3 DEF AnswerGate
<1>4. ASSUME NEW d \in Dates, ChooseDate(d)
      PROVE  DateRequestsOK' /\ DateIsBookable'
  BY <1>4 DEF ChooseDate, DateRequestsOK, DateIsBookable
<1>5. ASSUME NEW r \in dateRequests, DatesArrive(r)
      PROVE  DateRequestsOK' /\ DateIsBookable'
  <2>1. DateRequestsOK'
    BY <1>5 DEF DatesArrive, DateRequestsOK
  <2>2. CASE ~r.live
    BY <1>5, <2>1, <2>2 DEF DatesArrive, DateIsBookable
  <2>3. CASE r.live
    <3>1. r.answer = answer /\ answer' = answer
      BY <1>5, <2>3 DEF DateRequestsOK, DatesArrive
    <3>2. BookableDates(answer) # {} => First(BookableDates(answer)) \in BookableDates(answer)
      BY Days, BookableAreDates
    <3>3. QED BY <1>5, <2>1, <2>3, <3>1, <3>2 DEF DatesArrive, TakeDates, DateIsBookable
  <2>4. QED BY <2>2, <2>3
<1>6. CASE Reload
  BY <1>6 DEF Reload, DateRequestsOK, DateIsBookable, NoDates
<1>7. CASE UNCHANGED <<date, answer, availableDates>> /\ dateRequests' \subseteq dateRequests
  BY <1>7 DEF DateRequestsOK, DateIsBookable
<1>8. QED BY <1>2, <1>3, <1>4, <1>5, <1>6, <1>7
  DEF Next, Page, vars, pageVars, Select, SlotsArrive, SlotsFail, DatesFail, StartSelection,
      ExtendSelection, ClearSelection, Submit, PrepareAnswered, ConfirmCardSetup,
      FailBeforeCreate, CreateAnswered, CreateRefused, LoseCreateAnswer, ServeCreate, OthersTake

(***************************************************************************)
(* The submission and the creates.                                         *)
(***************************************************************************)
TellingOK ==
    /\ SubmissionOK
    /\ UnsentOK
    /\ CreatesOK
    /\ CreatesAskForOfferedHours
    /\ WaitingOK
    /\ ToldTheTruth

\* A click submits what is selected, under a number not used before.
LEMMA SubmitKeeps ==
    ASSUME TypeOK, SelectionIsOpen, TellingOK, Submit
    PROVE  TellingOK'
<1>1. PICK n \in Submissions :
           /\ Sent = 1 .. (n - 1)
           /\ submission' = [n |-> n, pc |-> "preparing", date |-> date,
                             from |-> selection.from, to |-> selection.to, answer |-> answer]
           /\ told' = [told EXCEPT ![n] = "waiting"]
  BY DEF Submit
<1>2. /\ create' = create /\ submission.pc = "idle" /\ Selected
      /\ date \in Dates /\ told \in [Submissions -> Telling]
  BY DEF Submit, MaySubmit, serverVars, TypeOK, Telling
<1>3. told[n] = "nothing"
  <2>1. n \in Nat
    BY BookingPageAssumption DEF Submissions
  <2>2. n \notin Sent
    BY <1>1, <2>1
  <2>3. QED BY <2>2 DEF Sent
<1>4. \A m \in Submissions : told[m] # "waiting"
  BY <1>2 DEF TellingOK, WaitingOK
<1>5. create[n].state = "none"
  BY <1>3 DEF TellingOK, UnsentOK
<1>6. SubmissionOK'
  <2>1. Ticks(submission') = Ticks(selection)
    BY <1>1 DEF Ticks
  <2>2. Ticks(selection) \subseteq OpenTicks[answer][date]
    BY <1>2 DEF SelectionIsOpen
  <2>3. QED BY <1>1, <1>2, <1>5, <2>1, <2>2 DEF SubmissionOK
<1>7. UnsentOK' /\ CreatesOK' /\ CreatesAskForOfferedHours'
  BY <1>1, <1>2 DEF TellingOK, UnsentOK, CreatesOK, CreatesAskForOfferedHours
<1>8. WaitingOK'
  BY <1>1, <1>2, <1>4 DEF WaitingOK
<1>9. ToldTheTruth'
  BY <1>1, <1>2 DEF TellingOK, ToldTheTruth
<1>10. QED BY <1>6, <1>7, <1>8, <1>9 DEF TellingOK

LEMMA PrepareAnsweredKeeps ==
    ASSUME TypeOK, TellingOK, PrepareAnswered
    PROVE  TellingOK'
<1>1. /\ submission.pc = "preparing" /\ submission \in Progress
      /\ submission' = [submission EXCEPT !.pc = "confirming"]
      /\ told' = told /\ create' = create
  BY DEF PrepareAnswered, serverVars, TypeOK, Progress
<1>2. /\ submission'.n = submission.n /\ submission'.date = submission.date
      /\ submission'.from = submission.from /\ submission'.to = submission.to
      /\ submission'.answer = submission.answer /\ submission'.pc = "confirming"
  BY <1>1 DEF Progress
<1>3. Ticks(submission') = Ticks(submission)
  BY <1>2 DEF Ticks
<1>4. QED BY <1>1, <1>2, <1>3
  DEF TellingOK, SubmissionOK, UnsentOK, CreatesOK, CreatesAskForOfferedHours,
      WaitingOK, ToldTheTruth

\* The create carries what was submitted.
LEMMA ConfirmKeeps ==
    ASSUME TypeOK, TellingOK, ConfirmCardSetup
    PROVE  TellingOK'
<1> DEFINE sent == [state |-> "sent", date |-> submission.date, from |-> submission.from,
                    to |-> submission.to, answer |-> submission.answer]
<1>1. /\ submission.pc = "confirming" /\ submission \in Progress
      /\ submission' = [submission EXCEPT !.pc = "creating"]
      /\ create' = [create EXCEPT ![submission.n] = sent]
      /\ told' = told
      /\ create \in [Submissions -> Request]
  BY DEF ConfirmCardSetup, TypeOK, Progress, Request
<1>2. /\ submission'.n = submission.n /\ submission'.date = submission.date
      /\ submission'.from = submission.from /\ submission'.to = submission.to
      /\ submission'.answer = submission.answer /\ submission'.pc = "creating"
  BY <1>1 DEF Progress
<1>3. /\ submission.n \in Submissions /\ told[submission.n] = "waiting"
      /\ submission.date \in Dates
      /\ Ticks(submission) \subseteq OpenTicks[submission.answer][submission.date]
  BY <1>1 DEF TellingOK, SubmissionOK
<1>4. Ticks(submission') = Ticks(submission) /\ Ticks(sent) = Ticks(submission)
  BY <1>2 DEF Ticks
<1>5. /\ create'[submission.n] = sent
      /\ \A n \in Submissions \ {submission.n} : create'[n] = create[n]
  BY <1>1, <1>3
<1>6. SubmissionOK'
  BY <1>1, <1>2, <1>3, <1>4 DEF SubmissionOK
<1>7. UnsentOK' /\ ToldTheTruth'
  BY <1>1, <1>3, <1>5 DEF TellingOK, UnsentOK, ToldTheTruth
<1>8. CreatesOK'
  BY <1>3, <1>5 DEF TellingOK, CreatesOK
<1>9. CreatesAskForOfferedHours'
  <2>1. Ticks(sent) \subseteq OpenTicks[sent.answer][sent.date]
    BY <1>3, <1>4
  <2> HIDE DEF sent
  <2>2. QED BY <1>5, <2>1 DEF TellingOK, CreatesAskForOfferedHours
<1>10. WaitingOK'
  BY <1>1, <1>2 DEF TellingOK, WaitingOK
<1>11. QED BY <1>6, <1>7, <1>8, <1>9, <1>10 DEF TellingOK

\* The submission ends, with an answer, an error, or the page.
LEMMA EndKeeps ==
    ASSUME TypeOK, TellingOK,
           FailBeforeCreate \/ CreateAnswered \/ CreateRefused \/ LoseCreateAnswer \/ Reload
    PROVE  TellingOK'
<1>1. /\ submission' = Idle /\ create' = create /\ told \in [Submissions -> Telling]
  BY DEF FailBeforeCreate, CreateAnswered, CreateRefused, LoseCreateAnswer, Reload, TellFailure,
         serverVars, TypeOK, Telling
<1>2. \A n \in Submissions :
          \/ told'[n] = told[n] /\ told[n] # "waiting"
          \/ told[n] = "waiting" /\ told'[n] \in {"lost", "left"}
          \/ told[n] = "waiting" /\ told'[n] = "booked" /\ create[n].state = "booked"
          \/ told[n] = "waiting" /\ told'[n] = "failed" /\ create[n].state \in {"none", "refused"}
  <2>1. CASE Reload
    BY <1>1, <2>1 DEF Reload
  <2>2. CASE ~Reload
    <3>1. /\ submission.pc # "idle"
          /\ \E why \in {"failed", "lost", "booked"} :
               /\ told' = [told EXCEPT ![submission.n] = why]
               /\ why = "booked" => create[submission.n].state = "booked"
               /\ why = "failed" => \/ submission.pc \in {"preparing", "confirming"}
                                    \/ create[submission.n].state = "refused"
      BY <2>2
      DEF FailBeforeCreate, CreateAnswered, CreateRefused, LoseCreateAnswer, TellFailure
    <3>2. /\ submission.n \in Submissions /\ told[submission.n] = "waiting"
          /\ submission.pc \in {"preparing", "confirming"}
               => create[submission.n].state = "none"
          /\ \A n \in Submissions : told[n] = "waiting" => n = submission.n
      BY <3>1 DEF TellingOK, SubmissionOK, WaitingOK
    <3>3. QED BY <1>1, <3>1, <3>2
  <2>3. QED BY <2>1, <2>2
<1>3. submission'.pc = "idle"
  BY <1>1 DEF Idle
<1>4. SubmissionOK'
  BY <1>3 DEF SubmissionOK
<1>5. UnsentOK' /\ WaitingOK' /\ ToldTheTruth'
  BY <1>1, <1>2 DEF TellingOK, UnsentOK, WaitingOK, ToldTheTruth
<1>6. CreatesOK' /\ CreatesAskForOfferedHours'
  BY <1>1 DEF TellingOK, CreatesOK, CreatesAskForOfferedHours
<1>7. QED BY <1>4, <1>5, <1>6 DEF TellingOK

\* The server serves what was sent, and nothing is told by it.
LEMMA ServeKeeps ==
    ASSUME TypeOK, TellingOK, NEW n \in Submissions, ServeCreate(n)
    PROVE  TellingOK'
<1>1. /\ create[n].state = "sent" /\ create \in [Submissions -> Request]
      /\ UNCHANGED <<submission, told>>
      /\ \/ create' = [create EXCEPT ![n].state = "booked"]
         \/ create' = [create EXCEPT ![n] = [Unsent EXCEPT !.state = "refused"]]
  BY DEF ServeCreate, submitVars, TypeOK, Request
<1>2. create[n] \in Request
  BY <1>1
<1>3. /\ \A m \in Submissions \ {n} : create'[m] = create[m]
      /\ \/ create'[n] = [create[n] EXCEPT !.state = "booked"]
         \/ create'[n].state = "refused"
  BY <1>1 DEF Unsent
<1>4. \/ /\ create'[n].state = "booked" /\ create'[n].date = create[n].date
         /\ create'[n].answer = create[n].answer /\ Ticks(create'[n]) = Ticks(create[n])
      \/ create'[n].state = "refused"
  <2>1. CASE create'[n] = [create[n] EXCEPT !.state = "booked"]
    <3>1. /\ create'[n].state = "booked" /\ create'[n].date = create[n].date
          /\ create'[n].answer = create[n].answer
          /\ create'[n].from = create[n].from /\ create'[n].to = create[n].to
      BY <1>2, <2>1 DEF Request
    <3>2. QED BY <3>1 DEF Ticks
  <2>2. QED BY <1>3, <2>1
<1>5. SubmissionOK'
  BY <1>1, <1>3 DEF TellingOK, SubmissionOK
<1>6. UnsentOK'
  BY <1>1, <1>3 DEF TellingOK, UnsentOK
<1>7. CreatesOK' /\ CreatesAskForOfferedHours'
  BY <1>1, <1>3, <1>4 DEF TellingOK, CreatesOK, CreatesAskForOfferedHours
<1>8. WaitingOK' /\ ToldTheTruth'
  BY <1>1, <1>3 DEF TellingOK, WaitingOK, ToldTheTruth
<1>9. QED BY <1>5, <1>6, <1>7, <1>8 DEF TellingOK

LEMMA TellingKept ==
    ASSUME TypeOK, SelectionIsOpen, TellingOK, [Next]_vars
    PROVE  TellingOK'
<1>1. CASE UNCHANGED <<submission, told, create>>
  BY <1>1
  DEF TellingOK, SubmissionOK, UnsentOK, CreatesOK, CreatesAskForOfferedHours,
      WaitingOK, ToldTheTruth
<1>2. QED BY <1>1, SubmitKeeps, PrepareAnsweredKeeps, ConfirmKeeps, EndKeeps, ServeKeeps
  DEF Next, Page, vars, submitVars, serverVars, Select, LoadSettings, AnswerGate, ChooseDate,
      SlotsArrive, SlotsFail, DatesArrive, DatesFail, StartSelection, ExtendSelection,
      ClearSelection, OthersTake

(***************************************************************************)
(* The theorems.                                                           *)
(***************************************************************************)
LEMMA InitInv == Init => BookingInv
<1> SUFFICES ASSUME Init
             PROVE  BookingInv
  OBVIOUS
<1>1. /\ Today \in Dates
      /\ Unsent \in Request /\ Unsent.state = "none"
      /\ Idle \in Progress /\ Idle.pc = "idle"
      /\ NoAvailability \in [date : Dates \cup {NoDate}, answer : Answers, free : SUBSET Tick]
      /\ NoSelection \in [from : Nat, to : Nat]
      /\ NoDates \in [known : BOOLEAN, answer : Answers, dates : SUBSET Dates]
      /\ ~NoDates.known
      /\ MaxChanges \in Nat
  BY Days, BookingPageAssumption
  DEF Unsent, Idle, NoAvailability, NoSelection, NoDates, Request, Progress, Answers
<1>2. /\ create \in [Submissions -> Request] /\ \A n \in Submissions : create[n] = Unsent
      /\ told \in [Submissions -> Telling] /\ \A n \in Submissions : told[n] = "nothing"
  BY <1>1 DEF Init, Telling
<1>3. TypeOK
  <2>1. /\ settings = "loading" /\ answer = "unanswered" /\ success = 0 /\ error = FALSE
        /\ blocked = {} /\ changes = 0
    BY DEF Init, Fresh
  <2>2. /\ date = Today /\ availability = NoAvailability /\ selection = NoSelection
        /\ availableDates = NoDates /\ slotRequests = {} /\ dateRequests = {}
        /\ submission = Idle
    BY DEF Init, Fresh
  <2>3. /\ settings \in {"loading", "plain", "gate"} /\ answer \in Answers
        /\ success \in Submissions \cup {0} /\ error \in BOOLEAN /\ blocked \subseteq Blocks
        /\ changes \in 0 .. MaxChanges
    <3>1. changes \in 0 .. MaxChanges
      BY <1>1, <2>1
    <3>2. answer \in Answers
      BY <2>1 DEF Answers
    <3>3. QED BY <2>1, <3>1, <3>2
  <2>4. submission \in Progress
    BY <1>1, <2>2
  <2>5. QED BY <1>1, <1>2, <2>2, <2>3, <2>4 DEF TypeOK, Progress, Request, Telling
<1>4. SlotRequestsOK /\ DateRequestsOK /\ SelectionIsShown /\ SelectionIsOpen /\ DateIsBookable
  BY <1>1
  DEF Init, Fresh, SlotRequestsOK, DateRequestsOK, SelectionIsShown, SelectionIsOpen, Selected,
      DateIsBookable
<1>5. SubmissionOK /\ UnsentOK /\ CreatesOK /\ CreatesAskForOfferedHours
      /\ WaitingOK /\ ToldTheTruth
  BY <1>1, <1>2
  DEF Init, Fresh, SubmissionOK, UnsentOK, CreatesOK, CreatesAskForOfferedHours,
      WaitingOK, ToldTheTruth
<1>6. QED BY <1>3, <1>4, <1>5 DEF BookingInv

LEMMA StepInv == BookingInv /\ [Next]_vars => BookingInv'
<1> SUFFICES ASSUME BookingInv, [Next]_vars
             PROVE  BookingInv'
  OBVIOUS
<1>1. TypeOK'
  BY TypesKept DEF BookingInv
<1>2. SlotRequestsOK' /\ SelectionIsShown' /\ SelectionIsOpen'
  BY <1>1, SelectionKept DEF BookingInv
<1>3. DateRequestsOK' /\ DateIsBookable'
  BY DatesKept DEF BookingInv
<1>4. TellingOK'
  BY TellingKept DEF BookingInv, TellingOK
<1>5. QED BY <1>1, <1>2, <1>3, <1>4 DEF BookingInv, TellingOK

LEMMA Invariant == Spec => []BookingInv
BY InitInv, StepInv, PTL DEF Spec

\* Every variable keeps to its type; a page that lands on a bookable day lands on a day of
\* the strip.
THEOREM TypeCorrect == Spec => []TypeOK
<1>1. BookingInv => TypeOK
  BY DEF BookingInv
<1>2. QED BY <1>1, Invariant, PTL

\* What is shown and selected belongs to the day and the answer chosen now, however many
\* requests overtake one another.
THEOREM ShownSelection == Spec => []SelectionIsShown
<1>1. BookingInv => SelectionIsShown
  BY DEF BookingInv
<1>2. QED BY <1>1, Invariant, PTL

\* Whatever the windows, the picker's run of hourly slots lies in open ticks and is no
\* longer than allowed.
THEOREM OpenSelection == Spec => []SelectionIsOpen
<1>1. BookingInv => SelectionIsOpen
  BY DEF BookingInv
<1>2. QED BY <1>1, Invariant, PTL

\* The day chosen is one of the bookable days of the answer given, once they are known.
THEOREM BookableDate == Spec => []DateIsBookable
<1>1. BookingInv => DateIsBookable
  BY DEF BookingInv
<1>2. QED BY <1>1, Invariant, PTL

\* A create asks for hours offered to the answer it carries.
THEOREM OfferedHours == Spec => []CreatesAskForOfferedHours
<1>1. BookingInv => CreatesAskForOfferedHours
  BY DEF BookingInv
<1>2. QED BY <1>1, Invariant, PTL

\* The strip offers the days on which a slot begins a period that create takes, for all
\* windows, lengths, bookings and closures.
THEOREM BookableOffer == Spec => []OfferedDaysCanBeBooked
<1>1. OfferedDaysCanBeBooked
  BY OffersAgree DEF OfferedDaysCanBeBooked, BookableDates
<1>2. QED BY <1>1, PTL

\* The page tells of a booking that exists, and calls a failure only what is none.
THEOREM TruthTold == Spec => []ToldTheTruth
<1>1. BookingInv => ToldTheTruth
  BY DEF BookingInv
<1>2. QED BY <1>1, Invariant, PTL
=============================================================================
