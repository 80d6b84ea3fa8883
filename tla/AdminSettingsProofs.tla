-------------------------- MODULE AdminSettingsProofs --------------------------
(***************************************************************************)
(* Lemmas about AdminSettings, for any values, sources, dates and times    *)
(* and any number of edits.  AdminConsoleProofs uses them for the page as  *)
(* one of the console.                                                     *)
(***************************************************************************)
EXTENDS AdminSettings, SequenceTheorems, FiniteSetTheorems, WellFoundedInduction, TLAPS

(***************************************************************************)
(* The inductive invariant.                                                *)
(***************************************************************************)

\* A save under way is of a form the server may be sent; what it has stored it accepts.
PutOK ==
    /\ put.state \in {"none", "sent", "done"}
    /\ put.form = Nothing \/ IsForm(put.form)
    /\ put.state # "none" => settings # Nothing /\ IsForm(put.form)
    /\ put.state = "done" => Acceptable(put.form)

\* What was last read is what the server holds, unless it has become outdated; when a
\* save is done, the answer is about to bring what was stored.
ReadOK ==
    settings # Nothing /\ ~outdated /\ put.state # "done" => settings = stored

\* A page that is not open holds nothing.
ShutOK == ~Mounted => settings = Nothing

PageInv ==
    /\ TypeOK
    /\ PutOK
    /\ ReadOK
    /\ ShutOK

(***************************************************************************)
(* Forms.                                                                  *)
(***************************************************************************)
FieldOK(f, v) ==
    /\ f \in Plain => v \in Values
    /\ f = "new_customer_restriction" => v \in Restrictions \cup {Nothing}
    /\ f = "new_user_gate" => v \in Gates
    /\ f = "referral_sources" => v \in Seq(Sources) /\ IsInjective(v)

LEMMA FormFields ==
    ASSUME NEW s
    PROVE  IsForm(s) <=> s = [f \in Fields |-> s[f]] /\ \A f \in Fields : FieldOK(f, s[f])
<1>1. \A f \in Fields : f \in Plain \/ f = "new_customer_restriction" \/ f = "new_user_gate"
                        \/ f = "referral_sources"
  BY DEF Fields
<1>2. Plain \subseteq Fields /\ "new_customer_restriction" \in Fields
      /\ "new_user_gate" \in Fields /\ "referral_sources" \in Fields
      /\ "new_customer_restriction" \notin Plain /\ "new_user_gate" \notin Plain
      /\ "referral_sources" \notin Plain
  BY DEF Fields, Plain
<1>3. (\A f \in Fields : FieldOK(f, s[f])) <=>
        /\ \A f \in Plain : s[f] \in Values
        /\ s["new_customer_restriction"] \in Restrictions \cup {Nothing}
        /\ s["new_user_gate"] \in Gates
        /\ s["referral_sources"] \in Seq(Sources) /\ IsInjective(s["referral_sources"])
  BY <1>1, <1>2 DEF FieldOK
<1>4. QED BY <1>3 DEF IsForm

LEMMA FormUpdated ==
    ASSUME NEW s, s = [f \in Fields |-> s[f]], NEW f \in Fields, NEW v
    PROVE  /\ [s EXCEPT ![f] = v] = [g \in Fields |-> [s EXCEPT ![f] = v][g]]
           /\ [s EXCEPT ![f] = v][f] = v
           /\ \A g \in Fields \ {f} : [s EXCEPT ![f] = v][g] = s[g]
OBVIOUS

\* An edit of one field leaves a form.
LEMMA EditedIsForm ==
    ASSUME NEW s, IsForm(s), NEW f \in Fields, NEW v, FieldOK(f, v)
    PROVE  IsForm([s EXCEPT ![f] = v])
<1> DEFINE t == [s EXCEPT ![f] = v]
<1>1. s = [g \in Fields |-> s[g]] /\ \A g \in Fields : FieldOK(g, s[g])
  BY FormFields
<1>2. t = [g \in Fields |-> t[g]] /\ t[f] = v /\ \A g \in Fields \ {f} : t[g] = s[g]
  BY <1>1, FormUpdated
<1> HIDE DEF t
<1>3. \A g \in Fields : FieldOK(g, t[g])
  BY <1>1, <1>2
<1>4. QED BY <1>2, <1>3, FormFields

(***************************************************************************)
(* What the server makes of a form.                                        *)
(***************************************************************************)
LEMMA ClearedIsRestriction ==
    ASSUME NEW r \in Restrictions \cup {Nothing}
    PROVE  /\ Cleared(r) \in Restrictions \cup {Nothing}
           /\ Cleared(Cleared(r)) = Cleared(r)
BY DEF Cleared

Questioned(gate) ==
    [gate EXCEPT !.question = IF gate.question = Blank THEN DefaultQuestion ELSE gate.question]

LEMMA QuestionedIsGate ==
    ASSUME AdminSettingsAssumption, NEW gate \in Gates
    PROVE  /\ Questioned(gate) \in Gates
           /\ Questioned(gate).schedule = gate.schedule
           /\ Questioned(Questioned(gate)) = Questioned(gate)
<1>1. DefaultQuestion \in Questions /\ DefaultQuestion # Blank
  BY DEF AdminSettingsAssumption
<1>2. /\ Questioned(gate) \in Gates /\ Questioned(gate).schedule = gate.schedule
      /\ Questioned(gate).question # Blank
  BY <1>1 DEF Questioned, Gates
<1>3. Questioned(Questioned(gate)) = [Questioned(gate) EXCEPT !.question = Questioned(gate).question]
  BY <1>2 DEF Questioned
<1>4. \A g \in Gates : [g EXCEPT !.question = g.question] = g
  BY DEF Gates
<1>5. QED BY <1>2, <1>3, <1>4

LEMMA ParsedFields ==
    ASSUME NEW s, IsForm(s)
    PROVE  /\ Parsed(s) = [f \in Fields |-> Parsed(s)[f]]
           /\ Parsed(s)["new_user_gate"] = Questioned(s["new_user_gate"])
           /\ Parsed(s)["new_customer_restriction"] = Cleared(s["new_customer_restriction"])
           /\ \A f \in Fields \ {"new_user_gate", "new_customer_restriction"} :
                Parsed(s)[f] = s[f]
<1> DEFINE g == Questioned(s["new_user_gate"])
           t == [s EXCEPT !["new_user_gate"] = g]
           r == Cleared(s["new_customer_restriction"])
<1>1. s = [f \in Fields |-> s[f]] /\ "new_user_gate" \in Fields
      /\ "new_customer_restriction" \in Fields
  BY DEF IsForm, Fields
<1>2. t = [f \in Fields |-> t[f]] /\ t["new_user_gate"] = g
      /\ \A f \in Fields \ {"new_user_gate"} : t[f] = s[f]
  <2> HIDE DEF g
  <2>1. QED BY <1>1, FormUpdated
<1>3. Parsed(s) = [t EXCEPT !["new_customer_restriction"] = r]
  <2>1. t["new_customer_restriction"] = s["new_customer_restriction"]
    BY <1>1, <1>2
  <2>2. QED BY <2>1 DEF Parsed, Questioned
<1> HIDE DEF t, g, r
<1>4. /\ Parsed(s) = [f \in Fields |-> Parsed(s)[f]]
      /\ Parsed(s)["new_customer_restriction"] = r
      /\ \A f \in Fields \ {"new_customer_restriction"} : Parsed(s)[f] = t[f]
  BY <1>1, <1>2, <1>3, FormUpdated
<1>5. QED BY <1>1, <1>2, <1>4 DEF g, r

\* What the server stores is a form that it accepts and would store as it is.
LEMMA ParsedIsStored ==
    ASSUME AdminSettingsAssumption, NEW s, IsForm(s)
    PROVE  /\ IsForm(Parsed(s))
           /\ Parsed(Parsed(s)) = Parsed(s)
           /\ Acceptable(s) => Acceptable(Parsed(s))
<1> DEFINE p == Parsed(s)
<1>1. /\ s["new_user_gate"] \in Gates
      /\ s["new_customer_restriction"] \in Restrictions \cup {Nothing}
  BY DEF IsForm
<1>2. /\ p["new_user_gate"] = Questioned(s["new_user_gate"])
      /\ p["new_customer_restriction"] = Cleared(s["new_customer_restriction"])
      /\ \A f \in Fields \ {"new_user_gate", "new_customer_restriction"} : p[f] = s[f]
      /\ p = [f \in Fields |-> p[f]]
  BY ParsedFields
<1> HIDE DEF p
<1>3. \A f \in Fields : FieldOK(f, p[f])
  <2>1. \A f \in Fields : FieldOK(f, s[f])
    BY FormFields
  <2>2. FieldOK("new_user_gate", p["new_user_gate"])
    BY <1>1, <1>2, QuestionedIsGate DEF FieldOK, Plain
  <2>3. FieldOK("new_customer_restriction", p["new_customer_restriction"])
    BY <1>1, <1>2, ClearedIsRestriction DEF FieldOK, Plain
  <2>4. QED BY <1>2, <2>1, <2>2, <2>3
<1>4. IsForm(p)
  BY <1>2, <1>3, FormFields
<1>5. /\ Parsed(p) = [f \in Fields |-> Parsed(p)[f]]
      /\ Parsed(p)["new_user_gate"] = Questioned(p["new_user_gate"])
      /\ Parsed(p)["new_customer_restriction"] = Cleared(p["new_customer_restriction"])
      /\ \A f \in Fields \ {"new_user_gate", "new_customer_restriction"} : Parsed(p)[f] = p[f]
  BY <1>4, ParsedFields
<1>6. \A f \in Fields : Parsed(p)[f] = p[f]
  BY <1>1, <1>2, <1>5, QuestionedIsGate, ClearedIsRestriction
<1>7. Parsed(p) = p
  BY <1>2, <1>5, <1>6
<1>8. Acceptable(s) => Acceptable(p)
  BY <1>1, <1>2, QuestionedIsGate, ClearedIsRestriction DEF Acceptable
<1>9. QED BY <1>4, <1>7, <1>8 DEF p

\* A row of the settings: a form that the server has stored.
IsRow(s) == IsForm(s) /\ Acceptable(s) /\ Parsed(s) = s

\* Another value of a plain field is stored as it is.
LEMMA PlainIsRow ==
    ASSUME AdminSettingsAssumption, NEW s, IsRow(s), NEW f \in Plain, NEW v \in Values
    PROVE  IsRow([s EXCEPT ![f] = v])
<1> DEFINE t == [s EXCEPT ![f] = v]
<1>1. f \in Fields /\ FieldOK(f, v) /\ f # "new_user_gate" /\ f # "new_customer_restriction"
      /\ "new_user_gate" \in Fields /\ "new_customer_restriction" \in Fields
  BY DEF Plain, Fields, FieldOK
<1>2. IsForm(t) /\ IsForm(s)
  BY <1>1, EditedIsForm DEF IsRow
<1>3. /\ s = [g \in Fields |-> s[g]] /\ t = [g \in Fields |-> t[g]]
      /\ \A g \in Fields \ {f} : t[g] = s[g]
  BY <1>1, <1>2, FormUpdated DEF IsForm
<1> HIDE DEF t
<1>4. t["new_user_gate"] = s["new_user_gate"]
      /\ t["new_customer_restriction"] = s["new_customer_restriction"]
  BY <1>1, <1>3
<1>5. Acceptable(t)
  BY <1>4 DEF IsRow, Acceptable
<1>6. Parsed(t) = t
  <2>1. /\ Parsed(s)["new_user_gate"] = Questioned(s["new_user_gate"])
        /\ Parsed(s)["new_customer_restriction"] = Cleared(s["new_customer_restriction"])
        /\ Parsed(s) = s
    BY <1>2, ParsedFields DEF IsRow
  <2>2. /\ Parsed(t) = [g \in Fields |-> Parsed(t)[g]]
        /\ Parsed(t)["new_user_gate"] = Questioned(t["new_user_gate"])
        /\ Parsed(t)["new_customer_restriction"] = Cleared(t["new_customer_restriction"])
        /\ \A g \in Fields \ {"new_user_gate", "new_customer_restriction"} : Parsed(t)[g] = t[g]
    BY <1>2, ParsedFields
  <2>3. \A g \in Fields : Parsed(t)[g] = t[g]
    BY <1>4, <2>1, <2>2
  <2>4. QED BY <1>3, <2>2, <2>3
<1>7. QED BY <1>2, <1>5, <1>6 DEF IsRow, t

(***************************************************************************)
(* The rows a page may open on.                                            *)
(***************************************************************************)
LEMMA FixedIsRow ==
    ASSUME AdminSettingsAssumption, NEW s, IsForm(s), SoundSchedule(s["new_user_gate"].schedule),
           s["new_user_gate"].question # Blank,
           WholeRestriction(s["new_customer_restriction"])
    PROVE  IsRow(s)
<1>1. /\ s["new_user_gate"] \in Gates
      /\ s["new_customer_restriction"] \in Restrictions \cup {Nothing}
      /\ s = [f \in Fields |-> s[f]]
  BY DEF IsForm
<1>2. Cleared(s["new_customer_restriction"]) = s["new_customer_restriction"]
  BY DEF WholeRestriction, Cleared
<1>3. Questioned(s["new_user_gate"]) = s["new_user_gate"]
  BY <1>1 DEF Questioned, Gates
<1>4. /\ Parsed(s) = [f \in Fields |-> Parsed(s)[f]]
      /\ \A f \in Fields : Parsed(s)[f] = s[f]
  BY <1>2, <1>3, ParsedFields
<1>5. Parsed(s) = s
  BY <1>1, <1>4
<1>6. QED BY <1>2, <1>5 DEF IsRow, Acceptable

LEMMA InitialFields ==
    ASSUME AdminSettingsAssumption
    PROVE  /\ IsForm(Initial)
           /\ Initial["new_customer_restriction"] = Nothing
           /\ Initial["new_user_gate"] =
                [enabled |-> FALSE, question |-> DefaultQuestion, schedule |-> {}]
<1>1. /\ "new_customer_restriction" \in Fields /\ "new_user_gate" \in Fields
      /\ "referral_sources" \in Fields /\ Plain \subseteq Fields
      /\ "new_customer_restriction" \notin Plain /\ "new_user_gate" \notin Plain
      /\ "referral_sources" \notin Plain
  BY DEF Fields, Plain
<1>2. Initial["new_customer_restriction"] = Nothing
  BY <1>1 DEF Initial
<1>3. Initial["new_user_gate"] =
        [enabled |-> FALSE, question |-> DefaultQuestion, schedule |-> {}]
  BY <1>1 DEF Initial
<1>4. Initial["referral_sources"] = << >>
  BY <1>1 DEF Initial
<1>5. \A f \in Plain : Initial[f] \in Values
  BY <1>1 DEF Initial, AdminSettingsAssumption
<1>6. Initial["new_user_gate"] \in Gates
  BY <1>3 DEF AdminSettingsAssumption, Gates
<1>7. << >> \in Seq(Sources) /\ IsInjective(<< >>)
  BY DEF IsInjective
<1>8. Initial = [f \in Fields |-> Initial[f]]
  <2> DEFINE value(f) ==
        CASE f \in Plain -> CHOOSE v \in Values : TRUE
          [] f = "new_customer_restriction" -> Nothing
          [] f = "new_user_gate" ->
               [enabled |-> FALSE, question |-> DefaultQuestion, schedule |-> {}]
          [] f = "referral_sources" -> << >>
  <2>1. Initial = [f \in Fields |-> value(f)]
    BY DEF Initial
  <2> HIDE DEF value
  <2>2. QED BY <2>1
<1>9. QED BY <1>2, <1>3, <1>4, <1>5, <1>6, <1>7, <1>8 DEF IsForm

LEMMA InitialIsRow ==
    ASSUME AdminSettingsAssumption
    PROVE  IsRow(Initial)
BY InitialFields, FixedIsRow
DEF AdminSettingsAssumption, SoundSchedule, WholeRestriction

LEMMA SourcesOnce ==
    ASSUME AdminSettingsAssumption, NEW q \in SetToSeqs(Sources)
    PROVE  q \in Seq(Sources) /\ IsInjective(q)
<1>1. Cardinality(Sources) \in Nat
  BY FS_CardinalityType DEF AdminSettingsAssumption
<1>2. /\ q \in [1 .. Cardinality(Sources) -> Sources]
      /\ \A i, j \in 1 .. Cardinality(Sources) : i # j => q[i] # q[j]
  BY DEF SetToSeqs
<1>3. q \in Seq(Sources)
  BY <1>1, <1>2, SeqDef
<1>4. QED BY <1>2, <1>3 DEF IsInjective

LEMMA StoredAreRows ==
    ASSUME AdminSettingsAssumption, NEW s \in Stored
    PROVE  IsRow(s)
<1> DEFINE gate == Initial["new_user_gate"]
<1>1. /\ IsForm(Initial) /\ Initial["new_customer_restriction"] = Nothing
      /\ gate = [enabled |-> FALSE, question |-> DefaultQuestion, schedule |-> {}]
      /\ Initial = [f \in Fields |-> Initial[f]]
      /\ gate \in Gates
  BY InitialFields DEF IsForm
<1> HIDE DEF gate
<1>1a. gate.schedule = {} /\ gate.question = DefaultQuestion /\ DefaultQuestion # Blank
  BY <1>1 DEF AdminSettingsAssumption
<1>2. SoundSchedule({}) /\ WholeRestriction(Nothing)
  BY DEF SoundSchedule, WholeRestriction
<1>3. /\ "new_customer_restriction" \in Fields /\ "new_user_gate" \in Fields
      /\ "referral_sources" \in Fields
      /\ "new_customer_restriction" \notin Plain /\ "new_user_gate" \notin Plain
      /\ "referral_sources" \notin Plain
  BY DEF Fields, Plain
<1>4. ASSUME NEW ws \in SUBSET Windows, SoundSchedule(ws),
             s = [Initial EXCEPT !["new_user_gate"].schedule = ws]
      PROVE  IsRow(s)
  <2> DEFINE g == [gate EXCEPT !.schedule = ws]
  <2>1. s = [Initial EXCEPT !["new_user_gate"] = g]
    BY <1>4 DEF gate
  <2>2. g \in Gates /\ g.schedule = ws /\ g.question = DefaultQuestion
    BY <1>1, <1>1a DEF Gates
  <2> HIDE DEF g
  <2>3. IsForm(s)
    BY <1>1, <1>3, <2>1, <2>2, EditedIsForm DEF FieldOK
  <2>4. s["new_user_gate"] = g /\ s["new_customer_restriction"] = Nothing
    BY <1>1, <1>3, <2>1
  <2>5. QED BY <1>2, <1>4, <1>1a, <2>2, <2>3, <2>4, FixedIsRow
<1>5. ASSUME NEW q \in SetToSeqs(Sources), s = [Initial EXCEPT !["referral_sources"] = q]
      PROVE  IsRow(s)
  <2>1. IsForm(s)
    BY <1>1, <1>3, <1>5, SourcesOnce, EditedIsForm DEF FieldOK
  <2>2. s["new_user_gate"] = gate /\ s["new_customer_restriction"] = Nothing
    BY <1>1, <1>3, <1>5 DEF gate
  <2>3. QED BY <1>2, <1>1a, <2>1, <2>2, FixedIsRow
<1>6. ASSUME NEW r \in Restrictions, WholeRestriction(r),
             s = [Initial EXCEPT !["new_customer_restriction"] = r]
      PROVE  IsRow(s)
  <2>1. IsForm(s)
    BY <1>1, <1>3, <1>6, EditedIsForm DEF FieldOK
  <2>2. s["new_user_gate"] = gate /\ s["new_customer_restriction"] = r
    BY <1>1, <1>3, <1>6 DEF gate
  <2>3. QED BY <1>2, <1>6, <1>1a, <2>1, <2>2, FixedIsRow
<1>7. CASE s = Initial
  BY <1>7, InitialIsRow
<1>8. QED BY <1>4, <1>5, <1>6, <1>7 DEF Stored

(***************************************************************************)
(* The editors.                                                            *)
(***************************************************************************)
LEMMA NatLeast ==
    ASSUME NEW S \in SUBSET Nat, S # {}
    PROVE  \E m \in S : \A k \in S : m <= k
<1>1. PICK m \in S : \A k \in S : ~(<<k, m>> \in OpToRel(<, Nat))
  BY NatLessThanWellFounded, WFMin
<1>2. \A k \in S : ~(k < m)
  BY <1>1 DEF OpToRel
<1>3. QED BY <1>2

\* Of windows that start within a day, one starts last.
LEMMA OneStartsLast ==
    ASSUME NEW last \in Nat, NEW S, S # {}, \A w \in S : w.start \in 0 .. last
    PROVE  \E w \in S : \A v \in S : v.start <= w.start
<1> DEFINE T == {last - w.start : w \in S}
<1>1. T \subseteq Nat /\ T # {}
  OBVIOUS
<1>2. PICK m \in T : \A k \in T : m <= k
  BY <1>1, NatLeast
<1>3. PICK w \in S : m = last - w.start
  BY <1>2
<1>4. ASSUME NEW v \in S
      PROVE  v.start <= w.start
  <2>1. last - v.start \in T
    OBVIOUS
  <2>2. last - w.start <= last - v.start
    BY <1>2, <1>3, <2>1
  <2>3. v.start \in Int /\ w.start \in Int
    OBVIOUS
  <2>4. QED BY <2>2, <2>3
<1>5. QED BY <1>4

\* The window a weekday shows: the default one, or the one that starts last.
LEMMA WeekdayHasWindow ==
    ASSUME AdminSettingsAssumption, NEW ws \in SUBSET Windows, NEW d \in Weekdays
    PROVE  ByWeekday(ws, d) \in Windows
<1> DEFINE S == OnDay(ws, d)
           last == 24 * 60
<1>1. last \in Nat /\ Hours \subseteq 0 .. last
  BY DEF AdminSettingsAssumption
<1> HIDE DEF last
<1>2. S \subseteq Windows
  BY DEF OnDay
<1>3. CASE S = {}
  BY <1>3 DEF ByWeekday, Windows, AdminSettingsAssumption
<1>4. CASE S # {}
  <2>1. \A w \in S : w.start \in 0 .. last
    BY <1>1, <1>2 DEF Windows
  <2>2. ByWeekday(ws, d) = CHOOSE u \in S : \A v \in S : v.start <= u.start
    BY <1>4 DEF ByWeekday
  <2> HIDE DEF S
  <2>3. ByWeekday(ws, d) \in S
    BY <1>1, <1>4, <2>1, <2>2, OneStartsLast
  <2>4. QED BY <1>2, <2>3
<1>5. QED BY <1>3, <1>4

\* The parts before and after an element of a sequence.
LEMMA CutLengths ==
    ASSUME NEW n \in Nat, NEW i \in 1 .. n
    PROVE  /\ (IF 1 <= i - 1 THEN i - 1 - 1 + 1 ELSE 0) = i - 1
           /\ (IF i + 1 <= n THEN n - (i + 1) + 1 ELSE 0) = n - i
OBVIOUS

\* Sources are added, removed and moved with each kept once.
LEMMA SourcesEdited ==
    ASSUME NEW q \in Seq(Sources), IsInjective(q)
    PROVE  /\ \A s \in Sources \ Range(q) :
                Append(q, s) \in Seq(Sources) /\ IsInjective(Append(q, s))
           /\ \A i \in 1 .. Len(q) :
                RemoveAt(q, i) \in Seq(Sources) /\ IsInjective(RemoveAt(q, i))
           /\ \A i \in 1 .. Len(q) - 1 :
                LET r == [q EXCEPT ![i] = q[i + 1], ![i + 1] = q[i]]
                IN  r \in Seq(Sources) /\ IsInjective(r)
<1>1. /\ Len(q) \in Nat /\ DOMAIN q = 1 .. Len(q)
      /\ \A i \in 1 .. Len(q) : q[i] \in Sources
      /\ \A i, j \in 1 .. Len(q) : q[i] = q[j] => i = j
  BY LenProperties, ElementOfSeq DEF IsInjective
<1>2. ASSUME NEW s \in Sources \ Range(q)
      PROVE  Append(q, s) \in Seq(Sources) /\ IsInjective(Append(q, s))
  <2>1. /\ Append(q, s) \in Seq(Sources)
        /\ DOMAIN Append(q, s) = 1 .. (Len(q) + 1)
        /\ \A i \in 1 .. Len(q) : Append(q, s)[i] = q[i]
        /\ Append(q, s)[Len(q) + 1] = s
    BY <1>1, AppendProperties, LenProperties
  <2>2. \A i \in 1 .. Len(q) : q[i] # s
    BY <1>1 DEF Range
  <2>3. \A i, j \in 1 .. (Len(q) + 1) : Append(q, s)[i] = Append(q, s)[j] => i = j
    <3>1. \A i \in 1 .. (Len(q) + 1) : i \in 1 .. Len(q) \/ i = Len(q) + 1
      BY <1>1
    <3>2. QED BY <1>1, <2>1, <2>2, <3>1
  <2>4. QED BY <2>1, <2>3 DEF IsInjective
<1>3. ASSUME NEW i \in 1 .. Len(q)
      PROVE  RemoveAt(q, i) \in Seq(Sources) /\ IsInjective(RemoveAt(q, i))
  <2> DEFINE a == SubSeq(q, 1, i - 1)
             z == SubSeq(q, i + 1, Len(q))
             r == a \o z
  <2>1. /\ a \in Seq(Sources) /\ Len(a) = i - 1 /\ \A j \in 1 .. i - 1 : a[j] = q[j]
        /\ z \in Seq(Sources) /\ Len(z) = Len(q) - i
        /\ \A j \in 1 .. Len(q) - i : z[j] = q[j + i]
    <3>1. /\ 1 \in 1 .. Len(q) + 1 /\ i - 1 \in 0 .. Len(q) /\ i \in Nat
          /\ i + 1 \in 1 .. Len(q) + 1 /\ Len(q) \in 0 .. Len(q)
      BY <1>1
    <3>2. /\ a \in Seq(Sources)
          /\ Len(a) = IF 1 <= i - 1 THEN i - 1 - 1 + 1 ELSE 0
          /\ \A j \in 1 .. i - 1 - 1 + 1 : a[j] = q[1 + j - 1]
      BY <3>1, SubSeqProperties
    <3>3. /\ z \in Seq(Sources)
          /\ Len(z) = IF i + 1 <= Len(q) THEN Len(q) - (i + 1) + 1 ELSE 0
          /\ \A j \in 1 .. Len(q) - (i + 1) + 1 : z[j] = q[i + 1 + j - 1]
      BY <3>1, SubSeqProperties
    <3> HIDE DEF a, z
    <3>4. Len(a) = i - 1 /\ Len(z) = Len(q) - i
      <4>1. Len(q) \in Nat
        BY <1>1
      <4>2. Len(a) = IF 1 <= i - 1 THEN i - 1 - 1 + 1 ELSE 0
        BY <3>2
      <4>3. Len(z) = IF i + 1 <= Len(q) THEN Len(q) - (i + 1) + 1 ELSE 0
        BY <3>3
      <4>4. QED BY <4>1, <4>2, <4>3, CutLengths
    <3>5. ASSUME NEW j \in 1 .. i - 1
          PROVE  a[j] = q[j]
      <4>1. j \in 1 .. i - 1 - 1 + 1 /\ 1 + j - 1 = j
        BY <3>1, <3>5
      <4>2. a[j] = q[1 + j - 1]
        BY <3>2, <4>1
      <4>3. QED BY <4>1, <4>2
    <3>6. ASSUME NEW j \in 1 .. Len(q) - i
          PROVE  z[j] = q[j + i]
      <4>1. j \in 1 .. Len(q) - (i + 1) + 1 /\ i + 1 + j - 1 = j + i
        BY <1>1, <3>1, <3>6
      <4>2. z[j] = q[i + 1 + j - 1]
        BY <3>3, <4>1
      <4>3. QED BY <4>1, <4>2
    <3>7. QED BY <3>2, <3>3, <3>4, <3>5, <3>6
  <2>2. /\ r \in Seq(Sources) /\ Len(r) = Len(q) - 1
        /\ \A j \in 1 .. Len(r) : r[j] = IF j <= i - 1 THEN a[j] ELSE z[j - (i - 1)]
    <3> HIDE DEF a, z
    <3>1. /\ r \in Seq(Sources) /\ Len(r) = Len(a) + Len(z)
          /\ \A j \in 1 .. Len(a) + Len(z) :
               r[j] = IF j <= Len(a) THEN a[j] ELSE z[j - Len(a)]
      BY <2>1, ConcatProperties
    <3> HIDE DEF r
    <3>2. Len(a) + Len(z) = Len(q) - 1
      BY <1>1, <1>3, <2>1
    <3>3. QED BY <2>1, <3>1, <3>2
  <2> HIDE DEF a, z, r
  <2>3. \A j \in 1 .. Len(r) : r[j] = IF j < i THEN q[j] ELSE q[j + 1]
    BY <1>1, <2>1, <2>2
  <2>4. \A j, k \in 1 .. Len(r) : r[j] = r[k] => j = k
    <3>1. SUFFICES ASSUME NEW j \in 1 .. Len(r), NEW k \in 1 .. Len(r), r[j] = r[k]
                   PROVE  j = k
      OBVIOUS
    <3> DEFINE J == IF j < i THEN j ELSE j + 1
               K == IF k < i THEN k ELSE k + 1
    <3>2. J \in 1 .. Len(q) /\ K \in 1 .. Len(q) /\ q[J] = q[K]
      BY <1>1, <2>2, <2>3, <3>1
    <3>3. J = K
      BY <1>1, <3>2
    <3>4. QED BY <3>3
  <2>5. DOMAIN r = 1 .. Len(r) /\ RemoveAt(q, i) = r
    BY <2>2, LenProperties DEF RemoveAt, r, a, z
  <2>6. QED BY <2>2, <2>4, <2>5 DEF IsInjective
<1>4. ASSUME NEW i \in 1 .. Len(q) - 1
      PROVE  LET r == [q EXCEPT ![i] = q[i + 1], ![i + 1] = q[i]]
             IN  r \in Seq(Sources) /\ IsInjective(r)
  <2> DEFINE r == [q EXCEPT ![i] = q[i + 1], ![i + 1] = q[i]]
  <2>1. i \in 1 .. Len(q) /\ i + 1 \in 1 .. Len(q) /\ i # i + 1
    BY <1>1
  <2>2. q \in [1 .. Len(q) -> Sources]
    BY <1>1, LenProperties
  <2>3. r \in [1 .. Len(q) -> Sources]
    BY <1>1, <2>1, <2>2
  <2>4. r[i] = q[i + 1] /\ r[i + 1] = q[i]
        /\ \A j \in 1 .. Len(q) : j # i /\ j # i + 1 => r[j] = q[j]
    BY <2>1, <2>2
  <2> HIDE DEF r
  <2>5. r \in Seq(Sources)
    BY <1>1, <2>3, SeqDef
  <2>6. \A j, k \in 1 .. Len(q) : r[j] = r[k] => j = k
    BY <1>1, <2>1, <2>4
  <2>7. DOMAIN r = 1 .. Len(q)
    BY <2>3
  <2>8. IsInjective(r)
    BY <2>6, <2>7 DEF IsInjective
  <2>9. QED BY <2>5, <2>8 DEF r
<1>5. QED BY <1>2, <1>3, <1>4

\* Each editor changes one field, to what the field may hold.
Editing ==
    \/ Type \/ EditRestriction \/ EditGate \/ EditSources
    \/ \E d \in Weekdays : EditSchedule(d)

LEMMA EditsFields ==
    ASSUME AdminSettingsAssumption, TypeOK, Editing
    PROVE  \E f \in Fields : \E v : FieldOK(f, v) /\ Edit(f, v)
<1>1. /\ "new_customer_restriction" \in Fields /\ "new_user_gate" \in Fields
      /\ "referral_sources" \in Fields /\ Plain \subseteq Fields
      /\ "new_customer_restriction" \notin Plain /\ "new_user_gate" \notin Plain
      /\ "referral_sources" \notin Plain
  BY DEF Fields, Plain
<1>2. /\ \A v \in Restrictions \cup {Nothing} : FieldOK("new_customer_restriction", v)
      /\ \A v \in Gates : FieldOK("new_user_gate", v)
      /\ \A v \in Seq(Sources) : IsInjective(v) => FieldOK("referral_sources", v)
      /\ \A f \in Plain, v \in Values : FieldOK(f, v)
  BY <1>1 DEF FieldOK
<1>3. CASE Type
  BY <1>1, <1>2, <1>3 DEF Type
<1>4. settings # Nothing
      => /\ form["new_customer_restriction"] \in Restrictions \cup {Nothing}
         /\ form["new_user_gate"] \in Gates
         /\ form["referral_sources"] \in Seq(Sources)
         /\ IsInjective(form["referral_sources"])
  BY DEF TypeOK, IsForm
<1>5. CASE EditRestriction
  <2> DEFINE r == form["new_customer_restriction"]
             current == IF r = Nothing THEN [start |-> Blank, end |-> Blank] ELSE r
  <2>1. r \in Restrictions \cup {Nothing}
    BY <1>4, <1>5 DEF EditRestriction
  <2> HIDE DEF r
  <2>2. current \in Restrictions
    BY <2>1 DEF Restrictions
  <2> HIDE DEF current
  <2>3. \A d \in Dates \cup {Blank} : [current EXCEPT !.start = d] \in Restrictions
                                      /\ [current EXCEPT !.end = d] \in Restrictions
    BY <2>2 DEF Restrictions
  <2>4. \E v \in Restrictions \cup {Nothing} : Edit("new_customer_restriction", v)
    BY <1>5, <2>3 DEF EditRestriction, current, r
  <2>5. QED BY <1>1, <1>2, <2>4
<1>6. CASE EditGate
  <2> DEFINE gate == form["new_user_gate"]
  <2>1. gate \in Gates
    BY <1>4, <1>6 DEF EditGate
  <2> HIDE DEF gate
  <2>2. /\ [gate EXCEPT !.enabled = ~gate.enabled] \in Gates
        /\ \A q \in Questions \cup {Blank} : [gate EXCEPT !.question = q] \in Gates
    BY <2>1 DEF Gates
  <2>3. \E v \in Gates : Edit("new_user_gate", v)
    BY <1>6, <2>2 DEF EditGate, gate
  <2>4. QED BY <1>1, <1>2, <2>3
<1>7. CASE EditSources
  <2> DEFINE q == form["referral_sources"]
  <2>1. q \in Seq(Sources) /\ IsInjective(q)
    BY <1>4, <1>7 DEF EditSources
  <2> HIDE DEF q
  <2>2. \E v \in Seq(Sources) : IsInjective(v) /\ Edit("referral_sources", v)
    <3>1. \/ \E s \in Sources \ Range(q) : Edit("referral_sources", Append(q, s))
          \/ \E i \in 1 .. Len(q) : Edit("referral_sources", RemoveAt(q, i))
          \/ \E i \in 1 .. Len(q) - 1 :
               Edit("referral_sources", [q EXCEPT ![i] = q[i + 1], ![i + 1] = q[i]])
      BY <1>7 DEF EditSources, q
    <3>2. ASSUME NEW s \in Sources \ Range(q), Edit("referral_sources", Append(q, s))
          PROVE  \E v \in Seq(Sources) : IsInjective(v) /\ Edit("referral_sources", v)
      BY <2>1, <3>2, SourcesEdited
    <3>3. ASSUME NEW i \in 1 .. Len(q), Edit("referral_sources", RemoveAt(q, i))
          PROVE  \E v \in Seq(Sources) : IsInjective(v) /\ Edit("referral_sources", v)
      BY <2>1, <3>3, SourcesEdited
    <3>4. ASSUME NEW i \in 1 .. Len(q) - 1,
                 Edit("referral_sources", [q EXCEPT ![i] = q[i + 1], ![i + 1] = q[i]])
          PROVE  \E v \in Seq(Sources) : IsInjective(v) /\ Edit("referral_sources", v)
      <4> DEFINE r == [q EXCEPT ![i] = q[i + 1], ![i + 1] = q[i]]
      <4>1. r \in Seq(Sources) /\ IsInjective(r)
        BY <2>1, SourcesEdited
      <4>2. Edit("referral_sources", r)
        BY <3>4
      <4> HIDE DEF r
      <4>3. QED BY <4>1, <4>2
    <3>5. QED BY <3>1, <3>2, <3>3, <3>4
  <2>3. QED BY <1>1, <1>2, <2>2
<1>8. ASSUME NEW d \in Weekdays, EditSchedule(d)
      PROVE  \E f \in Fields : \E v : FieldOK(f, v) /\ Edit(f, v)
  <2> DEFINE gate == form["new_user_gate"]
             ws == gate.schedule
             day == ByWeekday(ws, d)
             others == ws \ OnDay(ws, d)
  <2>1. gate \in Gates
    BY <1>4, <1>8 DEF EditSchedule
  <2>2. ws \in SUBSET Windows
    BY <2>1 DEF Gates
  <2>3. day \in Windows
    BY <2>2, WeekdayHasWindow
  <2>4. \E us \in SUBSET Windows : Schedule(us)
    <3>1. \/ Schedule(ws \cup {day})
          \/ Schedule(others)
          \/ \E h \in Hours : \/ Schedule(others \cup {[day EXCEPT !.start = h]})
                              \/ Schedule(others \cup {[day EXCEPT !.end = h]})
      BY <1>8 DEF EditSchedule
    <3>2. others \subseteq Windows
      BY <2>2
    <3> HIDE DEF day, others, ws
    <3>3. \A h \in Hours : [day EXCEPT !.start = h] \in Windows
                           /\ [day EXCEPT !.end = h] \in Windows
      BY <2>3 DEF Windows
    <3>4. QED BY <2>2, <2>3, <3>1, <3>2, <3>3
  <2> HIDE DEF gate, ws, day, others
  <2>5. PICK us \in SUBSET Windows : Edit("new_user_gate", [gate EXCEPT !.schedule = us])
    BY <2>4 DEF Schedule, gate
  <2>6. [gate EXCEPT !.schedule = us] \in Gates
    BY <2>1 DEF Gates
  <2>7. QED BY <1>1, <1>2, <2>5, <2>6
<1>9. QED BY <1>3, <1>5, <1>6, <1>7, <1>8 DEF Editing

(***************************************************************************)
(* The page.                                                               *)
(***************************************************************************)
LEMMA PageParts ==
    /\ PageInv => IsRow(stored)
    /\ PageInv /\ settings # Nothing => IsForm(settings) /\ Acceptable(settings) /\ IsForm(form)
BY DEF PageInv, TypeOK, IsRow

LEMMA PageInit ==
    ASSUME AdminSettingsAssumption, Closed
    PROVE  PageInv
<1>1. TypeOK
  <2>1. IsForm(stored) /\ Acceptable(stored) /\ Parsed(stored) = stored
    BY InitialIsRow DEF Closed, IsRow
  <2>2. page \in Pages /\ section \in DOMAIN SECTIONS
    BY DEF Closed, Pages, SECTIONS
  <2>3. settings = Nothing /\ form = Nothing /\ put.state = "none" /\ put.form = Nothing
    BY DEF Closed, NoPut
  <2>4. edits \in 0 .. MaxEdits
    BY DEF Closed, AdminSettingsAssumption
  <2>5. outdated \in BOOLEAN
    BY Zenon DEF Closed
  <2>6. QED BY <2>1, <2>2, <2>3, <2>4, <2>5 DEF TypeOK
<1>2. QED BY <1>1 DEF Closed, PageInv, PutOK, ReadOK, ShutOK, NoPut

LEMMA EditKeeps ==
    ASSUME AdminSettingsAssumption, PageInv, Editing
    PROVE  PageInv'
<1>1. PICK f \in Fields : \E v : FieldOK(f, v) /\ Edit(f, v)
  BY EditsFields DEF PageInv
<1>2. PICK v : FieldOK(f, v) /\ Edit(f, v)
  BY <1>1
<1>3. /\ settings # Nothing /\ edits' = edits + 1 /\ edits < MaxEdits
      /\ form' = [form EXCEPT ![f] = v]
      /\ UNCHANGED <<page, stored, settings, section, put, outdated>>
  BY <1>2 DEF Edit
<1>4. IsForm(form')
  BY <1>2, <1>3, PageParts, EditedIsForm
<1>5. edits' \in 0 .. MaxEdits
  BY <1>3 DEF PageInv, TypeOK, AdminSettingsAssumption
<1>6. TypeOK'
  BY <1>3, <1>4, <1>5, PageParts DEF PageInv, TypeOK
<1>7. PutOK' /\ ReadOK' /\ ShutOK'
  BY <1>3 DEF PageInv, PutOK, ReadOK, ShutOK, Mounted
<1>8. QED BY <1>6, <1>7 DEF PageInv

\* What is sent is a form, which the server stores if it accepts it.
LEMMA PayloadIsForm ==
    ASSUME IsForm(form)
    PROVE  IsForm(Payload)
<1>1. form["new_customer_restriction"] \in Restrictions \cup {Nothing}
      /\ "new_customer_restriction" \in Fields /\ "new_customer_restriction" \notin Plain
  BY DEF IsForm, Fields, Plain
<1>2. FieldOK("new_customer_restriction", Cleared(form["new_customer_restriction"]))
  BY <1>1, ClearedIsRestriction DEF FieldOK
<1>3. QED BY <1>1, <1>2, EditedIsForm DEF Payload

LEMMA SavesKeep ==
    ASSUME AdminSettingsAssumption, PageInv,
           HandleSubmit \/ ServePut \/ SaveAnswered \/ SaveRefused \/ SaveLost
    PROVE  PageInv'
<1>1. /\ TypeOK /\ PutOK /\ ReadOK /\ ShutOK /\ IsRow(stored)
  BY PageParts DEF PageInv
<1>2. UNCHANGED <<page, section, edits>> /\ outdated' \in BOOLEAN
  BY <1>1
  DEF HandleSubmit, ServePut, SaveAnswered, SaveRefused, SaveLost, TypeOK
<1>3. CASE HandleSubmit
  <2>1. /\ settings # Nothing /\ put.state = "none" /\ put'.state = "sent"
        /\ put'.form = Payload
        /\ UNCHANGED <<page, stored, settings, form, section, outdated, edits>>
    BY <1>3 DEF HandleSubmit
  <2>2. IsForm(put'.form)
    BY <2>1, PageParts, PayloadIsForm
  <2>3. TypeOK'
    BY <1>1, <2>1, <2>2 DEF TypeOK
  <2>4. PutOK' /\ ReadOK' /\ ShutOK'
    BY <1>1, <2>1, <2>2 DEF PutOK, ReadOK, ShutOK, Mounted
  <2>5. QED BY <2>3, <2>4 DEF PageInv
<1>4. CASE ServePut
  <2>1. /\ put.state = "sent" /\ put'.state = "done" /\ put'.form = stored'
        /\ stored' = Parsed(put.form) /\ Acceptable(put.form)
        /\ UNCHANGED <<page, settings, form, section, outdated, edits>>
    BY <1>4 DEF ServePut
  <2>2. IsForm(put.form) /\ settings # Nothing
    BY <1>1, <2>1 DEF PutOK
  <2>3. IsRow(stored')
    BY <2>1, <2>2, ParsedIsStored DEF IsRow
  <2>4. TypeOK'
    BY <1>1, <2>1, <2>3 DEF TypeOK, IsRow
  <2>5. PutOK' /\ ReadOK' /\ ShutOK'
    BY <1>1, <2>1, <2>2, <2>3 DEF PutOK, ReadOK, ShutOK, Mounted, IsRow
  <2>6. QED BY <2>4, <2>5 DEF PageInv
<1>5. CASE SaveAnswered
  <2>1. /\ put.state = "done" /\ put' = NoPut /\ settings' = put.form /\ form' = put.form
        /\ outdated' = (stored # put.form)
        /\ UNCHANGED <<page, stored, section, edits>>
    BY <1>5 DEF SaveAnswered
  <2>2. IsForm(put.form) /\ Acceptable(put.form) /\ settings # Nothing /\ Mounted
    BY <1>1, <2>1 DEF PutOK, ShutOK
  <2>3. TypeOK'
    BY <1>1, <1>2, <2>1, <2>2 DEF TypeOK, NoPut
  <2>4. PutOK' /\ ReadOK' /\ ShutOK'
    BY <1>1, <2>1, <2>2 DEF PutOK, ReadOK, ShutOK, Mounted, NoPut
  <2>5. QED BY <2>3, <2>4 DEF PageInv
<1>6. CASE SaveRefused
  <2>1. TypeOK'
    BY <1>1, <1>6 DEF SaveRefused, TypeOK, NoPut
  <2>2. PutOK' /\ ReadOK' /\ ShutOK'
    BY <1>1, <1>6 DEF SaveRefused, PutOK, ReadOK, ShutOK, Mounted, NoPut
  <2>3. QED BY <2>1, <2>2 DEF PageInv
<1>7. CASE SaveLost
  <2>1. /\ put.state # "none" /\ put' = NoPut /\ outdated' = TRUE
        /\ UNCHANGED <<page, settings, form, section, edits>>
        /\ \/ stored' = stored
           \/ Acceptable(put.form) /\ stored' = Parsed(put.form)
    BY <1>7 DEF SaveLost
  <2>2. IsForm(put.form)
    BY <1>1, <2>1 DEF PutOK
  <2>3. IsRow(stored')
    BY <1>1, <2>1, <2>2, ParsedIsStored DEF IsRow
  <2>4. TypeOK'
    BY <1>1, <2>1, <2>3 DEF TypeOK, NoPut, IsRow
  <2>5. PutOK' /\ ReadOK' /\ ShutOK'
    BY <1>1, <2>1 DEF PutOK, ReadOK, ShutOK, Mounted, NoPut
  <2>6. QED BY <2>4, <2>5 DEF PageInv
<1>8. QED BY <1>3, <1>4, <1>5, <1>6, <1>7

\* The page opens, reads, and is left; others save.
LEMMA VisitsKeep ==
    ASSUME AdminSettingsAssumption, PageInv,
           Open \/ Leave \/ SettingsArrive \/ (\E s \in DOMAIN SECTIONS : GoToSection(s))
           \/ OthersSave
    PROVE  PageInv'
<1>1. /\ TypeOK /\ PutOK /\ ReadOK /\ ShutOK /\ IsRow(stored)
  BY PageParts DEF PageInv
<1>2. CASE Open
  <2>1. IsRow(stored') /\ page' = "settings" /\ page = "none"
        /\ UNCHANGED <<pageVars, outdated, edits>>
    BY <1>2, StoredAreRows DEF Open
  <2>2. settings = Nothing
    BY <1>1, <2>1 DEF ShutOK, Mounted
  <2>3. TypeOK'
    BY <1>1, <2>1 DEF TypeOK, IsRow, pageVars, Pages
  <2>4. PutOK' /\ ReadOK' /\ ShutOK'
    BY <1>1, <2>1, <2>2 DEF PutOK, ReadOK, ShutOK, Mounted, pageVars
  <2>5. QED BY <2>3, <2>4 DEF PageInv
<1>3. CASE Leave
  <2>1. TypeOK'
    <3>1. IsForm(stored') /\ Acceptable(stored') /\ Parsed(stored') = stored'
      BY <1>3, InitialIsRow DEF Leave, IsRow
    <3>2. page' \in Pages /\ section' \in DOMAIN SECTIONS
      BY <1>3 DEF Leave, Pages, SECTIONS
    <3>3. settings' = Nothing /\ form' = Nothing /\ put'.state = "none" /\ put'.form = Nothing
      BY <1>3 DEF Leave, NoPut
    <3>4. edits' \in 0 .. MaxEdits
      BY <1>3 DEF Leave, AdminSettingsAssumption
    <3>5. outdated' \in BOOLEAN
      BY <1>3, Zenon DEF Leave
    <3>6. QED BY <3>1, <3>2, <3>3, <3>4, <3>5 DEF TypeOK
  <2>2. PutOK' /\ ReadOK' /\ ShutOK'
    BY <1>3 DEF Leave, PutOK, ReadOK, ShutOK, NoPut
  <2>3. QED BY <2>1, <2>2 DEF PageInv
<1>4. CASE SettingsArrive
  <2>1. /\ Mounted /\ settings = Nothing /\ settings' = stored /\ form' = stored
        /\ outdated' = FALSE /\ UNCHANGED <<page, stored, section, put, edits>>
    BY <1>4 DEF SettingsArrive
  <2>2. put.state = "none"
    BY <1>1, <2>1 DEF PutOK
  <2>3. TypeOK'
    BY <1>1, <2>1 DEF TypeOK
  <2>4. PutOK' /\ ReadOK' /\ ShutOK'
    BY <1>1, <2>1, <2>2 DEF PutOK, ReadOK, ShutOK, Mounted
  <2>5. QED BY <2>3, <2>4 DEF PageInv
<1>5. ASSUME NEW s \in DOMAIN SECTIONS, GoToSection(s)
      PROVE  PageInv'
  <2>1. TypeOK'
    BY <1>1, <1>5 DEF GoToSection, TypeOK
  <2>2. PutOK' /\ ReadOK' /\ ShutOK'
    BY <1>1, <1>5 DEF GoToSection, PutOK, ReadOK, ShutOK, Mounted
  <2>3. QED BY <2>1, <2>2 DEF PageInv
<1>6. CASE OthersSave
  <2>1. PICK f \in Plain, v \in Values : stored' = [stored EXCEPT ![f] = v]
    BY <1>6 DEF OthersSave
  <2>2. /\ edits < MaxEdits /\ edits' = edits + 1 /\ outdated' = TRUE
        /\ UNCHANGED <<page, settings, form, section, put>>
    BY <1>6 DEF OthersSave, pageVars
  <2>3. IsRow(stored')
    BY <1>1, <2>1, PlainIsRow
  <2>4. edits' \in 0 .. MaxEdits
    BY <1>1, <2>2 DEF TypeOK, AdminSettingsAssumption
  <2>5. TypeOK'
    BY <1>1, <2>2, <2>3, <2>4 DEF TypeOK, IsRow
  <2>6. PutOK' /\ ReadOK' /\ ShutOK'
    BY <1>1, <2>2 DEF PutOK, ReadOK, ShutOK, Mounted
  <2>7. QED BY <2>5, <2>6 DEF PageInv
<1>7. QED BY <1>2, <1>3, <1>4, <1>5, <1>6

LEMMA PageStep ==
    ASSUME AdminSettingsAssumption, PageInv, Next
    PROVE  PageInv'
BY EditKeeps, SavesKeep, VisitsKeep DEF Next, Stay, Editing

LEMMA PageStutters ==
    ASSUME PageInv, UNCHANGED vars
    PROVE  PageInv'
BY DEF PageInv, TypeOK, PutOK, ReadOK, ShutOK, Mounted, vars, pageVars

\* What the other pages do while this one is not open.
LEMMA PageAside ==
    ASSUME PageInv, UNCHANGED <<stored, pageVars, outdated, edits>>, page' \in Pages, ~Mounted
    PROVE  PageInv'
<1>1. TypeOK'
  BY DEF PageInv, TypeOK, pageVars
<1>2. PutOK' /\ ReadOK' /\ ShutOK'
  BY DEF PageInv, PutOK, ReadOK, ShutOK, pageVars
<1>3. QED BY <1>1, <1>2 DEF PageInv

\* A form without unsaved changes is what was read, and that is what is stored.
LEMMA PageHidesNothing ==
    ASSUME PageInv
    PROVE  NoUnsavedChangeIsHidden
<1>1. SUFFICES ASSUME settings # Nothing, put.state = "none", ~outdated, DirtyFields = {}
               PROVE  form = stored
  BY DEF NoUnsavedChangeIsHidden
<1>2. settings = stored
  BY <1>1 DEF PageInv, ReadOK
<1>3. form = [f \in Fields |-> form[f]] /\ settings = [f \in Fields |-> settings[f]]
  BY <1>1, PageParts DEF IsForm
<1>4. \A f \in Fields : form[f] = settings[f]
  BY <1>1 DEF DirtyFields
<1>5. QED BY <1>2, <1>3, <1>4
=============================================================================
