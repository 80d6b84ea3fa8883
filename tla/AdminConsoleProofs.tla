--------------------------- MODULE AdminConsoleProofs ---------------------------
(***************************************************************************)
(* Theorems about AdminConsole, for any bookings, settings and closures    *)
(* and any bounds.  What its bookings page and its settings page keep is   *)
(* shown in AdminBookingsProofs and AdminSettingsProofs; what its closures *)
(* page keeps is shown here; and a step of one page leaves what the others *)
(* keep alone.                                                             *)
(***************************************************************************)
EXTENDS AdminConsole, TLAPS

BP == INSTANCE AdminBookingsProofs

SP == INSTANCE AdminSettingsProofs

(***************************************************************************)
(* The closures page.                                                      *)
(***************************************************************************)

\* What a table holds for a closure was typed in a form of its own.
Own(t) == \A i \in DOMAIN t : t[i].of = i

ServerOK ==
    /\ C!IsTable(closures) /\ Own(closures)
    /\ \A i \in DOMAIN closures : /\ C!Acceptable(closures[i])
                                  /\ C!Payload(closures[i]) = closures[i]
    /\ DOMAIN closures \subseteq used
    /\ used \subseteq Ids

RowsOK ==
    /\ C!IsTable(rows) /\ Own(rows)
    /\ reading \in {"sent", "served", "no"}
    /\ C!IsTable(answer) /\ Own(answer)

\* The form of a panel is of the closure the panel is for.
PanelOK ==
    /\ creating \in BOOLEAN
    /\ editing \in Ids \cup {NoId}
    /\ creating => editing = NoId
    /\ panel \in C!Contents
    /\ panel.of = editing

Requests == [kind : {"create", "update", "delete"}, id : Ids \cup {NoId}, form : C!Contents,
             no : Nat, outcome : {"sent", "done", "refused"}]

\* A call carries the form of its own closure, and no times it has no use for; a closure
\* that was made has its id.
RequestOK(c) ==
    /\ c.kind # "create" => c.id \in Ids
    /\ c.kind = "update" => c.form.of = c.id
    /\ c.kind = "create" /\ c.outcome = "done" => c.id \in Ids /\ c.form.of = c.id
    /\ C!Payload(c.form) = c.form

RequestsOK ==
    /\ saving \in 0 .. sends
    /\ sends \in 0 .. MaxSends
    /\ changes \in 0 .. MaxChanges
    /\ requests \subseteq Requests
    /\ \A c \in requests : c.no \in 1 .. sends /\ RequestOK(c)

ClosuresInv == page \in C!Pages /\ ServerOK /\ RowsOK /\ PanelOK /\ RequestsOK

LEMMA ClosuresParts ==
    ClosuresInv => C!TypeOK /\ C!EditsStayWithTheirClosure
BY DEF ClosuresInv, ServerOK, RowsOK, PanelOK, RequestsOK, Requests, Own, C!TypeOK,
       C!EditsStayWithTheirClosure

LEMMA PutOwn ==
    ASSUME NEW t, C!IsTable(t), Own(t), NEW i \in Ids, NEW x \in C!Contents, x.of = i
    PROVE  C!IsTable(C!Put(t, i, x)) /\ Own(C!Put(t, i, x))
BY DEF C!IsTable, Own, C!Put

LEMMA WithoutOwn ==
    ASSUME NEW t, C!IsTable(t), Own(t), NEW i
    PROVE  /\ C!IsTable(C!Without(t, i)) /\ Own(C!Without(t, i))
           /\ DOMAIN C!Without(t, i) = DOMAIN t \ {i}
           /\ \A j \in DOMAIN t \ {i} : C!Without(t, i)[j] = t[j]
BY DEF C!IsTable, Own, C!Without

LEMMA NoneOwn == C!IsTable(C!None) /\ Own(C!None) /\ DOMAIN C!None = {}
BY DEF C!IsTable, Own, C!None

\* The payload is of the form's closure, and is its own payload.
LEMMA PayloadOwn ==
    ASSUME NEW f \in C!Contents
    PROVE  /\ C!Payload(f) \in C!Contents
           /\ C!Payload(f).of = f.of
           /\ C!Payload(C!Payload(f)) = C!Payload(f)
<1>1. CASE f.all_day
  <2> DEFINE p == [f EXCEPT !.times = "none"]
  <2>1. p \in C!Contents /\ p.of = f.of /\ p.all_day = f.all_day /\ [p EXCEPT !.times = "none"] = p
    BY DEF C!Contents
  <2>2. C!Payload(f) = p
    BY <1>1 DEF C!Payload
  <2> HIDE DEF p
  <2>3. C!Payload(p) = p
    BY <1>1, <2>1 DEF C!Payload
  <2>4. QED BY <2>1, <2>2, <2>3
<1>2. CASE ~f.all_day
  BY <1>2 DEF C!Payload
<1>3. QED BY <1>1, <1>2

LEMMA EmptyFormTyped ==
    /\ C!emptyForm \in C!Contents
    /\ C!emptyForm.of = NoId
    /\ C!Payload(C!emptyForm) = C!emptyForm
<1>1. C!emptyForm \in C!Contents /\ C!emptyForm.of = NoId /\ C!emptyForm.times = "none"
  BY DEF C!emptyForm, C!Contents
<1>2. [C!emptyForm EXCEPT !.times = "none"] = C!emptyForm
  BY <1>1 DEF C!Contents
<1>3. QED BY <1>1, <1>2 DEF C!Payload

\* What is made of a form that was sent is its closure's, and accepted if the form was.
LEMMA MadeOwn ==
    ASSUME NEW f \in C!Contents, C!Payload(f) = f, NEW i \in Ids
    PROVE  LET made == [f EXCEPT !.of = i]
           IN  /\ made \in C!Contents /\ made.of = i
               /\ C!Payload(made) = made
               /\ C!Acceptable(f) => C!Acceptable(made)
<1> DEFINE made == [f EXCEPT !.of = i]
<1>1. /\ made \in C!Contents /\ made.of = i /\ made.dates = f.dates /\ made.times = f.times
      /\ made.all_day = f.all_day
  BY DEF C!Contents
<1>2. f.all_day => f.times = "none"
  <2>1. ASSUME f.all_day
        PROVE  f.times = "none"
    <3>1. [f EXCEPT !.times = "none"].times = "none"
      BY DEF C!Contents
    <3>2. QED BY <2>1, <3>1 DEF C!Payload
  <2>2. QED BY <2>1
<1>3. made.times = "none" => [made EXCEPT !.times = "none"] = made
  BY <1>1 DEF C!Contents
<1> HIDE DEF made
<1>4. C!Payload(made) = made
  BY <1>1, <1>2, <1>3 DEF C!Payload
<1>5. C!Acceptable(f) => C!Acceptable(made)
  BY <1>1 DEF C!Acceptable
<1>6. QED BY <1>1, <1>4, <1>5 DEF made

\* What the page opens with, and what it is left with.
LEMMA ClosuresShut ==
    ASSUME C!AdminClosuresAssumption, page \in C!Pages,
           closures = C!None, used = {}, rows = C!None, reading = "sent", answer = C!None,
           creating = FALSE, editing = NoId, panel = C!emptyForm, saving = 0, requests = {},
           sends = 0, changes = 0
    PROVE  ClosuresInv
<1>1. ServerOK /\ RowsOK
  BY NoneOwn DEF ServerOK, RowsOK
<1>2. PanelOK
  BY EmptyFormTyped DEF PanelOK
<1>3. RequestsOK
  BY DEF RequestsOK, C!AdminClosuresAssumption
<1>4. QED BY <1>1, <1>2, <1>3 DEF ClosuresInv

LEMMA ClosuresInit ==
    ASSUME C!AdminClosuresAssumption, C!Closed
    PROVE  ClosuresInv
BY ClosuresShut DEF C!Closed, C!Pages

LEMMA ClosuresLeave ==
    ASSUME C!AdminClosuresAssumption, C!Leave
    PROVE  ClosuresInv'
<1>1. page' \in C!Pages
  BY DEF C!Leave, C!Pages
<1>2. ServerOK' /\ RowsOK'
  BY NoneOwn DEF C!Leave, ServerOK, RowsOK
<1>3. PanelOK'
  BY EmptyFormTyped DEF C!Leave, PanelOK
<1>4. RequestsOK'
  BY DEF C!Leave, RequestsOK, C!AdminClosuresAssumption
<1>5. QED BY <1>1, <1>2, <1>3, <1>4 DEF ClosuresInv

\* The page opens on closures made in forms of their own.
LEMMA ClosuresOpen ==
    ASSUME ClosuresInv, C!Open
    PROVE  ClosuresInv'
<1>1. PICK s \in SUBSET Ids : used' = s /\ closures' = [i \in s |-> C!Sound(i)]
  BY DEF C!Open
<1>2. \A i \in Ids : /\ C!Sound(i) \in C!Contents /\ C!Sound(i).of = i
                    /\ C!Acceptable(C!Sound(i)) /\ C!Payload(C!Sound(i)) = C!Sound(i)
  <2>1. TAKE i \in Ids
  <2>2. /\ C!Sound(i) \in C!Contents /\ C!Sound(i).of = i /\ C!Sound(i).times = "none"
        /\ C!Sound(i).all_day /\ C!Sound(i).dates = "ordered"
    BY DEF C!Sound, C!Contents
  <2>3. [C!Sound(i) EXCEPT !.times = "none"] = C!Sound(i)
    BY <2>2 DEF C!Contents
  <2>4. QED BY <2>2, <2>3 DEF C!Payload, C!Acceptable
<1>3. ServerOK'
  BY <1>1, <1>2 DEF ServerOK, C!IsTable, Own
<1>4. page' \in C!Pages /\ RowsOK' /\ PanelOK' /\ RequestsOK'
  BY DEF ClosuresInv, C!Open, C!Pages, RowsOK, PanelOK, RequestsOK, RequestOK, C!listVars,
         C!panelVars
<1>5. QED BY <1>3, <1>4 DEF ClosuresInv

(***************************************************************************)
(* What a closures page that is open does to each part.                    *)
(***************************************************************************)
LEMMA PutStored ==
    ASSUME ServerOK, NEW i \in Ids, NEW x \in C!Contents, x.of = i, C!Acceptable(x),
           C!Payload(x) = x, closures' = C!Put(closures, i, x), used' = used \cup {i}
    PROVE  ServerOK'
<1>1. C!IsTable(closures) /\ Own(closures)
  BY DEF ServerOK
<1>2. /\ C!IsTable(closures') /\ Own(closures')
      /\ DOMAIN closures' = DOMAIN closures \cup {i}
      /\ closures'[i] = x
      /\ \A j \in DOMAIN closures \ {i} : closures'[j] = closures[j]
  <2>1. C!IsTable(C!Put(closures, i, x)) /\ Own(C!Put(closures, i, x))
    BY <1>1, PutOwn, Zenon
  <2>2. /\ DOMAIN closures' = DOMAIN closures \cup {i}
        /\ closures'[i] = x
        /\ \A j \in DOMAIN closures \ {i} : closures'[j] = closures[j]
    BY DEF C!Put
  <2>3. QED BY <2>1, <2>2
<1>3. \A j \in DOMAIN closures' : C!Acceptable(closures'[j]) /\ C!Payload(closures'[j]) = closures'[j]
  <2>1. TAKE j \in DOMAIN closures'
  <2>2. CASE j = i
    BY <1>2, <2>2
  <2>3. CASE j # i
    <3>1. j \in DOMAIN closures /\ closures'[j] = closures[j]
      BY <1>2, <2>3
    <3>2. QED BY <3>1 DEF ServerOK
  <2>4. QED BY <2>2, <2>3
<1>4. DOMAIN closures' \subseteq used' /\ used' \subseteq Ids
  BY <1>2 DEF ServerOK
<1>5. QED BY <1>2, <1>3, <1>4 DEF ServerOK

LEMMA WithoutStored ==
    ASSUME ServerOK, NEW i, closures' = C!Without(closures, i), used' = used
    PROVE  ServerOK'
<1>1. C!IsTable(closures) /\ Own(closures)
  BY DEF ServerOK
<1>2. /\ C!IsTable(closures') /\ Own(closures')
      /\ DOMAIN closures' = DOMAIN closures \ {i}
      /\ \A j \in DOMAIN closures \ {i} : closures'[j] = closures[j]
  BY <1>1, WithoutOwn
<1>3. \A j \in DOMAIN closures' : C!Acceptable(closures'[j]) /\ C!Payload(closures'[j]) = closures'[j]
  <2>1. TAKE j \in DOMAIN closures'
  <2>2. j \in DOMAIN closures /\ closures'[j] = closures[j]
    BY <1>2
  <2>3. QED BY <2>2 DEF ServerOK
<1>4. DOMAIN closures' \subseteq used' /\ used' \subseteq Ids
  BY <1>2 DEF ServerOK
<1>5. QED BY <1>2, <1>3, <1>4 DEF ServerOK

LEMMA ServerKept ==
    ASSUME C!AdminClosuresAssumption, ClosuresInv, C!Stay
    PROVE  ServerOK'
<1>1. ServerOK /\ RequestsOK
  BY DEF ClosuresInv
<1>2. ASSUME NEW c \in requests, C!ServeCreate(c)
      PROVE  ServerOK'
  <2>1. PICK i \in Ids :
          /\ used' = used \cup {i}
          /\ closures' = C!Put(closures, i, [c.form EXCEPT !.of = i])
    BY <1>2 DEF C!ServeCreate
  <2>2. c.form \in C!Contents /\ C!Payload(c.form) = c.form /\ C!Acceptable(c.form)
    BY <1>1, <1>2 DEF RequestsOK, Requests, RequestOK, C!ServeCreate
  <2> DEFINE made == [c.form EXCEPT !.of = i]
  <2>3. /\ made \in C!Contents /\ made.of = i /\ C!Payload(made) = made
        /\ C!Acceptable(made) /\ closures' = C!Put(closures, i, made)
    BY <2>1, <2>2, MadeOwn
  <2> HIDE DEF made
  <2>4. QED BY <1>1, <2>1, <2>3, PutStored
<1>3. ASSUME NEW c \in requests, C!ServeUpdate(c)
      PROVE  ServerOK'
  <2>1. /\ closures' = C!Put(closures, c.id, c.form) /\ c.id \in DOMAIN closures
        /\ C!Acceptable(c.form) /\ c.kind = "update" /\ UNCHANGED used
    BY <1>3 DEF C!ServeUpdate
  <2>2. c.form \in C!Contents /\ C!Payload(c.form) = c.form /\ c.form.of = c.id /\ c.id \in Ids
    BY <1>1, <1>3, <2>1 DEF RequestsOK, Requests, RequestOK
  <2>3. used' = used \cup {c.id}
    BY <1>1, <2>1 DEF ServerOK
  <2>4. QED BY <1>1, <2>1, <2>2, <2>3, PutStored
<1>4. ASSUME NEW c \in requests, C!ServeDelete(c)
      PROVE  ServerOK'
  <2>1. closures' = C!Without(closures, c.id) /\ UNCHANGED used
    BY <1>4 DEF C!ServeDelete
  <2>2. QED BY <1>1, <2>1, WithoutStored
<1>5. CASE C!Others
  <2>1. PICK i \in DOMAIN closures :
          \/ closures' = C!Without(closures, i)
          \/ closures' = C!Put(closures, i,
                               [C!Sound(i) EXCEPT !.all_day = FALSE, !.times = "ordered"])
    BY <1>5 DEF C!Others
  <2>2. used' = used /\ used' = used \cup {i} /\ i \in Ids
    BY <1>1, <1>5 DEF C!Others, ServerOK
  <2>3. CASE closures' = C!Without(closures, i)
    BY <1>1, <2>2, <2>3, WithoutStored
  <2> DEFINE timed == [C!Sound(i) EXCEPT !.all_day = FALSE, !.times = "ordered"]
  <2>4. /\ timed \in C!Contents /\ timed.of = i /\ timed.all_day = FALSE
        /\ timed.times = "ordered" /\ timed.dates = "ordered"
    BY <2>2 DEF C!Sound, C!Contents
  <2> HIDE DEF timed
  <2>5. C!Acceptable(timed) /\ C!Payload(timed) = timed
    BY <2>4 DEF C!Acceptable, C!Payload
  <2>6. CASE closures' = C!Put(closures, i, timed)
    BY <1>1, <2>2, <2>4, <2>5, <2>6, PutStored
  <2>7. QED BY <2>1, <2>3, <2>6 DEF timed
<1>6. CASE UNCHANGED <<closures, used>>
  BY <1>1, <1>6 DEF ServerOK
<1>7. (\/ C!ServeList \/ C!ListArrives \/ C!ListFails \/ C!AddClosure \/ C!Cancel \/ C!Change
       \/ C!Submit \/ (\E i \in Ids : C!EditClosure(i) \/ C!Delete(i)))
      => UNCHANGED <<closures, used>>
  BY DEF C!ServeList, C!ListArrives, C!ListFails, C!AddClosure, C!Cancel, C!Change, C!Submit,
         C!EditClosure, C!Delete, C!serverVars
<1>8. \A c \in requests :
        C!Refuse(c) \/ C!CreateDone(c) \/ C!UpdateDone(c) \/ C!DeleteDone(c) \/ C!CallRefused(c)
        => UNCHANGED <<closures, used>>
  BY DEF C!Refuse, C!CreateDone, C!UpdateDone, C!DeleteDone, C!CallRefused, C!Answered,
         C!serverVars
<1>9. QED BY <1>2, <1>3, <1>4, <1>5, <1>6, <1>7, <1>8 DEF C!Stay
LEMMA RowsKept ==
    ASSUME C!AdminClosuresAssumption, ClosuresInv, C!Stay
    PROVE  RowsOK'
<1>1. ServerOK /\ RowsOK /\ RequestsOK
  BY DEF ClosuresInv
<1>2. CASE C!ServeList
  BY <1>1, <1>2 DEF C!ServeList, RowsOK, ServerOK
<1>3. CASE C!ListArrives \/ C!ListFails
  BY <1>1, <1>3, NoneOwn DEF C!ListArrives, C!ListFails, RowsOK
<1>4. ASSUME NEW c \in requests, C!CreateDone(c) \/ C!UpdateDone(c)
      PROVE  RowsOK'
  <2>1. rows' \in {rows, C!Put(rows, c.id, c.form)} /\ UNCHANGED <<reading, answer>>
    BY <1>4 DEF C!CreateDone, C!UpdateDone, C!Answered
  <2>2. c.id \in Ids /\ c.form \in C!Contents /\ c.form.of = c.id
    BY <1>1, <1>4 DEF RequestsOK, Requests, RequestOK, C!CreateDone, C!UpdateDone
  <2>3. C!IsTable(rows) /\ Own(rows)
    BY <1>1 DEF RowsOK
  <2> DEFINE t == C!Put(rows, c.id, c.form)
  <2>4. C!IsTable(t) /\ Own(t)
    BY <2>2, <2>3, PutOwn, Zenon
  <2>5. C!IsTable(rows') /\ Own(rows')
    BY <2>1, <2>3, <2>4
  <2>6. QED BY <1>1, <2>1, <2>5 DEF RowsOK
<1>5. ASSUME NEW c \in requests, C!DeleteDone(c)
      PROVE  RowsOK'
  <2>1. rows' = C!Without(rows, c.id) /\ UNCHANGED <<reading, answer>>
    BY <1>5 DEF C!DeleteDone, C!Answered
  <2>2. C!IsTable(rows') /\ Own(rows')
    BY <1>1, <2>1, WithoutOwn DEF RowsOK
  <2>3. QED BY <1>1, <2>1, <2>2 DEF RowsOK
<1>6. CASE UNCHANGED <<rows, reading, answer>>
  BY <1>1, <1>6 DEF RowsOK
<1>7. (\/ C!AddClosure \/ C!Cancel \/ C!Change \/ C!Submit \/ C!Others
       \/ (\E i \in Ids : C!EditClosure(i) \/ C!Delete(i)))
      => UNCHANGED <<rows, reading, answer>>
  BY DEF C!AddClosure, C!Cancel, C!Change, C!Submit, C!Others, C!EditClosure, C!Delete,
         C!listVars
<1>8. \A c \in requests :
        C!ServeCreate(c) \/ C!ServeUpdate(c) \/ C!ServeDelete(c) \/ C!Refuse(c) \/ C!CallRefused(c)
        => UNCHANGED <<rows, reading, answer>>
  BY DEF C!ServeCreate, C!ServeUpdate, C!ServeDelete, C!Refuse, C!ServerStep, C!CallRefused,
         C!Answered, C!listVars
<1>9. QED BY <1>2, <1>3, <1>4, <1>5, <1>6, <1>7, <1>8 DEF C!Stay

LEMMA PanelKept ==
    ASSUME C!AdminClosuresAssumption, ClosuresInv, C!Stay
    PROVE  PanelOK'
<1>1. RowsOK /\ PanelOK
  BY DEF ClosuresInv
<1>2. CASE C!AddClosure
  BY <1>2, EmptyFormTyped DEF C!AddClosure, PanelOK
<1>3. ASSUME NEW i \in Ids, C!EditClosure(i)
      PROVE  PanelOK'
  <2>1. /\ editing' = i /\ creating' = FALSE /\ panel' = rows[i] /\ i \in DOMAIN rows
    BY <1>3 DEF C!EditClosure, C!Row
  <2>2. rows[i] \in C!Contents /\ rows[i].of = i
    BY <1>1, <2>1 DEF RowsOK, C!IsTable, Own
  <2>3. QED BY <2>1, <2>2 DEF PanelOK
<1>4. CASE C!ClosePanel
  BY <1>4, EmptyFormTyped DEF C!ClosePanel, PanelOK
<1>5. CASE C!Change
  <2>1. /\ UNCHANGED <<creating, editing>>
        /\ \/ \E d \in {"ordered", "reversed"} : panel' = [panel EXCEPT !.dates = d]
           \/ panel' = [panel EXCEPT !.all_day = ~@]
           \/ \E t \in {"ordered", "reversed"} : panel' = [panel EXCEPT !.times = t]
    BY <1>5 DEF C!Change
  <2>2. panel \in C!Contents /\ panel.of = editing
    BY <1>1 DEF PanelOK
  <2>3. panel' \in C!Contents /\ panel'.of = panel.of
    <3>1. /\ \A d \in {"ordered", "reversed"} :
               /\ [panel EXCEPT !.dates = d] \in C!Contents
               /\ [panel EXCEPT !.dates = d].of = panel.of
               /\ [panel EXCEPT !.times = d] \in C!Contents
               /\ [panel EXCEPT !.times = d].of = panel.of
      BY <2>2 DEF C!Contents
    <3>2. /\ [panel EXCEPT !.all_day = ~@] \in C!Contents
          /\ [panel EXCEPT !.all_day = ~@].of = panel.of
      BY <2>2 DEF C!Contents
    <3>3. QED BY <2>1, <3>1, <3>2
  <2>4. QED BY <1>1, <2>1, <2>2, <2>3 DEF PanelOK
<1>6. CASE UNCHANGED <<creating, editing, panel>>
  BY <1>1, <1>6 DEF PanelOK
<1>7. (\/ C!ServeList \/ C!ListArrives \/ C!ListFails \/ C!Submit \/ C!Others
       \/ (\E i \in Ids : C!Delete(i)))
      => UNCHANGED <<creating, editing, panel>>
  BY DEF C!ServeList, C!ListArrives, C!ListFails, C!Submit, C!Others, C!Delete, C!panelVars
<1>8. \A c \in requests :
        C!ServeCreate(c) \/ C!ServeUpdate(c) \/ C!ServeDelete(c) \/ C!Refuse(c)
          \/ C!DeleteDone(c) \/ C!CallRefused(c)
        => UNCHANGED <<creating, editing, panel>>
  BY DEF C!ServeCreate, C!ServeUpdate, C!ServeDelete, C!Refuse, C!ServerStep, C!DeleteDone,
         C!CallRefused, C!panelVars
<1>9. \A c \in requests :
        C!CreateDone(c) \/ C!UpdateDone(c)
        => C!ClosePanel \/ UNCHANGED <<creating, editing, panel>>
  BY DEF C!CreateDone, C!UpdateDone, C!panelVars
<1>10. C!Cancel => C!ClosePanel
  BY DEF C!Cancel
<1>11. QED BY <1>2, <1>3, <1>4, <1>5, <1>6, <1>7, <1>8, <1>9, <1>10 DEF C!Stay

LEMMA RequestsKept ==
    ASSUME C!AdminClosuresAssumption, ClosuresInv, C!Stay
    PROVE  RequestsOK'
<1>1. RowsOK /\ PanelOK /\ RequestsOK
  BY DEF ClosuresInv
<1>2. saving \in 0 .. sends /\ sends \in Nat /\ changes \in 0 .. MaxChanges
      /\ MaxSends \in Nat /\ MaxChanges \in Nat /\ sends \in 0 .. MaxSends
  BY <1>1 DEF RequestsOK, C!AdminClosuresAssumption
<1>3. ASSUME NEW kind \in {"create", "update", "delete"}, NEW id \in Ids \cup {NoId},
             NEW content \in C!Contents, C!Payload(content) = content,
             kind # "create" => id \in Ids, kind = "update" => content.of = id,
             C!Send(kind, id, content), saving' \in {saving, sends + 1}, changes' = changes
      PROVE  RequestsOK'
  <2> DEFINE c == [kind |-> kind, id |-> id, form |-> content, no |-> sends + 1,
                   outcome |-> "sent"]
  <2>1. /\ c \in Requests /\ c.no = sends + 1 /\ c.kind = kind /\ c.id = id
        /\ c.form = content /\ c.outcome = "sent"
    BY <1>2 DEF Requests
  <2>2. requests' = requests \cup {c} /\ sends' = sends + 1 /\ sends < MaxSends
    BY <1>3 DEF C!Send
  <2> HIDE DEF c
  <2>3. RequestOK(c)
    BY <1>3, <2>1 DEF RequestOK
  <2>4. saving' \in 0 .. sends' /\ sends' \in 0 .. MaxSends /\ changes' \in 0 .. MaxChanges
    BY <1>2, <1>3, <2>2
  <2>5. \A d \in requests' : d \in Requests /\ d.no \in 1 .. sends' /\ RequestOK(d)
    BY <1>1, <1>2, <2>1, <2>2, <2>3 DEF RequestsOK
  <2>6. QED BY <2>4, <2>5 DEF RequestsOK
<1>4. CASE C!Submit
  <2>1. /\ C!Send(IF creating THEN "create" ELSE "update", editing, C!Payload(panel))
        /\ saving' = sends + 1 /\ UNCHANGED changes
        /\ creating \/ editing \in DOMAIN rows
    BY <1>4 DEF C!Submit, C!PanelOpen
  <2>2. /\ panel \in C!Contents /\ panel.of = editing /\ editing \in Ids \cup {NoId}
        /\ ~creating => editing \in Ids
    BY <1>1, <2>1 DEF PanelOK, RowsOK, C!IsTable
  <2>3. /\ C!Payload(panel) \in C!Contents /\ C!Payload(panel).of = editing
        /\ C!Payload(C!Payload(panel)) = C!Payload(panel)
    BY <2>2, PayloadOwn
  <2>4. QED BY <1>3, <2>1, <2>2, <2>3
<1>5. ASSUME NEW i \in Ids, C!Delete(i)
      PROVE  RequestsOK'
  <2>1. C!Send("delete", i, C!emptyForm) /\ UNCHANGED <<saving, changes>>
    BY <1>5 DEF C!Delete, C!panelVars
  <2>2. QED BY <1>3, <2>1, EmptyFormTyped
<1>6. ASSUME NEW c \in requests, NEW d \in Requests, C!Settled(c, d), RequestOK(d), d.no = c.no,
             UNCHANGED <<saving, sends, changes>>
      PROVE  RequestsOK'
  BY <1>1, <1>6 DEF C!Settled, RequestsOK
<1>7. ASSUME NEW c \in requests, C!ServeCreate(c)
      PROVE  RequestsOK'
  <2>1. PICK i \in Ids :
          C!Settled(c, [c EXCEPT !.id = i, !.form = [c.form EXCEPT !.of = i], !.outcome = "done"])
    BY <1>7 DEF C!ServeCreate
  <2>2. /\ c \in Requests /\ RequestOK(c) /\ c.form \in C!Contents /\ c.kind = "create"
        /\ C!Payload(c.form) = c.form
        /\ UNCHANGED <<saving, sends, changes>>
    BY <1>1, <1>7 DEF RequestsOK, Requests, RequestOK, C!ServeCreate, C!ServerStep, C!panelVars
  <2> DEFINE made == [c.form EXCEPT !.of = i]
  <2>3. made \in C!Contents /\ made.of = i /\ C!Payload(made) = made
    BY <2>2, MadeOwn
  <2> HIDE DEF made
  <2> DEFINE d == [c EXCEPT !.id = i, !.form = made, !.outcome = "done"]
  <2>4. d \in Requests /\ d.id = i /\ d.form = made /\ d.kind = c.kind /\ d.no = c.no
    BY <2>2, <2>3 DEF Requests
  <2>5. C!Settled(c, d)
    BY <2>1 DEF made
  <2> HIDE DEF d
  <2>6. RequestOK(d)
    BY <2>2, <2>3, <2>4 DEF RequestOK
  <2>7. QED BY <1>6, <2>2, <2>4, <2>5, <2>6
<1>8. ASSUME NEW c \in requests, C!ServeUpdate(c) \/ C!ServeDelete(c) \/ C!Refuse(c)
      PROVE  RequestsOK'
  <2>1. PICK o \in {"done", "refused"} : C!Settled(c, [c EXCEPT !.outcome = o])
                                        /\ (o = "done" => c.kind # "create")
    BY <1>8 DEF C!ServeUpdate, C!ServeDelete, C!Refuse
  <2>2. c \in Requests /\ RequestOK(c) /\ UNCHANGED <<saving, sends, changes>>
    BY <1>1, <1>8 DEF RequestsOK, C!ServeUpdate, C!ServeDelete, C!Refuse, C!ServerStep,
                      C!panelVars
  <2> DEFINE d == [c EXCEPT !.outcome = o]
  <2>3. /\ d \in Requests /\ d.id = c.id /\ d.form = c.form /\ d.kind = c.kind /\ d.no = c.no
        /\ d.outcome = o
    BY <2>2 DEF Requests
  <2>4. C!Settled(c, d)
    BY <2>1
  <2> HIDE DEF d
  <2>5. RequestOK(d)
    BY <2>1, <2>2, <2>3 DEF RequestOK
  <2>6. QED BY <1>6, <2>2, <2>3, <2>4, <2>5
<1>9. ASSUME requests' \subseteq requests, saving' \in {saving, 0}, sends' = sends,
             changes' \in 0 .. MaxChanges
      PROVE  RequestsOK'
  BY <1>1, <1>2, <1>9 DEF RequestsOK
<1>10. ASSUME NEW c \in requests,
              C!CreateDone(c) \/ C!UpdateDone(c) \/ C!DeleteDone(c) \/ C!CallRefused(c)
       PROVE  RequestsOK'
  <2>1. requests' \subseteq requests /\ UNCHANGED <<sends, changes>>
    BY <1>10 DEF C!CreateDone, C!UpdateDone, C!DeleteDone, C!CallRefused, C!Answered
  <2>2. saving' \in {saving, 0}
    BY <1>10 DEF C!CreateDone, C!UpdateDone, C!DeleteDone, C!CallRefused, C!ClosePanel, C!panelVars
  <2>3. QED BY <1>2, <1>9, <2>1, <2>2
<1>11. CASE \/ C!ServeList \/ C!ListArrives \/ C!ListFails \/ C!AddClosure \/ C!Cancel
            \/ \E i \in Ids : C!EditClosure(i)
  <2>1. UNCHANGED <<requests, sends, changes>> /\ saving' \in {saving, 0}
    BY <1>11 DEF C!ServeList, C!ListArrives, C!ListFails, C!AddClosure, C!Cancel, C!ClosePanel,
                 C!EditClosure, C!panelVars
  <2>2. QED BY <1>2, <1>9, <2>1
<1>12. CASE C!Change \/ C!Others
  <2>1. UNCHANGED <<requests, sends, saving>> /\ changes < MaxChanges /\ changes' = changes + 1
    BY <1>12 DEF C!Change, C!Others, C!panelVars
  <2>2. changes' \in 0 .. MaxChanges
    BY <1>2, <2>1
  <2>3. QED BY <1>9, <2>1, <2>2
<1>13. QED BY <1>4, <1>5, <1>7, <1>8, <1>10, <1>11, <1>12 DEF C!Stay

LEMMA ClosuresStay ==
    ASSUME C!AdminClosuresAssumption, ClosuresInv, C!Stay, page' = page
    PROVE  ClosuresInv'
BY ServerKept, RowsKept, PanelKept, RequestsKept DEF ClosuresInv, C!Pages

\* What the other pages do.
LEMMA ClosuresAside ==
    ASSUME ClosuresInv, UNCHANGED closuresVars, page' \in C!Pages
    PROVE  ClosuresInv'
<1>1. ServerOK' /\ RowsOK'
  BY DEF ClosuresInv, closuresVars, ServerOK, RowsOK
<1>2. PanelOK' /\ RequestsOK'
  BY DEF ClosuresInv, closuresVars, PanelOK, RequestsOK, RequestOK
<1>3. QED BY <1>1, <1>2 DEF ClosuresInv
(***************************************************************************)
(* The pages of the console are those of the other two proofs.             *)
(***************************************************************************)
LEMMA BookingsAssumed == B!AdminBookingsAssumption => BP!AdminBookingsAssumption
BY
  DEF B!AdminBookingsAssumption, BP!AdminBookingsAssumption, B!Status, BP!Status,
      B!IsFiniteSet, BP!IsFiniteSet

LEMMA BookingsCloses == B!Closed => BP!Closed
BY
  DEF B!Closed, BP!Closed, B!Everything, BP!Everything, B!NoModal, BP!NoModal,
      B!SomeLength, BP!SomeLength

LEMMA BookingsTyped == BP!TypeOK => B!TypeOK
BY
  DEF B!TypeOK, BP!TypeOK, B!Pages, BP!Pages, B!Status, BP!Status, B!Filters, BP!Filters,
      B!Days, BP!Days, B!Rows, BP!Rows, B!Calls, BP!Calls

LEMMA BookingsListed == BP!ListMatchesFilter => B!ListMatchesFilter
BY
  DEF B!ListMatchesFilter, BP!ListMatchesFilter, B!Matches, BP!Matches, B!NewestUnderWay,
      BP!NewestUnderWay

LEMMA BookingsSteps == B!Open \/ B!Leave \/ B!Stay => BP!Next
BY
  DEF B!Open, BP!Open, B!Leave, BP!Leave, B!Stay, BP!Stay, B!Next, BP!Next, B!Status,
      BP!Status, B!Days, BP!Days, B!Everything, BP!Everything, B!NoModal, BP!NoModal,
      B!Mounted, BP!Mounted, B!Matches, BP!Matches, B!Load, BP!Load, B!SettingsArrive,
      BP!SettingsArrive, B!Uncovered, BP!Uncovered, B!SetFilter, BP!SetFilter,
      B!ChangeFilter, BP!ChangeFilter, B!ServeList, BP!ServeList, B!ListArrives,
      BP!ListArrives, B!ListFails, BP!ListFails, B!Offered, BP!Offered, B!Clickable,
      BP!Clickable, B!OpenModal, BP!OpenModal, B!CloseModal, BP!CloseModal, B!Larger,
      BP!Larger, B!ShownHours, BP!ShownHours, B!Wrapped, BP!Wrapped, B!AutoAmount,
      BP!AutoAmount, B!Send, BP!Send, B!Confirm, BP!Confirm, B!MarkDone, BP!MarkDone,
      B!OutcomeOf, BP!OutcomeOf, B!Settled, BP!Settled, B!ServerStep, BP!ServerStep,
      B!ServePatch, BP!ServePatch, B!ServeCharge, BP!ServeCharge, B!Refuse, BP!Refuse,
      B!Replaced, BP!Replaced, B!CallDone, BP!CallDone, B!CallRefused, BP!CallRefused,
      B!Others, BP!Others, B!serverVars, BP!serverVars, B!listVars, BP!listVars,
      B!callVars, BP!callVars, B!NewestUnderWay, BP!NewestUnderWay, B!SomeLength,
      BP!SomeLength

LEMMA SettingsAssumed == S!AdminSettingsAssumption => SP!AdminSettingsAssumption
BY
  DEF S!AdminSettingsAssumption, SP!AdminSettingsAssumption, S!IsFiniteSet, SP!IsFiniteSet

LEMMA SettingsCloses == S!Closed => SP!Closed
BY
  DEF S!Closed, SP!Closed, S!Initial, SP!Initial, S!NoPut, SP!NoPut, S!Fields, SP!Fields,
      S!Plain, SP!Plain

LEMMA SettingsTyped == SP!TypeOK => S!TypeOK
BY
  DEF S!TypeOK, SP!TypeOK, S!Pages, SP!Pages, S!IsForm, SP!IsForm, S!Fields, SP!Fields,
      S!Plain, SP!Plain, S!Gates, SP!Gates, S!Windows, SP!Windows, S!Restrictions,
      SP!Restrictions, S!Acceptable, SP!Acceptable, S!WholeRestriction,
      SP!WholeRestriction, S!Cleared, SP!Cleared, S!SoundSchedule, SP!SoundSchedule,
      S!Overlap, SP!Overlap, S!Parsed, SP!Parsed, S!SECTIONS, SP!SECTIONS, S!IsInjective,
      SP!IsInjective

LEMMA SettingsShown == SP!NoUnsavedChangeIsHidden => S!NoUnsavedChangeIsHidden
BY
  DEF S!NoUnsavedChangeIsHidden, SP!NoUnsavedChangeIsHidden, S!DirtyFields, SP!DirtyFields,
      S!Fields, SP!Fields, S!Plain, SP!Plain

LEMMA SettingsSteps == S!Open \/ S!Leave \/ S!Stay => SP!Next
BY
  DEF S!Open, SP!Open, S!Leave, SP!Leave, S!Stay, SP!Stay, S!Next, SP!Next, S!pageVars,
      SP!pageVars, S!Initial, SP!Initial, S!Stored, SP!Stored, S!Fields, SP!Fields,
      S!Plain, SP!Plain, S!SECTIONS, SP!SECTIONS, S!Windows, SP!Windows, S!SoundSchedule,
      SP!SoundSchedule, S!Overlap, SP!Overlap, S!Acceptable, SP!Acceptable, S!Parsed,
      SP!Parsed, S!Cleared, SP!Cleared, S!Restrictions, SP!Restrictions,
      S!WholeRestriction, SP!WholeRestriction, S!NoPut, SP!NoPut, S!Mounted, SP!Mounted,
      S!SettingsArrive, SP!SettingsArrive, S!GoToSection, SP!GoToSection, S!Edit, SP!Edit,
      S!Type, SP!Type, S!EditRestriction, SP!EditRestriction, S!EditGate, SP!EditGate,
      S!OnDay, SP!OnDay, S!ByWeekday, SP!ByWeekday, S!Schedule, SP!Schedule,
      S!EditSchedule, SP!EditSchedule, S!EditSources, SP!EditSources, S!Payload,
      SP!Payload, S!Complete, SP!Complete, S!HandleSubmit, SP!HandleSubmit, S!ServePut,
      SP!ServePut, S!SaveAnswered, SP!SaveAnswered, S!SaveRefused, SP!SaveRefused,
      S!SaveLost, SP!SaveLost, S!OthersSave, SP!OthersSave, S!SetToSeqs, SP!SetToSeqs,
      S!Cardinality, SP!Cardinality, S!Range, SP!Range, S!RemoveAt, SP!RemoveAt
(***************************************************************************)
(* The console: one page is open at a time.                                *)
(***************************************************************************)
IInv == BP!PageInv /\ SP!PageInv /\ ClosuresInv

LEMMA Assumed ==
    /\ BP!AdminBookingsAssumption
    /\ SP!AdminSettingsAssumption
    /\ C!AdminClosuresAssumption
BY AdminConsoleAssumption, BookingsAssumed, SettingsAssumed

\* A page opens from none and leaves none; while it is open no other moves.
LEMMA BookingsMoves ==
    ASSUME B!Open \/ B!Leave \/ B!Stay
    PROVE  page' = page \/ (page = "none" /\ page' = "bookings")
                        \/ (page = "bookings" /\ page' = "none")
BY DEF B!Open, B!Leave, B!Stay, B!Mounted, B!SettingsArrive, B!SetFilter, B!ChangeFilter,
       B!ServeList, B!ListArrives, B!ListFails, B!OpenModal, B!CloseModal, B!Confirm, B!MarkDone,
       B!ServerStep, B!ServePatch, B!ServeCharge, B!Refuse, B!CallDone, B!CallRefused, B!Others

LEMMA SettingsMoves ==
    ASSUME S!Open \/ S!Leave \/ S!Stay
    PROVE  page' = page \/ (page = "none" /\ page' = "settings")
                        \/ (page = "settings" /\ page' = "none")
BY DEF S!Open, S!Leave, S!Stay, S!Mounted, S!SettingsArrive, S!GoToSection, S!Edit, S!Type,
       S!EditRestriction, S!EditGate, S!Schedule, S!EditSchedule, S!EditSources, S!HandleSubmit,
       S!ServePut, S!SaveAnswered, S!SaveRefused, S!SaveLost, S!OthersSave

LEMMA ClosuresMoves ==
    /\ C!Open => page = "none" /\ page' = "closures"
    /\ C!Leave => page = "closures" /\ page' = "none"
    /\ C!Stay => page' = page
BY DEF C!Open, C!Leave, C!Stay, C!Mounted, C!ServeList, C!ListArrives, C!ListFails, C!AddClosure,
       C!EditClosure, C!Cancel, C!Change, C!Submit, C!Delete, C!ServerStep, C!ServeCreate,
       C!ServeUpdate, C!ServeDelete, C!Refuse, C!Answered, C!CreateDone, C!UpdateDone,
       C!DeleteDone, C!CallRefused, C!Others

\* The bookings page while another moves.
LEMMA BookingsAside ==
    ASSUME BP!PageInv, UNCHANGED bookingsVars, page' \in BP!Pages,
           page' = page \/ (page # "bookings" /\ page' # "bookings")
    PROVE  BP!PageInv'
<1>1. CASE page' = page
  <2>1. UNCHANGED BP!vars
    BY <1>1 DEF bookingsVars, BP!vars, BP!serverVars, BP!listVars, BP!callVars
  <2>2. QED BY <2>1, BP!PageStutters
<1>2. CASE page # "bookings" /\ page' # "bookings"
  <2>1. UNCHANGED <<BP!serverVars, BP!listVars, seenRate, BP!callVars>>
    BY DEF bookingsVars, BP!serverVars, BP!listVars, BP!callVars
  <2>2. ~BP!Mounted
    BY <1>2 DEF BP!Mounted
  <2>3. QED BY <1>2, <2>1, <2>2, BP!PageAside
<1>3. QED BY <1>1, <1>2

LEMMA SettingsAside ==
    ASSUME SP!PageInv, UNCHANGED settingsVars, page' \in SP!Pages,
           page' = page \/ page # "settings"
    PROVE  SP!PageInv'
<1>1. CASE page' = page
  <2>1. UNCHANGED SP!vars
    BY <1>1 DEF settingsVars, SP!vars, SP!pageVars
  <2>2. QED BY <2>1, SP!PageStutters
<1>2. CASE page # "settings"
  <2>1. UNCHANGED <<stored, SP!pageVars, outdated, edits>>
    BY DEF settingsVars, SP!pageVars
  <2>2. ~SP!Mounted
    BY <1>2 DEF SP!Mounted
  <2>3. QED BY <2>1, <2>2, SP!PageAside
<1>3. QED BY <1>1, <1>2

LEMMA PagesAgree ==
    /\ BP!Pages = {"none", "bookings", "settings", "closures"}
    /\ SP!Pages = {"none", "bookings", "settings", "closures"}
    /\ C!Pages = {"none", "bookings", "settings", "closures"}
BY DEF BP!Pages, SP!Pages, C!Pages

LEMMA InvInit ==
    ASSUME Init
    PROVE  IInv
<1>1. B!Closed /\ S!Closed /\ C!Closed
  BY DEF Init
<1>2. BP!PageInv
  BY <1>1, Assumed, BookingsCloses, BP!PageInit
<1>3. SP!PageInv
  BY <1>1, Assumed, SettingsCloses, SP!PageInit
<1>4. ClosuresInv
  BY <1>1, Assumed, ClosuresInit
<1>5. QED BY <1>2, <1>3, <1>4 DEF IInv

LEMMA InvNext ==
    ASSUME IInv, [Next]_vars
    PROVE  IInv'
<1>1. BP!PageInv /\ SP!PageInv /\ ClosuresInv
  BY DEF IInv
<1>2. page \in {"none", "bookings", "settings", "closures"}
  BY <1>1, PagesAgree DEF ClosuresInv
<1>3. CASE BookingsPage
  <2>1. /\ B!Open \/ B!Leave \/ B!Stay
        /\ UNCHANGED settingsVars /\ UNCHANGED closuresVars
    BY <1>3 DEF BookingsPage
  <2>2. /\ page' \in {"none", "bookings", "settings", "closures"}
        /\ page' = page \/ page # "settings"
    BY <1>2, <2>1, BookingsMoves
  <2>3. BP!PageInv'
    BY <1>1, <2>1, Assumed, BookingsSteps, BP!PageStep
  <2>4. SP!PageInv'
    BY <1>1, <2>1, <2>2, PagesAgree, SettingsAside
  <2>5. ClosuresInv'
    BY <1>1, <2>1, <2>2, PagesAgree, ClosuresAside
  <2>6. QED BY <2>3, <2>4, <2>5 DEF IInv
<1>4. CASE SettingsPage
  <2>1. /\ S!Open \/ S!Leave \/ S!Stay
        /\ UNCHANGED bookingsVars /\ UNCHANGED closuresVars
    BY <1>4 DEF SettingsPage
  <2>2. /\ page' \in {"none", "bookings", "settings", "closures"}
        /\ page' = page \/ (page # "bookings" /\ page' # "bookings")
    BY <1>2, <2>1, SettingsMoves
  <2>3. SP!PageInv'
    BY <1>1, <2>1, Assumed, SettingsSteps, SP!PageStep
  <2>4. BP!PageInv'
    BY <1>1, <2>1, <2>2, PagesAgree, BookingsAside
  <2>5. ClosuresInv'
    BY <1>1, <2>1, <2>2, PagesAgree, ClosuresAside
  <2>6. QED BY <2>3, <2>4, <2>5 DEF IInv
<1>5. CASE ClosuresPage
  <2>1. /\ C!Open \/ C!Leave \/ C!Stay
        /\ UNCHANGED bookingsVars /\ UNCHANGED settingsVars
    BY <1>5 DEF ClosuresPage
  <2>2. /\ page' \in {"none", "bookings", "settings", "closures"}
        /\ page' = page \/ (page # "bookings" /\ page' # "bookings" /\ page # "settings")
    BY <1>2, <2>1, ClosuresMoves
  <2>3. ClosuresInv'
    BY <1>1, <2>1, Assumed, ClosuresMoves, ClosuresOpen, ClosuresLeave, ClosuresStay
  <2>4. BP!PageInv'
    BY <1>1, <2>1, <2>2, PagesAgree, BookingsAside
  <2>5. SP!PageInv'
    BY <1>1, <2>1, <2>2, PagesAgree, SettingsAside
  <2>6. QED BY <2>3, <2>4, <2>5 DEF IInv
<1>6. CASE UNCHANGED vars
  <2>1. page' = page /\ UNCHANGED bookingsVars /\ UNCHANGED settingsVars /\ UNCHANGED closuresVars
    BY <1>6 DEF vars
  <2>2. QED BY <1>1, <1>2, <2>1, PagesAgree, BookingsAside, SettingsAside, ClosuresAside DEF IInv
<1>7. QED BY <1>3, <1>4, <1>5, <1>6 DEF Next

LEMMA InvAlways == Spec => []IInv
BY InvInit, InvNext, PTL DEF Spec

(***************************************************************************)
(* Theorems.                                                               *)
(***************************************************************************)

\* Each page keeps to the types of its state, and the server to settings and closures that
\* are in order, whatever was typed in any of the forms (handleAdminUpdateSettings,
\* parseClosureUpsert).
THEOREM TypeCorrect == Spec => []TypeOK
<1>1. IInv => TypeOK
  <2>1. BP!PageInv => BP!TypeOK
    BY DEF BP!PageInv
  <2>2. SP!PageInv => SP!TypeOK
    BY DEF SP!PageInv
  <2>3. QED BY <2>1, <2>2, BookingsTyped, SettingsTyped, ClosuresParts DEF IInv, TypeOK
<1>2. QED BY <1>1, InvAlways, PTL

\* In whatever order filters are set and lists come, rows match the filter that is set, or
\* were changed by this page's own calls, unless the list asked for last is still under way
\* or a list has come out of order or failed (AdminBookings.tsx, load).
THEOREM ListedMatch == Spec => []ListMatchesFilter
<1>1. IInv => ListMatchesFilter
  <2>1. BP!PageInv => BP!ListMatchesFilter
    BY DEF BP!PageInv
  <2>2. QED BY <2>1, BookingsListed DEF IInv, ListMatchesFilter
<1>2. QED BY <1>1, InvAlways, PTL

\* A form of settings without "Unsaved changes" is what the server holds, unless others
\* have saved since or an answer was lost (AdminSettings.tsx, handleSubmit).
THEOREM NothingHidden == Spec => []NoUnsavedChangeIsHidden
<1>1. IInv => NoUnsavedChangeIsHidden
  BY SP!PageHidesNothing, SettingsShown DEF IInv, NoUnsavedChangeIsHidden
<1>2. QED BY <1>1, InvAlways, PTL

\* A closure, stored or listed, holds what was typed in a form opened for it, whichever
\* panels late answers close (AdminClosures.tsx, handleCreate and handleUpdate).
THEOREM OwnEdits == Spec => []EditsStayWithTheirClosure
<1>1. IInv => EditsStayWithTheirClosure
  BY ClosuresParts DEF IInv, EditsStayWithTheirClosure
<1>2. QED BY <1>1, InvAlways, PTL

\* A charge takes the amount on its button, typed or computed, for a session that is a whole
\* number of hours, is still of the length it was listed with, and is charged at the rate
\* the page has seen, as long as the amount may be charged: the rounding of the page, the
\* truncation of the server and the width of an int32 do not tell then (ChargeModal;
\* handleAdminCharge).
THEOREM ShownIsTaken == Spec => ShownAmountIsTaken
<1> DEFINE AsShown(c, d) ==
      d.id = c.id /\ c.kind = "charge" /\ c.outcome = "sent" /\ d.outcome = "done" =>
        \/ d.taken = c.shown
        \/ /\ c.custom = -1
           /\ \/ c.length % 2 = 1
              \/ c.length # length[c.booking]
              \/ c.seen # rate
              \/ c.shown > MaxCharge
<1>1. ASSUME IInv, [Next]_vars
      PROVE  [\A c \in calls, d \in calls' : AsShown(c, d)]_(B!vars)
  <2>1. BP!PageInv
    BY <1>1 DEF IInv
  <2>2. CASE BookingsPage
    <3>1. BP!Next
      BY <2>2, BookingsSteps DEF BookingsPage
    <3>2. \A c \in calls, d \in calls' : BP!ChargeAsShown(c, d)
      BY <2>1, <3>1, Assumed, BP!PageCharges
    <3>3. QED BY <3>2 DEF BP!ChargeAsShown
  <2>3. CASE calls' = calls
    <3>1. \A c, d \in calls : c.id = d.id => c = d
      BY <2>1 DEF BP!PageInv, BP!CallsOK
    <3>2. QED BY <2>3, <3>1
  <2>4. SettingsPage \/ ClosuresPage \/ UNCHANGED vars => calls' = calls
    BY DEF SettingsPage, ClosuresPage, vars, bookingsVars
  <2>5. QED BY <1>1, <2>2, <2>3, <2>4 DEF Next
<1>2. QED BY <1>1, InvAlways, PTL DEF Spec, ShownAmountIsTaken, B!ShownAmountIsTaken
=============================================================================
