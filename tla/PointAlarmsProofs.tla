------------------------- MODULE PointAlarmsProofs -------------------------
(***************************************************************************)
(* Proofs about PointAlarms, for every set of configurations, updates and  *)
(* operator requests of the declared types, however many updates overlap.  *)
(***************************************************************************)
EXTENDS PointAlarms, TLAPS

-----------------------------------------------------------------------------
(* What the operators of PointConversion return.                           *)

\* The conversion always yields a number, NaN included.
LEMMA ValueIsNumber ==
    ASSUME NEW p \in PointType, NEW s \in UpdateType
    PROVE  valueOf(p, s) \in Number
<1>1. usable(s) \in Int
  BY SpecialNumbers DEF usable, UpdateType, Number
<1>2. digitalValue(p, s) \in Int
  BY <1>1, SpecialNumbers DEF digitalValue, Bit, PointType
<1>3. analogValue(p, s) \in Number
  <2>1. CASE s.valueAtSource = NaN
    BY <2>1 DEF analogValue, Number
  <2>2. CASE s.valueAtSource = Missing
    BY <2>2, SpecialNumbers DEF analogValue, Number, PointType
  <2>3. CASE s.valueAtSource \in Int
    <3>1. s.valueAtSource * p.kconv1 + p.kconv2 \in Int
      BY <2>3 DEF PointType
    <3>2. s.valueAtSource \notin {NaN, Missing}
      BY <2>3, SpecialNumbers
    <3> QED BY <3>1, <3>2 DEF analogValue, Number
  <2> QED BY <2>1, <2>2, <2>3 DEF UpdateType, Number
<1> QED BY <1>2, <1>3 DEF valueOf, Number

\* The limit check yields one of three ranges; a value outside the bands
\* determines it, and a new range is the range of the value.
LEMMA RangeOfValue ==
    ASSUME NEW p \in PointType, NEW d \in DocType, NEW v \in Number
    PROVE  LET r == alarmRangeOf(p, d, v)
           IN  /\ r \in {-1, 0, 1}
               /\ limitsChecked(p, d) /\ p.loLimit <= p.hiLimit =>
                    /\ Above(v, p.hiLimit + p.hysteresis) => r = 1
                    /\ Below(v, p.loLimit - p.hysteresis) => r = -1
                    /\ insideLimits(p, v) => r = 0
               /\ limitsChecked(p, d) /\ r # d.alarmRange =>
                    /\ v \in Int
                    /\ r = 1 => v > p.hiLimit + p.hysteresis
                    /\ r = -1 => v < p.loLimit - p.hysteresis
                    /\ r = 0 => /\ v < p.hiLimit - p.hysteresis
                                /\ v > p.loLimit + p.hysteresis
  BY SpecialNumbers
     DEF alarmRangeOf, insideLimits, Above, Below, DocType, PointType, Number

\* The $set of an update, computed from a copy of the document.
LEMMA SetOfUpdate ==
    ASSUME NEW p \in PointType, NEW d \in DocType, NEW s \in UpdateType
    PROVE  LET u == rtUpdate(p, d, s)
               v == valueOf(p, s)
           IN  /\ u \in RtSetType
               /\ u.value = v /\ v \in Number
               /\ u.alarmRange = alarmRangeOf(p, d, v)
               /\ u.alarmed <=> alarmedOf(p, d, v) /\ ~d.alarmDisabled
               /\ u.records <=> p.type = "analog" /\ insertIntoHistorian(p, d, s)
<1> DEFINE u == rtUpdate(p, d, s)
           v == valueOf(p, s)
           r == alarmRangeOf(p, d, v)
<1>1. v \in Number
  BY ValueIsNumber
<1>2. r \in {-1, 0, 1}
  BY <1>1, RangeOfValue
<1>3. u = [value |-> v, invalid |-> invalidOf(p, s),
           alarmed |-> alarmedOf(p, d, v) /\ ~d.alarmDisabled,
           alarmRange |-> r, timeTagAtSource |-> s.timeTagAtSource,
           records |-> p.type = "analog" /\ insertIntoHistorian(p, d, s)]
  BY Zenon DEF rtUpdate
<1>4. /\ u.value = v /\ u.alarmRange = r
      /\ u.alarmed <=> alarmedOf(p, d, v) /\ ~d.alarmDisabled
      /\ u.records <=> p.type = "analog" /\ insertIntoHistorian(p, d, s)
  BY Zenon DEF rtUpdate
<1>5. /\ s.timeTagAtSource \in Nat /\ invalidOf(p, s) \in BOOLEAN
      /\ (alarmedOf(p, d, v) /\ ~d.alarmDisabled) \in BOOLEAN
      /\ (p.type = "analog" /\ insertIntoHistorian(p, d, s)) \in BOOLEAN
  <2>1. s.timeTagAtSource \in Nat /\ invalidOf(p, s) \in BOOLEAN
    BY DEF invalidOf, UpdateType
  <2>2. /\ (alarmedOf(p, d, v) /\ ~d.alarmDisabled) \in BOOLEAN
        /\ (p.type = "analog" /\ insertIntoHistorian(p, d, s)) \in BOOLEAN
    OBVIOUS
  <2> QED BY <2>1, <2>2, Zenon
<1>6. u \in RtSetType
  <2> HIDE DEF v, r, u
  <2> QED BY <1>1, <1>2, <1>3, <1>5, Zenon DEF RtSetType
<1> QED BY <1>1, <1>4, <1>6, Zenon

\* A $set stored in a document, whatever that has become since.
LEMMA Applied ==
    ASSUME NEW d \in DocType, NEW u \in RtSetType
    PROVE  LET new == applyUpdate(d, u)
           IN  /\ new \in DocType
               /\ new.value = u.value
               /\ new.alarmRange = u.alarmRange
               /\ new.alarmed = u.alarmed
               /\ new.alarmDisabled = d.alarmDisabled
               /\ new.historianLastValue =
                     IF u.records THEN u.value ELSE d.historianLastValue
<1>1. (IF u.records THEN u.value ELSE d.historianLastValue) \in Number \cup {Missing}
  BY DEF DocType, RtSetType
<1>2. applyUpdate(d, u) \in DocType
  BY <1>1 DEF applyUpdate, DocType, RtSetType
<1>3. LET new == applyUpdate(d, u)
      IN  /\ new.value = u.value
          /\ new.alarmRange = u.alarmRange
          /\ new.alarmed = u.alarmed
          /\ new.alarmDisabled = d.alarmDisabled
          /\ new.historianLastValue =
                IF u.records THEN u.value ELSE d.historianLastValue
  BY DEF applyUpdate, DocType
<1> QED BY <1>2, <1>3

-----------------------------------------------------------------------------
(* The queue of updates to store.                                          *)

\* What is appended to a queue comes after what is in it.
LEMMA QueueAppend ==
    ASSUME NEW S, NEW q \in Seq(S), NEW x \in S
    PROVE  /\ Append(q, x) \in Seq(S)
           /\ \A i \in DOMAIN Append(q, x) :
                 \/ i \in DOMAIN q /\ Append(q, x)[i] = q[i]
                 \/ Append(q, x)[i] = x
           /\ \A i \in DOMAIN q : i \in DOMAIN Append(q, x)
                                  /\ Append(q, x)[i] = q[i]
  OBVIOUS

\* The head of a queue, and what is left of it.
LEMMA QueueTail ==
    ASSUME NEW S, NEW q \in Seq(S), q # <<>>
    PROVE  /\ Tail(q) \in Seq(S)
           /\ \A i \in DOMAIN Tail(q) : i + 1 \in DOMAIN q /\ Tail(q)[i] = q[i + 1]
           /\ Head(q) \in S /\ 1 \in DOMAIN q /\ Head(q) = q[1]
  OBVIOUS

\* An update marked as overtaken, or as older than an edit, is otherwise the
\* same.
LEMMA Marked ==
    ASSUME NEW q \in Seq(RtUpdateType)
    PROVE  /\ overtake(q) \in Seq(RtUpdateType)
           /\ DOMAIN overtake(q) = DOMAIN q
           /\ \A i \in DOMAIN q :
                 overtake(q)[i] = [q[i] EXCEPT !.overtaken = TRUE]
           /\ [i \in DOMAIN q |-> [q[i] EXCEPT !.edited = TRUE]] \in Seq(RtUpdateType)
<1>0. ASSUME NEW w \in RtUpdateType
      PROVE  /\ [w EXCEPT !.overtaken = TRUE] \in RtUpdateType
             /\ [w EXCEPT !.edited = TRUE] \in RtUpdateType
  BY DEF RtUpdateType
<1>1. \A i \in DOMAIN q : /\ q[i] \in RtUpdateType
                          /\ [q[i] EXCEPT !.overtaken = TRUE] \in RtUpdateType
                          /\ [q[i] EXCEPT !.edited = TRUE] \in RtUpdateType
  BY <1>0
<1>2. DOMAIN q = 1 .. Len(q) /\ Len(q) \in Nat
  OBVIOUS
<1>3. overtake(q) \in [1 .. Len(q) -> RtUpdateType]
  BY <1>1, <1>2, Zenon DEF overtake
<1>4. [i \in DOMAIN q |-> [q[i] EXCEPT !.edited = TRUE]] \in [1 .. Len(q) -> RtUpdateType]
  BY <1>1, <1>2, Zenon
<1>5. ASSUME NEW f \in [1 .. Len(q) -> RtUpdateType] PROVE f \in Seq(RtUpdateType)
  BY <1>2, <1>5
<1>6. \A i \in DOMAIN q : overtake(q)[i] = [q[i] EXCEPT !.overtaken = TRUE]
  BY Zenon DEF overtake
<1>7. DOMAIN overtake(q) = DOMAIN q
  BY Zenon DEF overtake
<1> QED BY <1>3, <1>4, <1>5, <1>6, <1>7

-----------------------------------------------------------------------------
(* Types.                                                                  *)

ReadStage == [stage : {"read"}, set : SetType, prevData : UpdateType]
CheckStage == [stage : {"check"}, prevData : UpdateType]

\* The operator's request in its stages.
LEMMA OpShape ==
    ASSUME TypeOK
    PROVE  /\ op.stage = "read" => op \in ReadStage
           /\ op.stage = "check" => op \in CheckStage
  BY DEF TypeOK, Idle, ReadStage, CheckStage

\* What a handling emits.
LEMMA EmittedType ==
    ASSUME TypeOK, NEW s \in UpdateType, NEW full
    PROVE  /\ emitRt(s, full) \in RtUpdateType
           /\ emitRt(s, full).set = rtUpdate(pt, doc, s)
           /\ emitRt(s, full).sdu = s
           /\ ~emitRt(s, full).overtaken /\ ~emitRt(s, full).edited
<1> DEFINE w == emitRt(s, full)
           b == IF accepted(pt, doc, s) /\ "beep" \notin full
                THEN beepOf(pt, doc, s) ELSE "none"
           st == storesPoint(pt, doc, s) /\ "point" \notin full
<1>1. rtUpdate(pt, doc, s) \in RtSetType
  BY SetOfUpdate DEF TypeOK
<1>2. b \in {"none", "normal", "important"}
  BY Zenon DEF beepOf
<1>3. st \in BOOLEAN
  OBVIOUS
<1>4. w = [sdu |-> s, beep |-> b, stores |-> st, set |-> rtUpdate(pt, doc, s),
           overtaken |-> FALSE, edited |-> FALSE]
  BY Zenon DEF emitRt
<1> HIDE DEF b, st, w
<1>5. w \in RtUpdateType
  BY <1>1, <1>2, <1>3, <1>4, Zenon DEF RtUpdateType
<1> QED BY <1>4, <1>5 DEF w

\* The initial document and point are of their types.
LEMMA TypeInit == Init => TypeOK
<1> SUFFICES ASSUME Init PROVE TypeOK
  OBVIOUS
<1>1. pt \in PointType
  BY PointAssumption DEF Init
<1>2. doc \in DocType
  BY SpecialNumbers DEF Init, DocType, Number
<1>3. sdu \in UpdateType
  BY DEF Init, Blank, UpdateType
<1>4. changes \in Seq(UpdateType) /\ rtCh \in Seq(RtUpdateType)
  BY DEF Init
<1>5. updates \in 0 .. MaxUpdates /\ edits \in 0 .. MaxEdits
  BY BoundAssumption DEF Init
<1> QED BY <1>1, <1>2, <1>3, <1>4, <1>5 DEF Init, TypeOK

\* What a driver or an operator may send to a point is well formed.
LEMMA InputTypes ==
    ASSUME TypeOK
    PROVE  Updates[pt.type] \subseteq UpdateType /\ Edits[pt.type] \subseteq EditType
<1>1. pt.type \in {"digital", "analog"}
  BY DEF TypeOK, PointType
<1> QED BY <1>1, UpdateAssumption, EditAssumption

\* A handling either emits nothing, or its decision to the end of the queue.
LEMMA HandleShape ==
    ASSUME TypeOK, handleChange
    PROVE  /\ Head(changes) \in UpdateType
           /\ changes' \in Seq(UpdateType)
           /\ \/ rtCh' = rtCh
              \/ \E full \in SUBSET {"beep", "point"} :
                   rtCh' = Append(rtCh, emitRt(Head(changes), full))
           /\ entry' \in {"none", "listed", "lost"}
           /\ UNCHANGED <<pt, doc, sdu, op, beep, turn, updates, edits>>
<1>1. changes # <<>> /\ changes \in Seq(UpdateType)
  BY DEF handleChange, TypeOK
<1>2. Head(changes) \in UpdateType /\ Tail(changes) \in Seq(UpdateType)
  BY <1>1, QueueTail
<1>3. \/ rtCh' = rtCh
      \/ \E full \in SUBSET {"beep", "point"} :
           rtCh' = Append(rtCh, emitRt(Head(changes), full))
  BY Zenon DEF handleChange
<1>4. entry' \in {"none", "listed", "lost"}
  BY Zenon DEF handleChange, TypeOK
<1>5. changes' = Tail(changes)
      /\ UNCHANGED <<pt, doc, sdu, op, beep, turn, updates, edits>>
  BY DEF handleChange
<1> QED BY <1>2, <1>3, <1>4, <1>5

\* The update that is stored was decided on earlier; the document keeps what
\* its $set does not name.
LEMMA StoreShape ==
    ASSUME TypeOK, Store
    PROVE  LET w == Head(rtCh)
           IN  /\ w \in RtUpdateType /\ rtCh # <<>>
               /\ Tail(rtCh) \in Seq(RtUpdateType)
               /\ \/ /\ w.stores
                     /\ doc' = applyUpdate(doc, w.set)
                     /\ rtCh' = overtake(Tail(rtCh))
                     /\ checked' = ~w.edited
                     /\ turn' = IF w.set.alarmRange = doc.alarmRange THEN turn
                                ELSE IF w.overtaken \/ w.edited
                                        \/ ~limitsChecked(pt, doc) THEN Missing
                                ELSE w.set.value
                  \/ /\ ~w.stores
                     /\ rtCh' = Tail(rtCh)
                     /\ UNCHANGED <<doc, checked, turn>>
               /\ UNCHANGED <<pt, sdu, changes, op, updates, edits>>
<1>1. rtCh # <<>> /\ rtCh \in Seq(RtUpdateType)
  BY DEF Store, TypeOK
<1>2. Head(rtCh) \in RtUpdateType /\ Tail(rtCh) \in Seq(RtUpdateType)
  BY <1>1, QueueTail
<1>3. CASE Head(rtCh).stores
  BY <1>1, <1>2, <1>3, Zenon DEF Store
<1>4. CASE ~Head(rtCh).stores
  BY <1>1, <1>2, <1>4, Zenon DEF Store
<1> QED BY <1>3, <1>4

\* Every step keeps the types.
LEMMA TypeStep == TypeOK /\ [Next]_vars => TypeOK'
<1> SUFFICES ASSUME TypeOK, [Next]_vars PROVE TypeOK'
  OBVIOUS
<1> USE DEF TypeOK
<1>1. ASSUME NEW s \in Updates[pt.type], Update(s) PROVE TypeOK'
  <2>1. s \in UpdateType /\ changes \in Seq(UpdateType)
    BY InputTypes
  <2>2. changes' \in Seq(UpdateType) /\ sdu' \in UpdateType
    BY <1>1, <2>1, QueueAppend DEF Update
  <2>3. updates' \in 0 .. MaxUpdates
    BY <1>1, BoundAssumption DEF Update
  <2> QED BY <1>1, <2>2, <2>3 DEF Update
<1>2. CASE handleChange
  <2>1. rtCh' \in Seq(RtUpdateType)
    <3>1. CASE rtCh' = rtCh
      BY <3>1
    <3>2. ASSUME NEW full, rtCh' = Append(rtCh, emitRt(Head(changes), full))
          PROVE  rtCh' \in Seq(RtUpdateType)
      <4>1. emitRt(Head(changes), full) \in RtUpdateType
        BY <1>2, HandleShape, EmittedType
      <4> QED BY <3>2, <4>1, QueueAppend
    <3> QED BY <1>2, <3>1, <3>2, HandleShape
  <2>2. checked' \in BOOLEAN
    BY <1>2, Zenon DEF handleChange
  <2> QED BY <1>2, <2>1, <2>2, HandleShape
<1>3. CASE Store
  <2> DEFINE w == Head(rtCh)
  <2>1. w \in RtUpdateType /\ Tail(rtCh) \in Seq(RtUpdateType)
    BY <1>3, StoreShape
  <2>2. w.set \in RtSetType /\ w.set.value \in Number /\ w.edited \in BOOLEAN
    BY <2>1 DEF RtUpdateType, RtSetType
  <2>3. doc' \in DocType
    BY <1>3, <2>2, StoreShape, Applied
  <2>4. rtCh' \in Seq(RtUpdateType)
    BY <1>3, <2>1, StoreShape, Marked
  <2>5. checked' \in BOOLEAN /\ turn' \in Number \cup {Missing}
    <3>1. CASE w.stores
      BY <1>3, <2>2, <3>1, StoreShape
    <3>2. CASE ~w.stores
      BY <1>3, <3>2, StoreShape
    <3> QED BY <3>1, <3>2
  <2>6. beep' \in {0, 1, 2}
    BY <1>3, Zenon DEF Store
  <2>7. entry' \in {"none", "listed", "lost"}
    BY <1>3, Zenon DEF Store
  <2> QED BY <1>3, <2>3, <2>4, <2>5, <2>6, <2>7, StoreShape
<1>4. CASE AckAlarm
  <2>1. doc' \in DocType
    BY <1>4 DEF AckAlarm, DocType
  <2>2. entry' \in {"none", "listed", "lost"}
    BY <1>4, Zenon DEF AckAlarm
  <2> QED BY <1>4, <2>1, <2>2 DEF AckAlarm
<1>5. CASE AckEvent
  <2>1. 0 \in Number
    BY DEF Number
  <2>2. [doc EXCEPT !.value = 0, !.timeTagAtSource = 0] \in DocType
    BY <2>1 DEF DocType
  <2>3. doc' \in DocType
    BY <1>5, <2>2 DEF AckEvent
  <2> QED BY <1>5, <2>3 DEF AckEvent
<1>6. CASE SilenceBeep
  BY <1>6 DEF SilenceBeep
<1>7. ASSUME NEW e \in Edits[pt.type], ReadProperties(e) PROVE TypeOK'
  <2>1. e \in EditType
    BY InputTypes
  <2>2. changesOf(e) \in SetType
    BY <2>1 DEF changesOf, SetType, EditType
  <2>3. Blank \in UpdateType
    BY DEF Blank, UpdateType
  <2>4. op' \in ReadStage
    BY <1>7, <2>2, <2>3 DEF ReadProperties, ReadStage
  <2>5. edits' \in 0 .. MaxEdits
    BY <1>7, BoundAssumption DEF ReadProperties
  <2> QED BY <1>7, <2>4, <2>5 DEF ReadProperties, ReadStage
<1>8. CASE WriteProperties
  <2>1. op \in ReadStage
    BY <1>8, OpShape DEF WriteProperties
  <2>2. pt' \in PointType
    BY <1>8, <2>1 DEF WriteProperties, ReadStage, SetType, PointType
  <2>3. doc' \in DocType
    <3>1. (IF op.set.value = Missing THEN doc.value ELSE op.set.value) \in Number
      BY <2>1 DEF ReadStage, SetType, DocType, Number
    <3>2. (doc.alarmDisabled # op.set.toggles) \in BOOLEAN
      OBVIOUS
    <3> QED BY <1>8, <3>1, <3>2 DEF WriteProperties, DocType
  <2>4. op' = Idle \/ op' \in CheckStage
    BY <1>8, <2>1 DEF WriteProperties, ReadStage, CheckStage
  <2>5. rtCh' \in Seq(RtUpdateType)
    BY <1>8, Marked DEF WriteProperties, afterEdit
  <2>6. /\ checked' \in BOOLEAN
        /\ turn' \in Number \cup {Missing}
        /\ UNCHANGED <<sdu, changes, beep, entry, updates, edits>>
    BY <1>8 DEF WriteProperties
  <2> QED BY <2>2, <2>3, <2>4, <2>5, <2>6 DEF CheckStage
<1>9. CASE RangeCheck
  <2>1. op \in CheckStage
    BY <1>9, OpShape DEF RangeCheck
  <2>2. sdu' \in UpdateType
    BY <1>9, <2>1 DEF RangeCheck, CheckStage, UpdateType
  <2>3. changes' \in Seq(UpdateType)
    BY <1>9, <2>2, QueueAppend DEF RangeCheck
  <2> QED BY <1>9, <2>2, <2>3 DEF RangeCheck
<1>10. CASE MarkFrozen
  BY <1>10 DEF MarkFrozen, DocType
<1>11. CASE MarkInvalid
  BY <1>11 DEF MarkInvalid, DocType
<1>12. CASE UNCHANGED vars
  BY <1>12 DEF vars
<1> QED
  BY <1>1, <1>2, <1>3, <1>4, <1>5, <1>6, <1>7, <1>8, <1>9, <1>10, <1>11, <1>12
     DEF Next

\* Types are kept whatever the driver, the operator and the periodic jobs
\* do, and however late their updates are stored; in particular no missing
\* number ever reaches the stored value.
THEOREM TypeCorrect == Spec => []TypeOK
  BY TypeInit, TypeStep, PTL DEF Spec

-----------------------------------------------------------------------------
(* What waits to be stored.                                                *)

\* The value v settles the range r, against the limits of p.
Decides(p, v, r) ==
    /\ v \in Int
    /\ r = 1 => v > p.hiLimit + p.hysteresis
    /\ r = -1 => v < p.loLimit - p.hysteresis
    /\ r = 0 => v < p.hiLimit - p.hysteresis /\ v > p.loLimit + p.hysteresis

near(p, v, last) ==
    /\ {NaN, Missing} \cap {v, last} = {}
    /\ Magnitude(v - last) < p.historianDeadBand

\* The parts of what is true of an update that waits, with regard to the
\* document as it is by now.  Its range is that of its value, unless the
\* limits were edited.
FitsRange(w, p, d) ==
    ~w.edited /\ p.type = "analog" /\ p.loLimit <= p.hiLimit /\ ~d.alarmDisabled
    => agrees(p, w.set)

\* A range it will change is settled by its value.
FitsTurn(w, p, d) ==
    /\ ~w.overtaken /\ ~w.edited
    /\ limitsChecked(p, d) /\ w.set.alarmRange # d.alarmRange
    => Decides(p, w.set.value, w.set.alarmRange)

\* It clears an alarm only with a value inside the limits.
FitsAlarm(w, p, d) ==
    ~w.overtaken /\ ~w.edited /\ d.alarmed /\ ~w.set.alarmed
    => \/ d.alarmDisabled
       \/ p.type = "analog" /\ insideLimits(p, w.set.value)

\* It is recorded, or near the last value that was.
FitsHistorian(w, p, d) ==
    /\ ~w.overtaken
    /\ p.type = "analog" /\ p.historianPeriod >= 0 /\ ~w.sdu.isNotForHistorical
    => w.set.records \/ near(p, w.set.value, d.historianLastValue)

FitsTo(w, p, d) ==
    w.stores => FitsRange(w, p, d) /\ FitsTurn(w, p, d) /\ FitsAlarm(w, p, d)
                /\ FitsHistorian(w, p, d)

\* All updates that wait fit the document.
Pending == \A i \in DOMAIN rtCh : FitsTo(rtCh[i], pt, doc)

\* What has just been decided fits the copy it was decided on.
LEMMA DecisionFits ==
    ASSUME TypeOK, NEW s \in UpdateType, NEW full
    PROVE  FitsTo(emitRt(s, full), pt, doc)
<1> DEFINE w == emitRt(s, full)
           v == valueOf(pt, s)
           r == alarmRangeOf(pt, doc, v)
<1>1. w.set = rtUpdate(pt, doc, s) /\ w.sdu = s /\ w \in RtUpdateType
  BY EmittedType
<1>2. /\ w.set.value = v /\ v \in Number /\ w.set.alarmRange = r
      /\ w.set.alarmed <=> alarmedOf(pt, doc, v) /\ ~doc.alarmDisabled
      /\ w.set.records <=> pt.type = "analog" /\ insertIntoHistorian(pt, doc, s)
  BY <1>1, SetOfUpdate DEF TypeOK
<1> HIDE DEF w
<1>3. FitsRange(w, pt, doc)
  <2> SUFFICES ASSUME pt.type = "analog", pt.loLimit <= pt.hiLimit, ~doc.alarmDisabled
               PROVE  agrees(pt, w.set)
    BY DEF FitsRange
  <2>1. limitsChecked(pt, doc)
    BY DEF limitsChecked
  <2>2. /\ Above(v, pt.hiLimit + pt.hysteresis) => r = 1
        /\ Below(v, pt.loLimit - pt.hysteresis) => r = -1
        /\ insideLimits(pt, v) => r = 0
    BY <1>2, <2>1, RangeOfValue DEF TypeOK
  <2> QED BY <1>2, <2>2 DEF agrees
<1>4. FitsTurn(w, pt, doc)
  <2> SUFFICES ASSUME limitsChecked(pt, doc), r # doc.alarmRange
               PROVE  Decides(pt, v, r)
    BY <1>2 DEF FitsTurn
  <2> QED BY <1>2, RangeOfValue DEF TypeOK, Decides
<1>5. FitsAlarm(w, pt, doc)
  <2> SUFFICES ASSUME doc.alarmed, ~w.set.alarmed, ~doc.alarmDisabled
               PROVE  pt.type = "analog" /\ insideLimits(pt, w.set.value)
    BY DEF FitsAlarm
  <2>1. pt.type \in {"digital", "analog"}
    BY DEF TypeOK, PointType
  <2>2. ~alarmedOf(pt, doc, v)
    BY <1>2, Zenon
  <2>3. pt.type = "analog" /\ insideLimits(pt, v)
    BY <2>1, <2>2 DEF alarmedOf
  <2> QED BY <1>2, <2>3
<1>6. FitsHistorian(w, pt, doc)
  <2> SUFFICES ASSUME pt.type = "analog", pt.historianPeriod >= 0,
                      ~s.isNotForHistorical, ~insertIntoHistorian(pt, doc, s)
               PROVE  near(pt, v, doc.historianLastValue)
    BY <1>1, <1>2 DEF FitsHistorian
  <2>1. /\ doc.historianLastValue # Missing
        /\ NaN \notin {v, doc.historianLastValue}
        /\ Magnitude(v - doc.historianLastValue) < pt.historianDeadBand
    BY Zenon DEF insertIntoHistorian
  <2>2. v # Missing
    BY <1>2, SpecialNumbers DEF Number
  <2> QED BY <2>1, <2>2 DEF near
<1> QED BY <1>3, <1>4, <1>5, <1>6 DEF FitsTo, w

\* It goes on fitting when alarm or value of the document are changed by
\* others than an update,
LEMMA FitsKept ==
    ASSUME NEW w, NEW p, NEW d, NEW new, FitsTo(w, p, d),
           new.alarmRange = d.alarmRange,
           new.alarmDisabled = d.alarmDisabled,
           new.historianLastValue = d.historianLastValue,
           new.alarmed => d.alarmed
    PROVE  FitsTo(w, p, new)
  BY DEF FitsTo, FitsRange, FitsTurn, FitsAlarm, FitsHistorian, limitsChecked

\* when another update is stored before it, and when the limits are edited.
LEMMA FitsMarked ==
    ASSUME NEW w \in RtUpdateType, NEW p, NEW d, NEW q, NEW new, FitsTo(w, p, d)
    PROVE  /\ p = q /\ new.alarmDisabled = d.alarmDisabled
              => FitsTo([w EXCEPT !.overtaken = TRUE], q, new)
           /\ /\ q.type = p.type /\ q.historianPeriod = p.historianPeriod
              /\ q.historianDeadBand = p.historianDeadBand
              /\ new.historianLastValue = d.historianLastValue
              => FitsTo([w EXCEPT !.edited = TRUE], q, new)
<1>1. LET o == [w EXCEPT !.overtaken = TRUE]
      IN  /\ o.overtaken /\ o.set = w.set /\ o.stores = w.stores
          /\ o.edited = w.edited /\ o.sdu = w.sdu
  BY DEF RtUpdateType
<1>2. LET e == [w EXCEPT !.edited = TRUE]
      IN  /\ e.edited /\ e.set = w.set /\ e.stores = w.stores
          /\ e.overtaken = w.overtaken /\ e.sdu = w.sdu
  BY DEF RtUpdateType
<1>3. ASSUME NEW o, o.overtaken, o.set = w.set, o.stores = w.stores,
             o.edited = w.edited, p = q, new.alarmDisabled = d.alarmDisabled
      PROVE  FitsTo(o, q, new)
  BY <1>3 DEF FitsTo, FitsRange, FitsTurn, FitsAlarm, FitsHistorian
<1>4. ASSUME NEW e, e.edited, e.set = w.set, e.stores = w.stores, e.sdu = w.sdu,
             e.overtaken = w.overtaken,
             q.type = p.type, q.historianPeriod = p.historianPeriod,
             q.historianDeadBand = p.historianDeadBand,
             new.historianLastValue = d.historianLastValue
      PROVE  FitsTo(e, q, new)
  BY <1>4 DEF FitsTo, FitsRange, FitsTurn, FitsAlarm, FitsHistorian, near
<1> QED BY <1>1, <1>2, <1>3, <1>4

\* What an edit of properties leaves alone; one that is not of the limits
\* also leaves the configuration alone.
LEMMA WriteShape ==
    ASSUME TypeOK, WriteProperties
    PROVE  /\ pt'.type = pt.type
           /\ pt'.historianPeriod = pt.historianPeriod
           /\ pt'.historianDeadBand = pt.historianDeadBand
           /\ doc'.alarmRange = doc.alarmRange /\ doc'.alarmed = doc.alarmed
           /\ doc'.historianLastValue = doc.historianLastValue
           /\ \/ /\ limitsEdited(op.set)
                 /\ rtCh' = [i \in DOMAIN rtCh |-> [rtCh[i] EXCEPT !.edited = TRUE]]
                 /\ ~checked' /\ turn' = Missing
              \/ /\ ~limitsEdited(op.set)
                 /\ pt' = pt /\ doc'.alarmDisabled = doc.alarmDisabled
                 /\ rtCh' = rtCh /\ turn' = turn
                 /\ checked' => checked /\ doc'.value = doc.value
<1>1. op \in ReadStage
  BY OpShape DEF WriteProperties
<1>2. /\ pt'.type = pt.type
      /\ pt'.historianPeriod = pt.historianPeriod
      /\ pt'.historianDeadBand = pt.historianDeadBand
  BY DEF WriteProperties, TypeOK, PointType
<1>3. /\ doc'.alarmRange = doc.alarmRange /\ doc'.alarmed = doc.alarmed
      /\ doc'.historianLastValue = doc.historianLastValue
  BY DEF WriteProperties, TypeOK, DocType
<1>4. CASE limitsEdited(op.set)
  BY <1>2, <1>3, <1>4 DEF WriteProperties, afterEdit
<1>5. CASE ~limitsEdited(op.set)
  <2>1. /\ op.set.hiLimit = Missing /\ op.set.loLimit = Missing
        /\ op.set.hysteresis = Missing /\ ~op.set.toggles
    BY <1>5 DEF limitsEdited
  <2>2. pt' = pt
    BY <2>1 DEF WriteProperties, TypeOK, PointType
  <2>3. doc'.alarmDisabled = doc.alarmDisabled
    BY <1>1, <2>1 DEF WriteProperties, TypeOK, DocType, ReadStage, SetType
  <2>4. rtCh' = rtCh /\ turn' = turn
    BY <1>5 DEF WriteProperties, afterEdit
  <2>5. ASSUME checked' PROVE checked /\ doc'.value = doc.value
    <3>1. checked /\ op.set.value = Missing
      BY <2>5 DEF WriteProperties
    <3> QED BY <3>1 DEF WriteProperties, TypeOK, DocType
  <2> QED BY <1>2, <1>3, <1>5, <2>2, <2>3, <2>4, <2>5
<1> QED BY <1>4, <1>5

\* The steps that neither decide, store nor edit.
LEMMA OtherShape ==
    ASSUME TypeOK,
           \/ AckAlarm \/ AckEvent \/ SilenceBeep \/ RangeCheck
           \/ MarkFrozen \/ MarkInvalid \/ UNCHANGED vars
           \/ \E s \in Updates[pt.type] : Update(s)
           \/ \E e \in Edits[pt.type] : ReadProperties(e)
    PROVE  /\ UNCHANGED <<pt, rtCh, checked, turn>>
           /\ doc'.alarmRange = doc.alarmRange
           /\ doc'.alarmDisabled = doc.alarmDisabled
           /\ doc'.historianLastValue = doc.historianLastValue
           /\ \/ doc'.alarmed = doc.alarmed
              \/ /\ doc'.alarmed = FALSE
                 /\ op = Idle /\ op'.stage = "acked"
           /\ doc'.value = doc.value \/ pt.type # "analog"
<1>1. CASE AckAlarm
  BY <1>1 DEF AckAlarm, TypeOK, DocType
<1>2. CASE AckEvent
  BY <1>2 DEF AckEvent, TypeOK, DocType
<1>3. CASE SilenceBeep \/ RangeCheck \/ UNCHANGED vars
  BY <1>3 DEF SilenceBeep, RangeCheck, vars
<1>4. CASE MarkFrozen \/ MarkInvalid
  BY <1>4 DEF MarkFrozen, MarkInvalid, TypeOK, DocType
<1>5. CASE \/ \E s \in Updates[pt.type] : Update(s)
           \/ \E e \in Edits[pt.type] : ReadProperties(e)
  BY <1>5 DEF Update, ReadProperties
<1> QED BY <1>1, <1>2, <1>3, <1>4, <1>5

\* Every step keeps what waits fitting.
LEMMA PendingStep == TypeOK /\ Pending /\ [Next]_vars => Pending'
<1> SUFFICES ASSUME TypeOK, Pending, [Next]_vars,
                    NEW i \in DOMAIN rtCh'
             PROVE  FitsTo(rtCh'[i], pt', doc')
  BY DEF Pending
<1>0. rtCh \in Seq(RtUpdateType)
  BY DEF TypeOK
<1>1. CASE handleChange
  <2>1. pt' = pt /\ doc' = doc /\ Head(changes) \in UpdateType
    BY <1>1, HandleShape
  <2>2. CASE rtCh' = rtCh
    BY <2>1, <2>2 DEF Pending
  <2>3. ASSUME NEW full, rtCh' = Append(rtCh, emitRt(Head(changes), full))
        PROVE  FitsTo(rtCh'[i], pt', doc')
    <3> DEFINE w == emitRt(Head(changes), full)
    <3>1. FitsTo(w, pt, doc) /\ w \in RtUpdateType
      BY <2>1, DecisionFits, EmittedType
    <3> HIDE DEF w
    <3>2. \/ i \in DOMAIN rtCh /\ rtCh'[i] = rtCh[i]
          \/ rtCh'[i] = w
      BY <1>0, <2>3, <3>1, QueueAppend DEF w
    <3>3. ASSUME i \in DOMAIN rtCh, rtCh'[i] = rtCh[i] PROVE FitsTo(rtCh'[i], pt, doc)
      BY <3>3 DEF Pending
    <3> QED BY <2>1, <3>1, <3>2, <3>3
  <2> QED BY <1>1, <2>2, <2>3, HandleShape
<1>2. CASE Store
  <2> DEFINE w == Head(rtCh)
             q == Tail(rtCh)
  <2>1. /\ w \in RtUpdateType /\ rtCh # <<>> /\ q \in Seq(RtUpdateType)
        /\ pt' = pt
    BY <1>2, StoreShape
  <2>2. \A j \in DOMAIN q : FitsTo(q[j], pt, doc) /\ q[j] \in RtUpdateType
    <3>1. \A j \in DOMAIN q : j + 1 \in DOMAIN rtCh /\ q[j] = rtCh[j + 1]
      BY <1>0, <2>1, QueueTail
    <3>2. \A j \in DOMAIN q : q[j] \in RtUpdateType
      BY <2>1
    <3> QED BY <3>1, <3>2 DEF Pending
  <2>3. CASE w.stores
    <3>1. rtCh' = overtake(q) /\ doc' = applyUpdate(doc, w.set)
      BY <1>2, <2>3, StoreShape
    <3>2. doc'.alarmDisabled = doc.alarmDisabled
      BY <2>1, <3>1, Applied DEF TypeOK, RtUpdateType
    <3> HIDE DEF q
    <3>3. i \in DOMAIN q /\ rtCh'[i] = [q[i] EXCEPT !.overtaken = TRUE]
      BY <2>1, <3>1, Marked
    <3>4. FitsTo([q[i] EXCEPT !.overtaken = TRUE], pt, doc')
      BY <2>2, <3>2, <3>3, FitsMarked
    <3> QED BY <2>1, <3>3, <3>4
  <2>4. CASE ~w.stores
    BY <1>2, <2>1, <2>2, <2>4, StoreShape
  <2> QED BY <2>3, <2>4
<1>3. CASE WriteProperties
  <2>1. CASE limitsEdited(op.set)
    <3>1. /\ i \in DOMAIN rtCh /\ rtCh'[i] = [rtCh[i] EXCEPT !.edited = TRUE]
          /\ rtCh[i] \in RtUpdateType /\ FitsTo(rtCh[i], pt, doc)
      BY <1>0, <1>3, <2>1, WriteShape DEF Pending
    <3>2. /\ pt'.type = pt.type /\ pt'.historianPeriod = pt.historianPeriod
          /\ pt'.historianDeadBand = pt.historianDeadBand
          /\ doc'.historianLastValue = doc.historianLastValue
      BY <1>3, WriteShape
    <3>3. FitsTo([rtCh[i] EXCEPT !.edited = TRUE], pt', doc')
      BY <3>1, <3>2, FitsMarked
    <3> QED BY <3>1, <3>3
  <2>2. CASE ~limitsEdited(op.set)
    <3>1. /\ i \in DOMAIN rtCh /\ rtCh'[i] = rtCh[i] /\ pt' = pt
          /\ FitsTo(rtCh[i], pt, doc)
      BY <1>3, <2>2, WriteShape DEF Pending
    <3>2. /\ doc'.alarmRange = doc.alarmRange
          /\ doc'.alarmDisabled = doc.alarmDisabled
          /\ doc'.historianLastValue = doc.historianLastValue
          /\ doc'.alarmed => doc.alarmed
      BY <1>3, <2>2, WriteShape
    <3> QED BY <3>1, <3>2, FitsKept
  <2> QED BY <2>1, <2>2
<1>4. CASE \/ AckAlarm \/ AckEvent \/ SilenceBeep \/ RangeCheck
           \/ MarkFrozen \/ MarkInvalid \/ UNCHANGED vars
           \/ \E s \in Updates[pt.type] : Update(s)
           \/ \E e \in Edits[pt.type] : ReadProperties(e)
  <2>1. pt' = pt /\ rtCh' = rtCh
    BY <1>4, OtherShape
  <2>2. FitsTo(rtCh[i], pt, doc)
    BY <2>1 DEF Pending
  <2>3. /\ doc'.alarmRange = doc.alarmRange
        /\ doc'.alarmDisabled = doc.alarmDisabled
        /\ doc'.historianLastValue = doc.historianLastValue
    BY <1>4, OtherShape
  <2>4. doc'.alarmed => doc.alarmed
    BY <1>4, OtherShape
  <2>5. FitsTo(rtCh[i], pt, doc')
    BY <2>2, <2>3, <2>4, FitsKept
  <2> QED BY <2>1, <2>5
<1> QED BY <1>1, <1>2, <1>3, <1>4 DEF Next

\* The types, and what waits, hold together.
LEMMA PendingFits == Spec => [](TypeOK /\ Pending)
<1>1. Init => Pending
  BY DEF Init, Pending
<1> QED BY <1>1, TypeInit, TypeStep, PendingStep, PTL DEF Spec

-----------------------------------------------------------------------------
(* The range.                                                              *)

\* What is stored has waited, and fits.
LEMMA StoredFits ==
    ASSUME TypeOK, Pending, Store, Head(rtCh).stores
    PROVE  LET w == Head(rtCh)
           IN  /\ w \in RtUpdateType /\ w.set \in RtSetType
               /\ FitsRange(w, pt, doc) /\ FitsTurn(w, pt, doc)
               /\ FitsAlarm(w, pt, doc) /\ FitsHistorian(w, pt, doc)
               /\ pt' = pt
               /\ doc'.value = w.set.value
               /\ doc'.alarmRange = w.set.alarmRange
               /\ doc'.alarmed = w.set.alarmed
               /\ doc'.alarmDisabled = doc.alarmDisabled
               /\ doc'.historianLastValue =
                     IF w.set.records THEN w.set.value ELSE doc.historianLastValue
<1> DEFINE w == Head(rtCh)
<1>1. w \in RtUpdateType /\ rtCh # <<>> /\ pt' = pt /\ doc' = applyUpdate(doc, w.set)
  BY StoreShape
<1>2. w.set \in RtSetType
  BY <1>1 DEF RtUpdateType
<1>3. 1 \in DOMAIN rtCh /\ w = rtCh[1]
  BY <1>1, QueueTail DEF TypeOK
<1>4. FitsTo(w, pt, doc)
  BY <1>3 DEF Pending
<1>5. /\ FitsRange(w, pt, doc) /\ FitsTurn(w, pt, doc)
      /\ FitsAlarm(w, pt, doc) /\ FitsHistorian(w, pt, doc)
  BY <1>4, Zenon DEF FitsTo
<1>6. /\ doc'.value = w.set.value
      /\ doc'.alarmRange = w.set.alarmRange
      /\ doc'.alarmed = w.set.alarmed
      /\ doc'.alarmDisabled = doc.alarmDisabled
      /\ doc'.historianLastValue =
            IF w.set.records THEN w.set.value ELSE doc.historianLastValue
  BY <1>1, <1>2, Applied DEF TypeOK
<1> QED BY <1>1, <1>2, <1>5, <1>6

\* A range check stores the value unless it repeats a historical update.
LEMMA RangeCheckStores ==
    ASSUME NEW s \in UpdateType, s.rangeCheck, ~s.isHistorical,
           pt.type = "analog"
    PROVE  storesPoint(pt, doc, s)
  BY DEF storesPoint, accepted, changedForUpdate

\* Every step keeps the stored range the one of the stored value.
LEMMA AgreesStep == TypeOK /\ Pending /\ RangeAgrees /\ [Next]_vars => RangeAgrees'
<1> SUFFICES ASSUME TypeOK, Pending, RangeAgrees, [Next]_vars,
                    pt'.type = "analog", pt'.loLimit <= pt'.hiLimit,
                    checked', ~doc'.alarmDisabled
             PROVE  agrees(pt', doc')
  BY DEF RangeAgrees
<1>1. ASSUME UNCHANGED pt, checked, doc'.value = doc.value,
             doc'.alarmRange = doc.alarmRange,
             doc'.alarmDisabled = doc.alarmDisabled
      PROVE  agrees(pt', doc')
  BY <1>1 DEF RangeAgrees, agrees
<1>2. CASE handleChange
  <2>1. Head(changes) \in UpdateType /\ UNCHANGED <<pt, doc>>
    BY <1>2, HandleShape
  <2>2. \/ checked
        \/ /\ Head(changes).rangeCheck /\ ~Head(changes).isHistorical
           /\ ~storesPoint(pt, doc, Head(changes))
    BY <1>2, Zenon DEF handleChange
  <2>3. checked
    BY <2>1, <2>2, RangeCheckStores
  <2> QED BY <1>1, <2>1, <2>3
<1>3. CASE Store
  <2> DEFINE w == Head(rtCh)
  <2>1. CASE w.stores
    <3>1. ~w.edited /\ pt' = pt
      BY <1>3, <2>1, StoreShape
    <3>2. /\ FitsRange(w, pt, doc)
          /\ doc'.value = w.set.value /\ doc'.alarmRange = w.set.alarmRange
          /\ doc'.alarmDisabled = doc.alarmDisabled
      BY <1>3, <2>1, StoredFits
    <3>3. agrees(pt, w.set)
      BY <3>1, <3>2 DEF FitsRange
    <3> QED BY <3>1, <3>2, <3>3 DEF agrees
  <2>2. CASE ~w.stores
    BY <1>1, <1>3, <2>2, StoreShape
  <2> QED BY <2>1, <2>2
<1>4. CASE WriteProperties
  BY <1>1, <1>4, WriteShape
<1>5. CASE \/ AckAlarm \/ AckEvent \/ SilenceBeep \/ RangeCheck
           \/ MarkFrozen \/ MarkInvalid \/ UNCHANGED vars
           \/ \E s \in Updates[pt.type] : Update(s)
           \/ \E e \in Edits[pt.type] : ReadProperties(e)
  BY <1>1, <1>5, OtherShape
<1> QED BY <1>2, <1>3, <1>4, <1>5 DEF Next

\* The stored range is that of the stored value, for every configuration,
\* conversion and sequence of updates, edits and periodic marks, however
\* many updates overlap: value and range travel in one $set.
THEOREM RangeFollowsValue == Spec => []RangeAgrees
<1>1. Init => RangeAgrees
  BY DEF Init, RangeAgrees
<1> QED BY <1>1, AgreesStep, PendingFits, PTL DEF Spec

-----------------------------------------------------------------------------
(* Hysteresis.                                                             *)

\* The value that last changed the range is a value of that range.
TurnInv ==
    turn # Missing => limitsChecked(pt, doc) /\ Decides(pt, turn, doc.alarmRange)

\* Two values that settle different ranges lie apart by more than a band.
LEMMA TwoTurns ==
    ASSUME NEW p \in PointType, p.loLimit <= p.hiLimit,
           NEW v, NEW u, NEW r \in {-1, 0, 1}, NEW o \in {-1, 0, 1},
           Decides(p, v, r), Decides(p, u, o), r # o
    PROVE  Magnitude(v - u) > 2 * p.hysteresis
<1>1. p.hiLimit \in Int /\ p.loLimit \in Int /\ p.hysteresis \in Nat
  BY DEF PointType
<1>2. v \in Int /\ u \in Int
  BY DEF Decides
<1>3. v - u > 2 * p.hysteresis \/ u - v > 2 * p.hysteresis
  BY <1>1, <1>2 DEF Decides
<1> QED BY <1>1, <1>2, <1>3 DEF Magnitude

\* Every step keeps the turn invariant, and two turns in a row lie apart.
LEMMA TurnStep ==
    ASSUME TypeOK, Pending, TurnInv, [Next]_vars
    PROVE  /\ TurnInv'
           /\ /\ doc'.alarmRange # doc.alarmRange
              /\ turn # Missing /\ turn' # Missing
              /\ pt.loLimit <= pt.hiLimit
              => Magnitude(turn' - turn) > 2 * pt.hysteresis
<1>1. ASSUME pt' = pt, turn' = turn, doc'.alarmRange = doc.alarmRange,
             doc'.alarmDisabled = doc.alarmDisabled
      PROVE  TurnInv'
  BY <1>1 DEF TurnInv, limitsChecked
<1>2. ASSUME turn' = Missing PROVE TurnInv'
  BY <1>2 DEF TurnInv
<1>3. CASE Store
  <2> DEFINE w == Head(rtCh)
  <2>1. CASE ~w.stores
    BY <1>1, <1>3, <2>1, StoreShape
  <2>2. CASE w.stores
    <3>1. /\ w.set \in RtSetType /\ FitsTurn(w, pt, doc) /\ pt' = pt
          /\ doc'.alarmRange = w.set.alarmRange
          /\ doc'.alarmDisabled = doc.alarmDisabled
      BY <1>3, <2>2, StoredFits
    <3>2. turn' = IF w.set.alarmRange = doc.alarmRange THEN turn
                  ELSE IF w.overtaken \/ w.edited
                          \/ ~limitsChecked(pt, doc) THEN Missing
                  ELSE w.set.value
      BY <1>3, <2>2, StoreShape
    <3> HIDE DEF w
    <3>3. CASE w.set.alarmRange = doc.alarmRange
      BY <1>1, <3>1, <3>2, <3>3
    <3>4. CASE turn' = Missing
      BY <1>2, <3>4
    <3>5. CASE /\ w.set.alarmRange # doc.alarmRange /\ turn' # Missing
      <4>1. /\ ~w.overtaken /\ ~w.edited /\ limitsChecked(pt, doc)
            /\ turn' = w.set.value
        BY <3>2, <3>5
      <4>2. Decides(pt, turn', doc'.alarmRange)
        BY <3>1, <3>5, <4>1 DEF FitsTurn
      <4>3. limitsChecked(pt', doc')
        BY <3>1, <4>1 DEF limitsChecked
      <4>4. TurnInv'
        BY <3>1, <4>2, <4>3 DEF TurnInv
      <4>5. ASSUME turn # Missing, pt.loLimit <= pt.hiLimit
            PROVE  Magnitude(turn' - turn) > 2 * pt.hysteresis
        <5>1. Decides(pt, turn, doc.alarmRange)
          BY <4>5 DEF TurnInv
        <5>2. /\ doc.alarmRange \in {-1, 0, 1} /\ doc'.alarmRange \in {-1, 0, 1}
              /\ pt \in PointType
          BY <3>1 DEF TypeOK, DocType, RtSetType
        <5> QED BY <3>1, <3>5, <4>2, <4>5, <5>1, <5>2, TwoTurns
      <4> QED BY <4>4, <4>5
    <3> QED BY <3>3, <3>4, <3>5
  <2> QED BY <2>1, <2>2
<1>4. CASE WriteProperties
  BY <1>1, <1>2, <1>4, WriteShape
<1>5. CASE handleChange
  BY <1>1, <1>5, HandleShape
<1>6. CASE \/ AckAlarm \/ AckEvent \/ SilenceBeep \/ RangeCheck
           \/ MarkFrozen \/ MarkInvalid \/ UNCHANGED vars
           \/ \E s \in Updates[pt.type] : Update(s)
           \/ \E e \in Edits[pt.type] : ReadProperties(e)
  BY <1>1, <1>6, OtherShape
<1> QED BY <1>3, <1>4, <1>5, <1>6 DEF Next

\* The hysteresis damps for every configuration whose limits do not cross:
\* two changes of range in a row, by updates that no other update and no edit
\* of the limits overtook between reading and writing, need values more than
\* twice the hysteresis apart.
THEOREM HysteresisDamps == Spec => NoChatter
<1>1. Init => TurnInv
  BY DEF Init, TurnInv
<1>2. TypeOK /\ Pending /\ TurnInv /\ [Next]_vars => TurnInv'
  BY TurnStep
<1>3. Spec => [](TypeOK /\ Pending /\ TurnInv)
  BY <1>1, <1>2, PendingFits, PTL DEF Spec
<1>4. TypeOK /\ Pending /\ TurnInv /\ [Next]_vars =>
        [ /\ doc'.alarmRange # doc.alarmRange
          /\ turn # Missing /\ turn' # Missing /\ pt.loLimit <= pt.hiLimit
          => Magnitude(turn' - turn) > 2 * pt.hysteresis ]_vars
  BY TurnStep
<1> QED BY <1>3, <1>4, PTL DEF Spec, NoChatter

-----------------------------------------------------------------------------
(* What updates do to alarm, list of events and historian.                 *)

\* An alarm stays until it is acknowledged, disabled or, for an analog point,
\* the value is inside its limits by the hysteresis: no update of a digital
\* point, no periodic job and no edit of limits takes it away, except an
\* update that another one, or an edit, overtook between reading and writing.
THEOREM AlarmsAreHeld == Spec => AlarmHeld
<1> DEFINE A == doc.alarmed /\ ~doc'.alarmed =>
                  \/ op = Idle /\ op'.stage = "acked"
                  \/ Store /\ (Head(rtCh).overtaken \/ Head(rtCh).edited)
                  \/ doc.alarmDisabled
                  \/ pt.type = "analog" /\ insideLimits(pt, doc'.value)
<1>1. TypeOK /\ Pending /\ [Next]_vars => [A]_vars
  <2> SUFFICES ASSUME TypeOK, Pending, [Next]_vars, doc.alarmed, ~doc'.alarmed,
                      ~(op = Idle /\ op'.stage = "acked"), ~doc.alarmDisabled,
                      ~(Store /\ (Head(rtCh).overtaken \/ Head(rtCh).edited))
               PROVE  pt.type = "analog" /\ insideLimits(pt, doc'.value)
    OBVIOUS
  <2>1. CASE Store /\ Head(rtCh).stores
    <3> DEFINE w == Head(rtCh)
    <3>1. /\ FitsAlarm(w, pt, doc)
          /\ doc'.alarmed = w.set.alarmed /\ doc'.value = w.set.value
      BY <2>1, StoredFits
    <3>2. ~w.overtaken /\ ~w.edited
      BY <2>1
    <3> HIDE DEF w
    <3>3. ~w.set.alarmed
      BY <3>1, Zenon
    <3>4. pt.type = "analog" /\ insideLimits(pt, w.set.value)
      BY <3>1, <3>2, <3>3 DEF FitsAlarm
    <3> QED BY <3>1, <3>4
  <2>2. CASE Store /\ ~Head(rtCh).stores
    BY <2>2, StoreShape
  <2>3. CASE handleChange
    BY <2>3, HandleShape
  <2>4. CASE WriteProperties
    BY <2>4, WriteShape
  <2>5. CASE \/ AckAlarm \/ AckEvent \/ SilenceBeep \/ RangeCheck
             \/ MarkFrozen \/ MarkInvalid \/ UNCHANGED vars
             \/ \E s \in Updates[pt.type] : Update(s)
             \/ \E e \in Edits[pt.type] : ReadProperties(e)
    BY <2>5, OtherShape
  <2> QED BY <2>1, <2>2, <2>3, <2>4, <2>5 DEF Next
<1> QED BY <1>1, PendingFits, PTL DEF Spec, AlarmHeld

\* The error of the historian is below the dead band after every update that
\* no other overtook, for every dead band and however slowly the value drifts:
\* the comparison is with the value last recorded (historianLastValue), not
\* with the last one.
THEOREM HistorianFollows == Spec => HistorianTracks
<1> DEFINE A == /\ Store /\ Head(rtCh).stores /\ ~Head(rtCh).overtaken
                /\ pt.type = "analog" /\ pt.historianPeriod >= 0
                /\ ~Head(rtCh).sdu.isNotForHistorical
                => \/ doc'.historianLastValue = doc'.value
                   \/ /\ {NaN, Missing} \cap {doc'.value, doc'.historianLastValue} = {}
                      /\ Magnitude(doc'.value - doc'.historianLastValue)
                            < pt.historianDeadBand
<1>1. TypeOK /\ Pending /\ [Next]_vars => [A]_vars
  <2> DEFINE w == Head(rtCh)
  <2> SUFFICES ASSUME TypeOK, Pending, Store, w.stores, ~w.overtaken,
                      pt.type = "analog", pt.historianPeriod >= 0,
                      ~w.sdu.isNotForHistorical
               PROVE  \/ doc'.historianLastValue = doc'.value
                      \/ near(pt, doc'.value, doc'.historianLastValue)
    BY DEF near
  <2>1. /\ FitsHistorian(w, pt, doc) /\ doc'.value = w.set.value
        /\ doc'.historianLastValue =
              IF w.set.records THEN w.set.value ELSE doc.historianLastValue
    BY StoredFits
  <2>2. w.set.records \/ near(pt, w.set.value, doc.historianLastValue)
    BY <2>1 DEF FitsHistorian
  <2> QED BY <2>1, <2>2
<1> QED BY <1>1, PendingFits, PTL DEF Spec, HistorianTracks

\* A range that changes is the first entry the update leaves, unacknowledged
\* when it raises the alarm.
LEMMA RangeEntryFirst ==
    ASSUME NEW p, NEW d, NEW s,
           rangeChanged(p, d, valueOf(p, s)), alarmedOf(p, d, valueOf(p, s))
    PROVE  \E i \in DOMAIN soeOf(p, d, s) :
             soeOf(p, d, s)[i] = [kind |-> "range", value |-> valueOf(p, s), ack |-> 0]
<1> DEFINE v == valueOf(p, s)
           e == [kind |-> "range", value |-> v, ack |-> 0]
           a == analogEntry(p, d, s, v)
           b == digitalEntry(p, d, s, v)
           S == {e} \cup {[kind |-> "event", value |-> v, ack |-> n] : n \in {0, 1}}
<1>1. rangeEntry(p, d, v) = <<e>>
  BY DEF rangeEntry, Bit
<1>2. a \in Seq(S) /\ b \in Seq(S) /\ <<e>> \in Seq(S)
  <2>1. \A n \in {0, 1} : [kind |-> "event", value |-> v, ack |-> n] \in S
    OBVIOUS
  <2>2. e \in S
    OBVIOUS
  <2> HIDE DEF S, e
  <2>3. a \in {<<>>, <<[kind |-> "event", value |-> v, ack |-> 1]>>}
    BY Zenon DEF analogEntry
  <2>4. b \in {<<>>, <<[kind |-> "event", value |-> v, ack |-> 0]>>}
    BY Zenon DEF digitalEntry
  <2> HIDE DEF a, b, v
  <2>5. <<>> \in Seq(S) /\ \A x \in S : <<x>> \in Seq(S)
    OBVIOUS
  <2> QED BY <2>1, <2>2, <2>3, <2>4, <2>5
<1>3. soeOf(p, d, s) = (<<e>> \o a) \o b
  BY <1>1 DEF soeOf
<1> HIDE DEF a, b, e, S
<1>4. 1 \in DOMAIN ((<<e>> \o a) \o b) /\ ((<<e>> \o a) \o b)[1] = e
  BY <1>2
<1> QED BY <1>3, <1>4 DEF e, v


\* While an analog alarm stands in the document, or is on its way to it, an
\* entry of it has been made.
EntryInv == standing(doc, rtCh) => entry # "none"

\* A decision that carries an alarm found one standing, or makes an entry.
LEMMA AlarmBringsEntry ==
    ASSUME TypeOK, NEW s \in UpdateType, NEW full, pt.type = "analog",
           emitRt(s, full).set.alarmed, ~doc.alarmed
    PROVE  \E i \in DOMAIN soeOf(pt, doc, s) : isAlarmEntry(soeOf(pt, doc, s)[i])
<1>1. alarmedOf(pt, doc, valueOf(pt, s))
  <2>1. rtUpdate(pt, doc, s).alarmed
    BY EmittedType, Zenon
  <2> QED BY <2>1, SetOfUpdate DEF TypeOK
<1>2. rangeChanged(pt, doc, valueOf(pt, s))
  BY <1>1 DEF alarmedOf
<1>3. PICK i \in DOMAIN soeOf(pt, doc, s) :
        soeOf(pt, doc, s)[i] = [kind |-> "range", value |-> valueOf(pt, s), ack |-> 0]
  BY <1>1, <1>2, RangeEntryFirst
<1> QED BY <1>3 DEF isAlarmEntry

\* A handling keeps the entry invariant.
LEMMA HandleEntry ==
    ASSUME TypeOK, EntryInv, handleChange PROVE EntryInv'
<1> DEFINE s == Head(changes)
           entries == soeOf(pt, doc, s)
           alarms == {i \in DOMAIN entries : isAlarmEntry(entries[i])}
<1>1. /\ s \in UpdateType /\ UNCHANGED <<pt, doc>>
      /\ rtCh \in Seq(RtUpdateType)
  BY HandleShape DEF TypeOK
<1>2. PICK kept \in SUBSET DOMAIN entries :
        entry' = IF ~standing(doc, rtCh') THEN "none"
                 ELSE IF alarms \cap kept # {} THEN "listed"
                 ELSE IF alarms # {} /\ entry = "none" THEN "lost"
                 ELSE entry
  BY Zenon DEF handleChange
<1>3. ASSUME standing(doc, rtCh') PROVE entry # "none" \/ alarms # {}
  <2> SUFFICES ASSUME ~standing(doc, rtCh) PROVE alarms # {}
    BY DEF EntryInv
  <2>1. pt.type = "analog" /\ ~doc.alarmed
    BY <1>3, Zenon DEF standing
  <2>2. PICK i \in DOMAIN rtCh' : rtCh'[i].stores /\ rtCh'[i].set.alarmed
    BY <1>3, <2>1, Zenon DEF standing
  <2>3. ~(i \in DOMAIN rtCh /\ rtCh'[i] = rtCh[i])
    BY <2>1, <2>2, Zenon DEF standing
  <2>4. PICK full : rtCh' = Append(rtCh, emitRt(s, full))
    BY <2>2, <2>3, HandleShape
  <2>5. rtCh'[i] = emitRt(s, full)
    <3>1. emitRt(s, full) \in RtUpdateType
      BY <1>1, EmittedType
    <3> QED BY <1>1, <2>2, <2>3, <2>4, <3>1, QueueAppend
  <2>6. \E j \in DOMAIN entries : isAlarmEntry(entries[j])
    BY <1>1, <2>1, <2>2, <2>5, AlarmBringsEntry
  <2> QED BY <2>6
<1> HIDE DEF alarms, entries, s
<1>4. standing(doc, rtCh') => entry' # "none"
  BY <1>2, <1>3
<1>5. standing(doc, rtCh)' <=> standing(doc, rtCh')
  BY <1>1, Zenon DEF standing
<1> QED BY <1>4, <1>5 DEF EntryInv

\* Every step keeps the entry invariant: but for a handling, none brings an
\* alarm that did not stand before.
LEMMA EntryStep == TypeOK /\ EntryInv /\ [Next]_vars => EntryInv'
<1> SUFFICES ASSUME TypeOK, EntryInv, [Next]_vars PROVE EntryInv'
  OBVIOUS
<1>1. ASSUME pt'.type = pt.type,
             standing(doc', rtCh') => standing(doc, rtCh),
             \/ entry' = entry
             \/ entry' = IF standing(doc', rtCh') THEN entry ELSE "none"
      PROVE  EntryInv'
  <2>1. standing(doc, rtCh)' <=> standing(doc', rtCh')
    BY <1>1, Zenon DEF standing
  <2> QED BY <1>1, <2>1 DEF EntryInv
<1>2. CASE handleChange
  BY <1>2, HandleEntry
<1>3. CASE Store
  <2> DEFINE w == Head(rtCh)
             q == Tail(rtCh)
  <2>1. pt' = pt /\ rtCh # <<>> /\ q \in Seq(RtUpdateType)
    BY <1>3, StoreShape
  <2>2. /\ \A j \in DOMAIN q : j + 1 \in DOMAIN rtCh /\ q[j] = rtCh[j + 1]
        /\ 1 \in DOMAIN rtCh /\ w = rtCh[1]
    BY <2>1, QueueTail DEF TypeOK
  <2>3. ASSUME pt.type = "analog", doc'.alarmed PROVE standing(doc, rtCh)
    <3>1. CASE w.stores
      <4>1. doc'.alarmed = w.set.alarmed
        <5>1. doc' = applyUpdate(doc, w.set) /\ w \in RtUpdateType
          BY <1>3, <3>1, StoreShape
        <5>2. w.set \in RtSetType
          BY <5>1 DEF RtUpdateType
        <5> QED BY <5>1, <5>2, Applied DEF TypeOK
      <4>2. rtCh[1].stores /\ rtCh[1].set.alarmed
        BY <2>2, <2>3, <3>1, <4>1
      <4> QED BY <2>2, <2>3, <4>2, Zenon DEF standing
    <3>2. CASE ~w.stores
      BY <1>3, <2>3, <3>2, StoreShape, Zenon DEF standing
    <3> QED BY <3>1, <3>2
  <2>4. ASSUME pt.type = "analog", NEW i \in DOMAIN rtCh',
               rtCh'[i].stores, rtCh'[i].set.alarmed
        PROVE  standing(doc, rtCh)
    <3>1. i \in DOMAIN q /\ rtCh'[i].stores = q[i].stores
          /\ rtCh'[i].set = q[i].set
      <4>1. CASE w.stores
        <5>1. rtCh' = overtake(q)
          BY <1>3, <4>1, StoreShape
        <5> HIDE DEF q
        <5>2. i \in DOMAIN q /\ rtCh'[i] = [q[i] EXCEPT !.overtaken = TRUE]
          BY <2>1, <5>1, Marked
        <5>3. q[i] \in RtUpdateType
          BY <2>1, <5>2
        <5> QED BY <5>2, <5>3 DEF RtUpdateType
      <4>2. CASE ~w.stores
        BY <1>3, <4>2, StoreShape
      <4> QED BY <4>1, <4>2
    <3>2. i + 1 \in DOMAIN rtCh /\ rtCh[i + 1].stores /\ rtCh[i + 1].set.alarmed
      BY <2>2, <2>4, <3>1
    <3> QED BY <2>4, <3>2, Zenon DEF standing
  <2>5. standing(doc', rtCh') => standing(doc, rtCh)
    BY <2>3, <2>4, Zenon DEF standing
  <2>6. entry' = IF standing(doc', rtCh') THEN entry ELSE "none"
    BY <1>3, Zenon DEF Store
  <2> QED BY <1>1, <2>1, <2>5, <2>6
<1>4. CASE AckAlarm
  <2>1. pt' = pt /\ rtCh' = rtCh /\ doc'.alarmed = FALSE
    BY <1>4 DEF AckAlarm, TypeOK, DocType
  <2>2. entry' = IF standing(doc', rtCh) THEN entry ELSE "none"
    BY <1>4, Zenon DEF AckAlarm
  <2>3. standing(doc', rtCh) => standing(doc, rtCh)
    BY <2>1, Zenon DEF standing
  <2> QED BY <1>1, <2>1, <2>2, <2>3
<1>5. CASE WriteProperties
  <2>1. /\ pt'.type = pt.type /\ doc'.alarmed = doc.alarmed /\ entry' = entry
        /\ DOMAIN rtCh' = DOMAIN rtCh
        /\ \A i \in DOMAIN rtCh : /\ rtCh'[i].stores = rtCh[i].stores
                                  /\ rtCh'[i].set = rtCh[i].set
    <3>1. \A i \in DOMAIN rtCh : rtCh[i] \in RtUpdateType
      BY DEF TypeOK
    <3>2. \A w \in RtUpdateType : LET e == [w EXCEPT !.edited = TRUE]
                                  IN  e.stores = w.stores /\ e.set = w.set
      BY DEF RtUpdateType
    <3>3. entry' = entry
      BY <1>5 DEF WriteProperties
    <3> QED BY <1>5, <3>1, <3>2, <3>3, WriteShape
  <2>2. standing(doc', rtCh') => standing(doc, rtCh)
    BY <2>1, Zenon DEF standing
  <2> QED BY <1>1, <2>1, <2>2
<1>6. CASE \/ AckEvent \/ SilenceBeep \/ RangeCheck
           \/ MarkFrozen \/ MarkInvalid \/ UNCHANGED vars
           \/ \E s \in Updates[pt.type] : Update(s)
           \/ \E e \in Edits[pt.type] : ReadProperties(e)
  <2>1. pt' = pt /\ rtCh' = rtCh
    BY <1>6, OtherShape
  <2>2. doc'.alarmed = doc.alarmed /\ entry' = entry
    BY <1>6 DEF AckEvent, SilenceBeep, RangeCheck, MarkFrozen, MarkInvalid, vars,
                Update, ReadProperties, TypeOK, DocType
  <2>3. standing(doc', rtCh') => standing(doc, rtCh)
    BY <2>1, <2>2, Zenon DEF standing
  <2> QED BY <1>1, <2>1, <2>2, <2>3
<1> QED BY <1>2, <1>3, <1>4, <1>5, <1>6 DEF Next

\* No analog alarm without an entry, listed or lost in a full channel, that is
\* not older than the last time when no alarm stood or was on its way: for
\* every configuration, sequence of updates and requests, and overlap of them.
\* handleChange computes alarm and entry from one copy of the document.
THEOREM AlarmsAreRecorded == Spec => []AlarmRecorded
<1>1. Init => EntryInv
  BY DEF Init, EntryInv, standing
<1>2. EntryInv => AlarmRecorded
  BY DEF EntryInv, AlarmRecorded, standing
<1> QED BY <1>1, <1>2, EntryStep, TypeCorrect, PTL DEF Spec
=============================================================================
