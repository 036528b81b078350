------------------------ MODULE DataProcessorProofs ------------------------
(***************************************************************************)
(* Proofs about DataProcessor, for every set of points, configurations,    *)
(* updates and workers, every sharding, all sizes of the queues, and any   *)
(* number of updates and faults.                                           *)
(***************************************************************************)
EXTENDS DataProcessor, FiniteSetTheorems, SequenceTheorems, TLAPS

-----------------------------------------------------------------------------
(* Sequences.                                                              *)

\* What a queue holds.
elems(q) == {q[i] : i \in DOMAIN q}

\* u is not overtaken by v: they are not of one point, or v is not older.
Later(u, v) == u.point = v.point /\ u.point # "system" => u.id <= v.id

Before(U, V) == \A u \in U, v \in V : Later(u, v)

Sorted(q) == \A i, j \in DOMAIN q : i < j => Later(q[i], q[j])

\* Adding, taking and joining, as sets.
LEMMA AppendElems ==
    ASSUME NEW S, NEW q \in Seq(S), NEW x
    PROVE  elems(Append(q, x)) = elems(q) \cup {x}
<1>1. /\ Len(Append(q, x)) = Len(q) + 1
      /\ DOMAIN Append(q, x) = 1 .. Len(q) + 1
      /\ \A i \in 1 .. Len(q) : Append(q, x)[i] = q[i]
      /\ Append(q, x)[Len(q) + 1] = x
  OBVIOUS
<1>2. ASSUME NEW y \in elems(Append(q, x)) PROVE y \in elems(q) \cup {x}
  <2>1. PICK i \in 1 .. Len(q) + 1 : y = Append(q, x)[i]
    BY <1>1 DEF elems
  <2>2. CASE i = Len(q) + 1
    BY <1>1, <2>1, <2>2
  <2>3. CASE i \in 1 .. Len(q)
    BY <1>1, <2>1, <2>3 DEF elems
  <2> QED BY <2>2, <2>3
<1>3. x \in elems(Append(q, x))
  BY <1>1 DEF elems
<1>4. ASSUME NEW i \in DOMAIN q PROVE q[i] \in elems(Append(q, x))
  BY <1>1 DEF elems
<1> QED BY <1>2, <1>3, <1>4 DEF elems

\* A queue holds its head and what is in its tail.
LEMMA TailElems ==
    ASSUME NEW S, NEW q \in Seq(S), q # <<>>
    PROVE  /\ Head(q) \in elems(q)
           /\ elems(Tail(q)) \subseteq elems(q)
           /\ elems(q) = {Head(q)} \cup elems(Tail(q))
<1>1. /\ Head(q) = q[1] /\ Len(q) \in Nat \ {0} /\ DOMAIN q = 1 .. Len(q)
      /\ DOMAIN Tail(q) = 1 .. Len(q) - 1
      /\ \A i \in 1 .. Len(q) - 1 : Tail(q)[i] = q[i + 1]
  OBVIOUS
<1>2. Head(q) \in elems(q)
  BY <1>1 DEF elems
<1>3. ASSUME NEW y \in elems(Tail(q)) PROVE y \in elems(q)
  <2>1. PICK i \in 1 .. Len(q) - 1 : y = q[i + 1]
    BY <1>1 DEF elems
  <2> QED BY <1>1, <2>1 DEF elems
<1>4. ASSUME NEW i \in 1 .. Len(q), i # 1 PROVE q[i] \in elems(Tail(q))
  <2>1. i - 1 \in 1 .. Len(q) - 1 /\ Tail(q)[i - 1] = q[i]
    BY <1>1, <1>4
  <2> QED BY <1>1, <2>1 DEF elems
<1>5. elems(q) \subseteq {Head(q)} \cup elems(Tail(q))
  BY <1>1, <1>4 DEF elems
<1> QED BY <1>2, <1>3, <1>5

\* Two queues joined hold what either holds.
LEMMA ConcatElems ==
    ASSUME NEW S, NEW a \in Seq(S), NEW b \in Seq(S)
    PROVE  elems(a \o b) = elems(a) \cup elems(b)
<1>1. /\ DOMAIN a = 1 .. Len(a) /\ DOMAIN b = 1 .. Len(b)
      /\ DOMAIN (a \o b) = 1 .. Len(a) + Len(b)
      /\ Len(a) \in Nat /\ Len(b) \in Nat
      /\ \A i \in 1 .. Len(a) : (a \o b)[i] = a[i]
      /\ \A i \in 1 .. Len(b) : (a \o b)[Len(a) + i] = b[i]
  OBVIOUS
<1>2. ASSUME NEW y \in elems(a \o b) PROVE y \in elems(a) \cup elems(b)
  <2>1. PICK i \in 1 .. Len(a) + Len(b) : y = (a \o b)[i]
    BY <1>1 DEF elems
  <2>2. CASE i \in 1 .. Len(a)
    BY <1>1, <2>1, <2>2 DEF elems
  <2>3. CASE i \notin 1 .. Len(a)
    <3>1. /\ i - Len(a) \in 1 .. Len(b)
          /\ Len(a) + (i - Len(a)) = i
      BY <1>1, <2>3
    <3>2. (a \o b)[i] = b[i - Len(a)]
      BY <1>1, <3>1
    <3> QED BY <1>1, <2>1, <3>1, <3>2 DEF elems
  <2> QED BY <2>2, <2>3
<1>3. ASSUME NEW i \in 1 .. Len(a) PROVE a[i] \in elems(a \o b)
  BY <1>1 DEF elems
<1>4. ASSUME NEW i \in 1 .. Len(b) PROVE b[i] \in elems(a \o b)
  <2>1. Len(a) + i \in 1 .. Len(a) + Len(b)
    BY <1>1
  <2> QED BY <1>1, <2>1 DEF elems
<1>5. elems(a) \cup elems(b) \subseteq elems(a \o b)
  BY <1>1, <1>3, <1>4, Zenon DEF elems
<1> QED BY <1>2, <1>5, Zenon

\* A prefix holds nothing else.
LEMMA PrefixElems ==
    ASSUME NEW S, NEW q \in Seq(S), NEW n \in 0 .. Len(q)
    PROVE  elems(SubSeq(q, 1, n)) \subseteq elems(q)
<1>1. /\ DOMAIN q = 1 .. Len(q) /\ DOMAIN SubSeq(q, 1, n) = 1 .. n
      /\ \A i \in 1 .. n : SubSeq(q, 1, n)[i] = q[i]
  OBVIOUS
<1> QED BY <1>1 DEF elems

\* A queue joined from two is in order when both are, and nothing of the
\* second is older than something of the first.
LEMMA ConcatSorted ==
    ASSUME NEW S, NEW a \in Seq(S), NEW b \in Seq(S)
    PROVE  Sorted(a \o b) <=> /\ Sorted(a) /\ Sorted(b)
                              /\ Before(elems(a), elems(b))
<1>1. /\ DOMAIN a = 1 .. Len(a) /\ DOMAIN b = 1 .. Len(b)
      /\ DOMAIN (a \o b) = 1 .. Len(a) + Len(b)
      /\ Len(a) \in Nat /\ Len(b) \in Nat
      /\ \A i \in 1 .. Len(a) : (a \o b)[i] = a[i]
      /\ \A i \in 1 .. Len(b) : (a \o b)[Len(a) + i] = b[i]
  OBVIOUS
<1>2. ASSUME Sorted(a \o b)
      PROVE  Sorted(a) /\ Sorted(b) /\ Before(elems(a), elems(b))
  <2>1. ASSUME NEW i \in 1 .. Len(a), NEW j \in 1 .. Len(a), i < j
        PROVE  Later(a[i], a[j])
    BY <1>1, <1>2, <2>1 DEF Sorted
  <2>2. ASSUME NEW i \in 1 .. Len(b), NEW j \in 1 .. Len(b), i < j
        PROVE  Later(b[i], b[j])
    <3>1. /\ Len(a) + i \in DOMAIN (a \o b) /\ Len(a) + j \in DOMAIN (a \o b)
          /\ Len(a) + i < Len(a) + j
      BY <1>1, <2>2
    <3>2. Later((a \o b)[Len(a) + i], (a \o b)[Len(a) + j])
      BY <1>2, <3>1 DEF Sorted
    <3> QED BY <1>1, <3>2
  <2>3. ASSUME NEW i \in 1 .. Len(a), NEW j \in 1 .. Len(b)
        PROVE  Later(a[i], b[j])
    <3>1. /\ i \in DOMAIN (a \o b) /\ Len(a) + j \in DOMAIN (a \o b)
          /\ i < Len(a) + j
      BY <1>1, <2>3
    <3>2. Later((a \o b)[i], (a \o b)[Len(a) + j])
      BY <1>2, <3>1 DEF Sorted
    <3> QED BY <1>1, <3>2
  <2> QED BY <1>1, <2>1, <2>2, <2>3 DEF Sorted, Before, elems
<1>3. ASSUME Sorted(a), Sorted(b), Before(elems(a), elems(b)),
             NEW i \in 1 .. Len(a) + Len(b), NEW j \in 1 .. Len(a) + Len(b), i < j
      PROVE  Later((a \o b)[i], (a \o b)[j])
  <2>1. CASE j \in 1 .. Len(a)
    <3>1. i \in 1 .. Len(a)
      BY <1>3, <2>1
    <3> QED BY <1>1, <1>3, <2>1, <3>1 DEF Sorted
  <2>2. CASE j \notin 1 .. Len(a)
    <3>1. /\ j - Len(a) \in 1 .. Len(b)
          /\ Len(a) + (j - Len(a)) = j
      BY <1>1, <2>2
    <3>2. (a \o b)[j] = b[j - Len(a)]
      BY <1>1, <3>1
    <3>3. CASE i \in 1 .. Len(a)
      <4>1. a[i] \in elems(a) /\ b[j - Len(a)] \in elems(b)
        BY <1>1, <3>1, <3>3 DEF elems
      <4> QED BY <1>1, <1>3, <3>2, <3>3, <4>1 DEF Before
    <3>4. CASE i \notin 1 .. Len(a)
      <4>1. /\ i - Len(a) \in 1 .. Len(b)
            /\ Len(a) + (i - Len(a)) = i
            /\ i - Len(a) < j - Len(a)
        BY <1>1, <1>3, <3>4
      <4>2. (a \o b)[i] = b[i - Len(a)]
        BY <1>1, <4>1
      <4> QED BY <1>1, <1>3, <3>1, <3>2, <4>1, <4>2 DEF Sorted
    <3> QED BY <3>3, <3>4
  <2> QED BY <2>1, <2>2
<1> QED BY <1>1, <1>2, <1>3 DEF Sorted

\* The head of a queue in order is not later than the rest.
LEMMA TailSorted ==
    ASSUME NEW S, NEW q \in Seq(S), q # <<>>, Sorted(q)
    PROVE  /\ Sorted(Tail(q))
           /\ Before({Head(q)}, elems(Tail(q)))
<1>1. /\ Head(q) = q[1] /\ Len(q) \in Nat \ {0} /\ DOMAIN q = 1 .. Len(q)
      /\ DOMAIN Tail(q) = 1 .. Len(q) - 1
      /\ \A i \in 1 .. Len(q) - 1 : Tail(q)[i] = q[i + 1]
  OBVIOUS
<1>2. ASSUME NEW i \in 1 .. Len(q) - 1, NEW j \in 1 .. Len(q) - 1, i < j
      PROVE  Later(q[i + 1], q[j + 1])
  BY <1>1, <1>2 DEF Sorted
<1>3. ASSUME NEW i \in 1 .. Len(q) - 1 PROVE Later(q[1], q[i + 1])
  BY <1>1, <1>3 DEF Sorted
<1> QED BY <1>1, <1>2, <1>3 DEF Sorted, Before, elems

\* A prefix of a queue in order is in order.
LEMMA PrefixSorted ==
    ASSUME NEW S, NEW q \in Seq(S), NEW n \in 0 .. Len(q), Sorted(q)
    PROVE  Sorted(SubSeq(q, 1, n))
<1>1. /\ DOMAIN q = 1 .. Len(q) /\ DOMAIN SubSeq(q, 1, n) = 1 .. n
      /\ \A i \in 1 .. n : SubSeq(q, 1, n)[i] = q[i]
  OBVIOUS
<1> QED BY <1>1 DEF Sorted

\* Queues of one or no item.
LEMMA SingleSorted ==
    ASSUME NEW x
    PROVE  Sorted(<<x>>) /\ Sorted(<<>>) /\ elems(<<x>>) = {x} /\ elems(<<>>) = {}
  BY DEF Sorted, elems

\* An item not earlier than all in the queue may be appended.
LEMMA AppendSorted ==
    ASSUME NEW S, NEW q \in Seq(S), NEW x \in S, Sorted(q), Before(elems(q), {x})
    PROVE  Sorted(Append(q, x))
<1> DEFINE one == <<x>>
<1>1. Append(q, x) = q \o one /\ one \in Seq(S)
  OBVIOUS
<1>2. Sorted(one) /\ elems(one) = {x}
  BY SingleSorted
<1> HIDE DEF one
<1>3. Sorted(q \o one)
  BY <1>1, <1>2, ConcatSorted
<1> QED BY <1>1, <1>3, Zenon

\* An item that moves from the front of one queue to the end of the one
\* before it leaves the two together as they were.
LEMMA MoveHead ==
    ASSUME NEW S, NEW a \in Seq(S), NEW b \in Seq(S), b # <<>>
    PROVE  Append(a, Head(b)) \o Tail(b) = a \o b
<1>1. b = <<Head(b)>> \o Tail(b) /\ Head(b) \in S /\ Tail(b) \in Seq(S)
  OBVIOUS
<1>2. Append(a, Head(b)) = a \o <<Head(b)>> /\ <<Head(b)>> \in Seq(S)
  BY <1>1
<1>3. (a \o <<Head(b)>>) \o Tail(b) = a \o (<<Head(b)>> \o Tail(b))
  BY <1>1, <1>2, ConcatAssociative
<1> QED BY <1>1, <1>2, <1>3

\* What a queue holds is of the queue's type.
LEMMA ElemsType ==
    ASSUME NEW S, NEW q \in Seq(S)
    PROVE  elems(q) \subseteq S
  BY DEF elems

-----------------------------------------------------------------------------
(* What the operators of PointConversion return.                           *)

\* The conversion always yields a number, NaN included.
LEMMA ValueIsNumber ==
    ASSUME NEW p \in PointType, NEW s \in UpdateType
    PROVE  valueOf(p, s) \in Number
<1>1. usable(s) \in Int
  BY SpecialNumbers DEF usable, UpdateType, Number
<1>2. digitalValue(p, s) \in Int
  BY <1>1, SpecialNumbers DEF digitalValue, Bit, PointType
<1>3. analogValue(p, s) \in Number
  <2>1. CASE s.valueAtSource = NaN
    BY <2>1 DEF analogValue, Number
  <2>2. CASE s.valueAtSource = Missing
    BY <2>2, SpecialNumbers DEF analogValue, Number, PointType
  <2>3. CASE s.valueAtSource \in Int
    <3>1. s.valueAtSource * p.kconv1 + p.kconv2 \in Int
      BY <2>3 DEF PointType
    <3>2. s.valueAtSource \notin {NaN, Missing}
      BY <2>3, SpecialNumbers
    <3> QED BY <3>1, <3>2 DEF analogValue, Number
  <2> QED BY <2>1, <2>2, <2>3 DEF UpdateType, Number
<1> QED BY <1>2, <1>3 DEF valueOf, Number

\* The part of a $set that an update of the point's document carries.
StoreType ==
    [value : Number, invalid : BOOLEAN, alarmed : BOOLEAN,
     alarmRange : {-1, 0, 1}, timeTagAtSource : Nat, records : BOOLEAN]

\* What is written for an update holds its value, its source time, and the
\* range of the value after the document it is computed from.
LEMMA StoreOfUpdate ==
    ASSUME NEW p \in PointType, NEW d \in DocType, NEW s \in UpdateType
    PROVE  LET u == rtUpdate(p, d, s)
           IN  /\ u \in StoreType
               /\ u.value = valueOf(p, s)
               /\ u.alarmRange = alarmRangeOf(p, d, valueOf(p, s))
               /\ u.timeTagAtSource = s.timeTagAtSource
<1> DEFINE v == valueOf(p, s)
<1>1. v \in Number
  BY ValueIsNumber
<1>2. alarmRangeOf(p, d, v) \in {-1, 0, 1}
  BY <1>1, SpecialNumbers DEF alarmRangeOf, DocType
<1>3. (alarmedOf(p, d, v) /\ ~d.alarmDisabled) \in BOOLEAN
  OBVIOUS
<1>4. invalidOf(p, s) \in BOOLEAN
  BY DEF invalidOf, UpdateType
<1>5. (p.type = "analog" /\ insertIntoHistorian(p, d, s)) \in BOOLEAN
  OBVIOUS
<1>6. s.timeTagAtSource \in Nat
  BY DEF UpdateType
<1>7. /\ rtUpdate(p, d, s).value = v
      /\ rtUpdate(p, d, s).alarmRange = alarmRangeOf(p, d, v)
      /\ rtUpdate(p, d, s).timeTagAtSource = s.timeTagAtSource
  BY Zenon DEF rtUpdate
<1>8. rtUpdate(p, d, s) \in StoreType
  BY <1>1, <1>2, <1>3, <1>4, <1>5, <1>6, Zenon DEF rtUpdate, StoreType
<1> QED BY <1>7, <1>8

\* Applied to a document, it leaves a document.
LEMMA StoreApplied ==
    ASSUME NEW d \in DocType, NEW u \in StoreType
    PROVE  /\ applyUpdate(d, u) \in DocType
           /\ applyUpdate(d, u).value = u.value
           /\ applyUpdate(d, u).alarmRange = u.alarmRange
           /\ applyUpdate(d, u).timeTagAtSource = u.timeTagAtSource
           /\ applyUpdate(d, u).alarmDisabled = d.alarmDisabled
<1>1. (IF u.records THEN u.value ELSE d.historianLastValue) \in Number \cup {Missing}
  BY DEF StoreType, DocType
<1>2. applyUpdate(d, u) \in DocType
  BY <1>1 DEF applyUpdate, DocType, StoreType
<1> QED BY <1>2 DEF applyUpdate, DocType

-----------------------------------------------------------------------------
(* What the stages hand on.                                                *)

Ids == 1 .. MaxUpdates

\* An event of the stream, and an update on its way to realtimeData: of a
\* system point, or of the point of the event.
Event == [id : Ids, op : {"update"}, point : Points, sdu : UpdateType,
          fullDocument : DocType]

SystemItem == [point : {"system"}, id : Ids]

PointItem == [point : Points, id : Ids, set : StoreType]

Item == SystemItem \cup PointItem

\* The updates an event leads to carry its id; one of a point is of its point,
\* and has the value of its update.
ItemsOf(ev) ==
    {u \in Item :
        /\ u.id = ev.id
        /\ u.point # "system" =>
             /\ u.point = ev.point
             /\ u.set.value = valueOf(Config[ev.point], ev.sdu)
             /\ u.set.timeTagAtSource = ev.sdu.timeTagAtSource}

\* The fields of an event the workers read.
LEMMA EventFields ==
    ASSUME NEW ev \in Event
    PROVE  /\ ev.id \in Ids /\ ev.op = "update" /\ ev.point \in Points
           /\ ev.sdu \in UpdateType /\ ev.fullDocument \in DocType
           /\ Config[ev.point] \in PointType
           /\ ev.point # "system"
  BY PipelineAssumption DEF Event

\* What HandleChange puts on the writer's channel belongs to the event.
LEMMA PointItemOf ==
    ASSUME NEW ev \in Event
    PROVE  [point |-> ev.point, id |-> ev.id,
            set |-> rtUpdate(Config[ev.point], ev.fullDocument, ev.sdu)] \in ItemsOf(ev)
<1> DEFINE set == rtUpdate(Config[ev.point], ev.fullDocument, ev.sdu)
           u == [point |-> ev.point, id |-> ev.id, set |-> set]
<1>1. /\ set \in StoreType
      /\ set.value = valueOf(Config[ev.point], ev.sdu)
      /\ set.timeTagAtSource = ev.sdu.timeTagAtSource
  BY EventFields, StoreOfUpdate
<1> HIDE DEF set
<1>2. u \in PointItem /\ u.id = ev.id /\ u.point = ev.point /\ u.set = set
  BY <1>1, EventFields DEF PointItem
<1> HIDE DEF u
<1>3. u \in ItemsOf(ev)
  BY <1>1, <1>2 DEF ItemsOf, Item
<1> QED BY <1>3 DEF u, set

\* rtUpdates yields a sequence of such updates, and keeps the update of the
\* point if it is to be stored.
LEMMA RtUpdates ==
    ASSUME NEW ev \in Event
    PROVE  /\ rtUpdates(ev) \in Seq(ItemsOf(ev))
           /\ storesPoint(Config[ev.point], ev.fullDocument, ev.sdu) =>
                \E u \in elems(rtUpdates(ev)) : u.point = ev.point
<1> DEFINE pt == Config[ev.point]
           fd == ev.fullDocument
           sys == [point |-> "system", id |-> ev.id]
           own == [point |-> ev.point, id |-> ev.id, set |-> rtUpdate(pt, fd, ev.sdu)]
           a == IF beepOf(pt, fd, ev.sdu) # "none" THEN <<sys>> ELSE <<>>
           b == IF pt.type = "digital" /\ ~fd.alarmDisabled THEN <<sys>> ELSE <<>>
           c == IF storesPoint(pt, fd, ev.sdu) THEN <<own>> ELSE <<>>
           S == ItemsOf(ev)
<1>1. sys \in S
  <2>1. sys \in SystemItem /\ sys.point = "system" /\ sys.id = ev.id
    BY EventFields DEF SystemItem
  <2> QED BY <2>1 DEF ItemsOf, Item
<1>2. own \in S /\ own.point = ev.point
  BY PointItemOf
<1>3. rtUpdates(ev) = IF ~accepted(pt, fd, ev.sdu) THEN <<>> ELSE (a \o b) \o c
  BY DEF rtUpdates
<1> HIDE DEF sys, own, S
<1>4. a \in Seq(S) /\ b \in Seq(S) /\ c \in Seq(S)
  BY <1>1, <1>2
<1> HIDE DEF a, b
<1>5. (a \o b) \in Seq(S)
  BY <1>4
<1>6. (a \o b) \o c \in Seq(S) /\ <<>> \in Seq(S)
  BY <1>4, <1>5
<1>7. ASSUME storesPoint(pt, fd, ev.sdu)
      PROVE  accepted(pt, fd, ev.sdu) /\ own \in elems((a \o b) \o c)
  <2>1. elems(c) = {own}
    BY <1>7, SingleSorted
  <2>2. elems((a \o b) \o c) = elems(a \o b) \cup elems(c)
    <3> DEFINE ab == a \o b
    <3>1. ab \in Seq(S) /\ c \in Seq(S)
      BY <1>4, <1>5
    <3> HIDE DEF ab, c
    <3>2. elems(ab \o c) = elems(ab) \cup elems(c)
      BY <3>1, ConcatElems, Zenon
    <3> QED BY <3>2, Zenon DEF ab
  <2>3. accepted(pt, fd, ev.sdu)
    BY <1>7 DEF storesPoint
  <2>4. own \in elems((a \o b) \o c)
    <3> HIDE DEF c
    <3> QED BY <2>1, <2>2
  <2> QED BY <2>3, <2>4, Zenon
<1> HIDE DEF c
<1>8. rtUpdates(ev) \in Seq(S)
  BY <1>3, <1>6
<1>9. storesPoint(pt, fd, ev.sdu) => \E u \in elems(rtUpdates(ev)) : u.point = ev.point
  BY <1>2, <1>3, <1>7
<1> QED BY <1>8, <1>9 DEF S

\* At most one of something is a sequence of it.
LEMMA AtMostOne ==
    ASSUME NEW T, NEW x \in T, NEW q, q = <<x>> \/ q = <<>>
    PROVE  q \in Seq(T)
<1>1. <<x>> \in Seq(T) /\ <<>> \in Seq(T)
  OBVIOUS
<1> QED BY <1>1, Zenon

\* Every entry of an event carries its id.
LEMMA SoeEntries ==
    ASSUME NEW ev \in Event
    PROVE  soeEntries(ev) \in Seq(Nat)
<1> DEFINE pt == Config[ev.point]
           fd == ev.fullDocument
           v == valueOf(pt, ev.sdu)
           a == rangeEntry(pt, fd, v)
           b == analogEntry(pt, fd, ev.sdu, v)
           c == digitalEntry(pt, fd, ev.sdu, v)
<1>1. PICK x : a = <<x>> \/ a = <<>>
  BY DEF rangeEntry
<1>2. PICK y : b = <<y>> \/ b = <<>>
  BY DEF analogEntry
<1>3. PICK z : c = <<z>> \/ c = <<>>
  BY DEF digitalEntry
<1>4. soeOf(pt, fd, ev.sdu) = (a \o b) \o c
  BY DEF soeOf
<1> HIDE DEF a, b, c
<1> DEFINE T == {x, y, z}
<1>5. x \in T /\ y \in T /\ z \in T
  OBVIOUS
<1> HIDE DEF T
<1>a. a \in Seq(T)
  BY <1>1, <1>5, AtMostOne, Zenon
<1>b. b \in Seq(T)
  BY <1>2, <1>5, AtMostOne, Zenon
<1>c. c \in Seq(T)
  BY <1>3, <1>5, AtMostOne, Zenon
<1>6. (a \o b) \o c \in Seq(T)
  BY <1>a, <1>b, <1>c
<1>7. PICK n \in Nat : DOMAIN soeOf(pt, fd, ev.sdu) = 1 .. n
  BY <1>4, <1>6
<1>8. ev.id \in Nat
  BY EventFields, PipelineAssumption DEF Ids
<1>9. soeEntries(ev) \in [1 .. n -> Nat]
  BY <1>7, <1>8 DEF soeEntries
<1> QED BY <1>9

\* emit keeps the front of what was there and of what came, within the bound.
LEMMA Emitted ==
    ASSUME NEW S, NEW ch \in Seq(S), NEW new \in Seq(S)
    PROVE  /\ emit(ch, new) \in Seq(S)
           /\ Len(emit(ch, new)) <= WriteQueueSize
           /\ elems(emit(ch, new)) \subseteq elems(ch) \cup elems(new)
           /\ fits(ch, new) => emit(ch, new) = ch \o new
           /\ Sorted(ch \o new) => Sorted(emit(ch, new))
<1> DEFINE all == ch \o new
           n == IF Len(all) < WriteQueueSize THEN Len(all) ELSE WriteQueueSize
<1>1. all \in Seq(S) /\ Len(all) \in Nat
  OBVIOUS
<1>2. elems(all) = elems(ch) \cup elems(new)
  BY ConcatElems
<1>3. n \in 0 .. Len(all) /\ n <= WriteQueueSize /\ WriteQueueSize \in Nat
  BY <1>1, PipelineAssumption
<1>4. emit(ch, new) = SubSeq(all, 1, n) /\ (fits(ch, new) <=> Len(all) <= WriteQueueSize)
  BY DEF emit, fits
<1> HIDE DEF all
<1>5. fits(ch, new) => n = Len(all)
  <2>1. ASSUME NEW k \in Nat, NEW w \in Nat, k <= w
        PROVE  (IF k < w THEN k ELSE w) = k
    BY <2>1
  <2> QED BY <1>1, <1>3, <1>4, <2>1
<1> HIDE DEF n
<1>6. SubSeq(all, 1, n) \in Seq(S) /\ Len(SubSeq(all, 1, n)) = n
  BY <1>1, <1>3
<1>7. n = Len(all) => SubSeq(all, 1, n) = all
  BY <1>1
<1>8. elems(SubSeq(all, 1, n)) \subseteq elems(all)
  BY <1>1, <1>3, PrefixElems
<1>9. Sorted(all) => Sorted(SubSeq(all, 1, n))
  BY <1>1, <1>3, PrefixSorted
<1>10. /\ emit(ch, new) \in Seq(S)
       /\ Len(emit(ch, new)) <= WriteQueueSize
  BY <1>3, <1>4, <1>6
<1>11. elems(emit(ch, new)) \subseteq elems(ch) \cup elems(new)
  BY <1>2, <1>4, <1>8
<1>12. fits(ch, new) => emit(ch, new) = ch \o new
  BY <1>4, <1>5, <1>7 DEF all
<1>13. Sorted(ch \o new) => Sorted(emit(ch, new))
  BY <1>4, <1>9 DEF all
<1> QED BY <1>10, <1>11, <1>12, <1>13

-----------------------------------------------------------------------------
(* Types.                                                                  *)

\* The oplog and the positions of the cursor and of its tokens.
StreamType ==
    /\ oplog \in Seq(Changes)
    /\ \A i \in DOMAIN oplog : oplog[i].id = i
    /\ pos \in 0 .. Len(oplog)
    /\ resumeToken \in 0 .. pos /\ prevResumeToken \in 0 .. resumeToken

\* What is on its way.
QueueType ==
    /\ changeCh \in Seq(Event) /\ inbox \in [Workers -> Seq(Event)]
    /\ rtCh \in Seq(Item) /\ batch \in Seq(Item) /\ wire \in Seq(Item)
    /\ soeCh \in Seq(Nat)

QueueBounds ==
    /\ Len(changeCh) <= ChangeQueueSize
    /\ \A w \in Workers :
          Len(inbox[w]) <= ChangeQueueSize \div Cardinality(Workers) + 1
    /\ Len(rtCh) <= WriteQueueSize /\ Len(soeCh) <= WriteQueueSize
    /\ Len(batch) <= RtWriteMaxBatch

StoreTypeOK ==
    /\ docs \in [Points -> DocType]
    /\ applied \in [Points -> 0 .. MaxUpdates]

FlagType ==
    /\ inserted \subseteq Points /\ mirror \subseteq Points
    /\ connected \in BOOLEAN /\ tokenHeld \in BOOLEAN
    /\ role \in {"starting", "active", "standby", "off"}
    /\ lost \subseteq {"start", "skip", "change", "rt", "soe", "write",
                       "starting", "standby", "off"}
    /\ faults \in 0 .. MaxFaults

Types == StreamType /\ QueueType /\ StoreTypeOK /\ FlagType

\* The share of a worker in the queue of changes is a number.
LEMMA Share == ChangeQueueSize \div Cardinality(Workers) \in Nat \/ Workers = {}
<1>1. Cardinality(Workers) \in Nat /\ (Cardinality(Workers) = 0 => Workers = {})
  BY PipelineAssumption, FS_CardinalityType, FS_EmptySet
<1>2. ChangeQueueSize \in Nat
  BY PipelineAssumption
<1> QED BY <1>1, <1>2

\* The change at a position, and the event made of an update.
LEMMA ChangeFields ==
    ASSUME StreamType, NEW i \in 1 .. Len(oplog)
    PROVE  /\ oplog[i].id = i /\ oplog[i].point \in Points
           /\ i \in Ids
           /\ oplog[i].op \in {"update", "insert"}
           /\ oplog[i].op = "update" => oplog[i].sdu \in UpdateType
<1>1. oplog[i] \in Changes /\ oplog[i].id = i
  BY DEF StreamType
<1> QED BY <1>1 DEF Changes, Ids

EventOf(i) == [id |-> oplog[i].id, op |-> oplog[i].op, point |-> oplog[i].point,
               sdu |-> oplog[i].sdu, fullDocument |-> docs[oplog[i].point]]

\* An update of the oplog, with its document looked up, is an event.
LEMMA EventOfUpdate ==
    ASSUME StreamType, StoreTypeOK, NEW i \in 1 .. Len(oplog), matches(oplog[i])
    PROVE  EventOf(i) \in Event
<1>1. docs[oplog[i].point] \in DocType
  BY ChangeFields DEF StoreTypeOK
<1> QED BY <1>1, ChangeFields DEF matches, Event, EventOf

\* What the driver writes is an update of the declared type.
LEMMA DriverChange ==
    ASSUME NEW s \in Updates, NEW t \in Nat
    PROVE  [s EXCEPT !.timeTagAtSource = t] \in UpdateType
<1>1. s \in UpdateType
  BY PipelineAssumption
<1> QED BY <1>1 DEF UpdateType

\* The oplog only grows, and keeps what it has.
Grows ==
    /\ Len(oplog) <= Len(oplog')
    /\ \A i \in 1 .. Len(oplog) : oplog'[i] = oplog[i]

\* A change appended to the oplog leaves the earlier ones where they are.
LEMMA OplogAppend ==
    ASSUME StreamType, NEW e \in Changes, e.id = Len(oplog) + 1,
           oplog' = Append(oplog, e)
    PROVE  /\ oplog' \in Seq(Changes)
           /\ \A i \in DOMAIN oplog' : oplog'[i].id = i
           /\ Len(oplog') = Len(oplog) + 1
           /\ Grows
<1>1. oplog \in Seq(Changes) /\ \A i \in 1 .. Len(oplog) : oplog[i].id = i
  BY DEF StreamType
<1>2. /\ oplog' \in Seq(Changes)
      /\ Len(oplog') = Len(oplog) + 1 /\ DOMAIN oplog' = 1 .. Len(oplog) + 1
      /\ \A i \in 1 .. Len(oplog) : oplog'[i] = oplog[i]
      /\ oplog'[Len(oplog) + 1] = e
  BY <1>1
<1>3. ASSUME NEW i \in DOMAIN oplog' PROVE oplog'[i].id = i
  BY <1>1, <1>2
<1> QED BY <1>1, <1>2, <1>3 DEF Grows

\* Driver writes and insertions append a change.
LEMMA DriverAppends ==
    ASSUME StreamType, NEW p \in Points, NEW s \in Updates, DriverWrite(p, s)
    PROVE  \E e \in Changes : /\ e.id = Len(oplog) + 1 /\ e.op = "update"
                              /\ oplog' = Append(oplog, e)
                              /\ e.sdu.timeTagAtSource = IF Timestamped THEN e.id ELSE 0
                              /\ \E r \in Updates : e.sdu.isHistorical = r.isHistorical
<1> DEFINE id == Len(oplog) + 1
           t == IF Timestamped THEN id ELSE 0
           sdu == [s EXCEPT !.timeTagAtSource = t]
           e == [op |-> "update", point |-> p, id |-> id, sdu |-> sdu]
<1>1. Len(oplog) \in Nat /\ id \in 1 .. MaxUpdates
  BY PipelineAssumption DEF StreamType, DriverWrite
<1>2. t \in Nat
  BY <1>1
<1>3. sdu \in UpdateType /\ s \in UpdateType
  BY <1>2, DriverChange, PipelineAssumption
<1>4. sdu.timeTagAtSource = t /\ sdu.isHistorical = s.isHistorical
  BY <1>3 DEF UpdateType
<1>5. oplog' = Append(oplog, e)
  BY DEF DriverWrite
<1> HIDE DEF sdu, id, t
<1>6. e \in Changes /\ e.id = id /\ e.op = "update" /\ e.sdu = sdu
  BY <1>1, <1>3 DEF Changes
<1> HIDE DEF e
<1> QED BY <1>4, <1>5, <1>6 DEF t, id

\* The insertion of a point appends one change.
LEMMA InsertAppends ==
    ASSUME StreamType, NEW p \in Points, InsertPoint(p)
    PROVE  \E e \in Changes : /\ e.id = Len(oplog) + 1 /\ e.op = "insert"
                              /\ oplog' = Append(oplog, e)
<1> DEFINE id == Len(oplog) + 1
           e == [op |-> "insert", point |-> p, id |-> id]
<1>1. Len(oplog) \in Nat /\ id \in 1 .. MaxUpdates
  BY PipelineAssumption DEF StreamType, InsertPoint
<1>2. oplog' = Append(oplog, e)
  BY DEF InsertPoint
<1> HIDE DEF id
<1>3. e \in Changes /\ e.id = id /\ e.op = "insert"
  BY <1>1 DEF Changes
<1> HIDE DEF e
<1> QED BY <1>2, <1>3 DEF id

\* The position that no change on its way is beyond: of the token or, without
\* one, of the cursor.  A cursor set back to the token reads insertions again,
\* but no update.
HighWater == IF resumeToken = 0 THEN pos ELSE resumeToken

\* The steps of the cursor.
LEMMA StreamStep ==
    ASSUME StreamType, [Next]_vars
    PROVE  StreamType' /\ Grows /\ HighWater <= HighWater'
<1> DEFINE Goal == StreamType' /\ Grows /\ HighWater <= HighWater'
<1>0. /\ Len(oplog) \in Nat /\ DOMAIN oplog = 1 .. Len(oplog)
      /\ pos \in 0 .. Len(oplog)
      /\ resumeToken \in 0 .. pos /\ prevResumeToken \in 0 .. resumeToken
  BY DEF StreamType
<1>1. ASSUME NEW e \in Changes, e.id = Len(oplog) + 1, oplog' = Append(oplog, e),
             UNCHANGED stream
      PROVE  Goal
  <2>1. /\ oplog' \in Seq(Changes)
        /\ \A i \in DOMAIN oplog' : oplog'[i].id = i
        /\ Len(oplog') = Len(oplog) + 1
        /\ Grows
    BY <1>1, OplogAppend
  <2>2. /\ pos' = pos /\ resumeToken' = resumeToken
        /\ prevResumeToken' = prevResumeToken
    BY <1>1 DEF stream
  <2> QED BY <1>0, <2>1, <2>2 DEF StreamType, HighWater
<1>2. ASSUME NEW p \in Points, NEW s \in Updates, DriverWrite(p, s) PROVE Goal
  BY <1>1, <1>2, DriverAppends DEF DriverWrite
<1>3. ASSUME NEW p \in Points, InsertPoint(p) PROVE Goal
  BY <1>1, <1>3, InsertAppends DEF InsertPoint
<1>4. ASSUME UNCHANGED oplog,
             /\ pos' \in 0 .. Len(oplog)
             /\ resumeToken' \in 0 .. pos' /\ prevResumeToken' \in 0 .. resumeToken'
             /\ HighWater <= HighWater'
      PROVE  Goal
  <2>1. Grows
    BY <1>0, <1>4 DEF Grows
  <2> QED BY <1>4, <2>1 DEF StreamType
<1>5. CASE Fetch
  <2>1. /\ UNCHANGED oplog /\ pos' = pos + 1 /\ pos < Len(oplog)
        /\ prevResumeToken' = prevResumeToken
        /\ resumeToken' = pos + 1 \/ resumeToken' = resumeToken
    BY <1>5 DEF Fetch
  <2>2. /\ pos' \in 0 .. Len(oplog)
        /\ resumeToken' \in 0 .. pos' /\ prevResumeToken' \in 0 .. resumeToken'
    BY <1>0, <2>1
  <2>3. HighWater <= HighWater'
    <3>1. (resumeToken = 0 /\ HighWater = pos) \/ (resumeToken # 0 /\ HighWater = resumeToken)
      BY DEF HighWater
    <3>2. (resumeToken' = 0 /\ HighWater' = pos') \/ (resumeToken' # 0 /\ HighWater' = resumeToken')
      BY DEF HighWater
    <3>3. HighWater <= pos
      BY <1>0, <3>1
    <3> QED BY <1>0, <2>1, <3>1, <3>2, <3>3
  <2> QED BY <1>4, <2>1, <2>2, <2>3
<1>6. CASE StreamError \/ WatchFails
  <2>1. /\ UNCHANGED <<oplog, pos>> /\ invalidateToken
    BY <1>6 DEF StreamError, WatchFails
  <2>2. \/ resumeToken' = 0 /\ prevResumeToken' = 0
        \/ resumeToken' = resumeToken /\ prevResumeToken' = resumeToken
    BY <2>1 DEF invalidateToken
  <2>3. /\ pos' \in 0 .. Len(oplog)
        /\ resumeToken' \in 0 .. pos' /\ prevResumeToken' \in 0 .. resumeToken'
    BY <1>0, <2>1, <2>2
  <2>4. HighWater <= HighWater'
    <3>1. (resumeToken = 0 /\ HighWater = pos) \/ (resumeToken # 0 /\ HighWater = resumeToken)
      BY DEF HighWater
    <3>2. (resumeToken' = 0 /\ HighWater' = pos') \/ (resumeToken' # 0 /\ HighWater' = resumeToken')
      BY DEF HighWater
    <3>3. HighWater <= pos
      BY <1>0, <3>1
    <3> QED BY <1>0, <2>1, <2>2, <3>1, <3>2, <3>3
  <2> QED BY <1>4, <2>1, <2>3, <2>4
<1>7. CASE Watch
  <2>1. /\ UNCHANGED <<oplog, resumeToken, prevResumeToken>>
        /\ pos' = IF resumeToken = 0 THEN Len(oplog) ELSE resumeToken
    BY <1>7 DEF Watch
  <2>2. /\ pos' \in 0 .. Len(oplog)
        /\ resumeToken' \in 0 .. pos' /\ prevResumeToken' \in 0 .. resumeToken'
    BY <1>0, <2>1
  <2>3. HighWater <= HighWater'
    <3>1. (resumeToken = 0 /\ HighWater = pos) \/ (resumeToken # 0 /\ HighWater = resumeToken)
      BY DEF HighWater
    <3>2. (resumeToken' = 0 /\ HighWater' = pos') \/ (resumeToken' # 0 /\ HighWater' = resumeToken')
      BY DEF HighWater
    <3>3. HighWater <= pos
      BY <1>0, <3>1
    <3> QED BY <1>0, <2>1, <3>1, <3>2, <3>3
  <2> QED BY <1>4, <2>1, <2>2, <2>3
<1>8. ASSUME UNCHANGED <<stream, oplog>> PROVE Goal
  <2>1. UNCHANGED <<oplog, pos, resumeToken, prevResumeToken>>
    BY <1>8 DEF stream
  <2>2. Grows
    BY <1>0, <2>1 DEF Grows
  <2>3. StreamType' /\ HighWater' = HighWater
    BY <2>1 DEF StreamType, HighWater
  <2> QED BY <1>0, <2>2, <2>3 DEF HighWater
<1>9. ASSUME NEW w \in Workers, HandleChange(w) PROVE Goal
  BY <1>8, <1>9 DEF HandleChange
<1>10. CASE \/ Dispatch \/ TakeUpdate \/ FlushRtBatch \/ FlushRtFails \/ Apply
           \/ FlushSoe \/ FlushSoeFails \/ Disconnected \/ Activate \/ Standby
  BY <1>8, <1>10 DEF Dispatch, TakeUpdate, FlushRtBatch, FlushRtFails, Apply,
           FlushSoe, FlushSoeFails, Disconnected, Activate, Standby
<1>11. CASE UNCHANGED vars
  BY <1>8, <1>11 DEF vars, stream
<1> QED
  BY <1>2, <1>3, <1>5, <1>6, <1>7, <1>9, <1>10, <1>11, Zenon DEF Next

\* The steps of the queues and what they hold.
LEMMA QueueTypeStep ==
    ASSUME Types, [Next]_vars
    PROVE  QueueType'
<1>0. QueueType
  BY DEF Types
<1>1. ASSUME UNCHANGED queues PROVE QueueType'
  BY <1>0, <1>1 DEF QueueType, queues
<1>2. CASE Fetch
  <2>1. UNCHANGED <<inbox, rtCh, batch, wire, soeCh>>
    BY <1>2 DEF Fetch
  <2>2. CASE UNCHANGED changeCh
    BY <1>0, <2>1, <2>2 DEF QueueType
  <2>3. CASE matches(oplog[pos + 1]) /\ Submit(EventOf(pos + 1))
    <3>1. EventOf(pos + 1) \in Event
      <4>1. pos + 1 \in 1 .. Len(oplog)
        BY <1>2 DEF Fetch, Types, StreamType
      <4> QED BY <2>3, <4>1, EventOfUpdate DEF Types
    <3>2. changeCh \in Seq(Event)
      BY <1>0 DEF QueueType
    <3>3. \/ changeCh' = Append(changeCh, EventOf(pos + 1))
          \/ /\ changeCh # <<>>
             /\ changeCh' = Append(Tail(changeCh), EventOf(pos + 1))
      <4>1. ChangeQueueSize \in Nat \ {0}
        BY PipelineAssumption
      <4>2. CASE Len(changeCh) < ChangeQueueSize
        BY <2>3, <4>2 DEF Submit
      <4>3. CASE ~(Len(changeCh) < ChangeQueueSize)
        <5>1. Len(changeCh) # 0
          BY <3>2, <4>1, <4>3
        <5>2. changeCh # <<>>
          BY <5>1
        <5> QED BY <2>3, <4>3, <5>2 DEF Submit
      <4> QED BY <4>2, <4>3
    <3> DEFINE ev == EventOf(pos + 1)
    <3> HIDE DEF ev
    <3>4. ev \in Event
      BY <3>1 DEF ev
    <3>5. Append(changeCh, ev) \in Seq(Event)
      BY <3>2, <3>4
    <3>6. changeCh # <<>> => Append(Tail(changeCh), ev) \in Seq(Event)
      BY <3>2, <3>4
    <3>7. changeCh' \in Seq(Event)
      BY <3>3, <3>5, <3>6, Zenon DEF ev
    <3> QED BY <1>0, <2>1, <3>7 DEF QueueType
  <2> QED BY <1>2, <2>2, <2>3 DEF Fetch, EventOf
<1>3. CASE Dispatch
  <2>1. /\ changeCh # <<>> /\ changeCh' = Tail(changeCh)
        /\ inbox' = [inbox EXCEPT ![Shard[Head(changeCh).point]] =
                       Append(@, Head(changeCh))]
        /\ UNCHANGED <<rtCh, batch, wire, soeCh>>
    BY <1>3 DEF Dispatch
  <2>2. changeCh \in Seq(Event) /\ inbox \in [Workers -> Seq(Event)]
    BY <1>0 DEF QueueType
  <2>3. Head(changeCh) \in Event /\ Tail(changeCh) \in Seq(Event)
    BY <2>1, <2>2
  <2>4. inbox' \in [Workers -> Seq(Event)]
    <3> DEFINE ev == Head(changeCh)
               w == Shard[ev.point]
    <3>1. w \in Workers
      BY <2>3, EventFields, PipelineAssumption
    <3>2. inbox' = [inbox EXCEPT ![w] = Append(@, ev)]
      BY <2>1
    <3> HIDE DEF ev, w
    <3>3. Append(inbox[w], ev) \in Seq(Event)
      BY <2>2, <2>3, <3>1 DEF ev
    <3> QED BY <2>2, <3>1, <3>2, <3>3
  <2> QED BY <1>0, <2>1, <2>3, <2>4 DEF QueueType
<1>4. ASSUME NEW w \in Workers, HandleChange(w) PROVE QueueType'
  <2>1. inbox[w] \in Seq(Event) /\ inbox[w] # <<>>
    BY <1>0, <1>4 DEF QueueType, HandleChange
  <2>2. Head(inbox[w]) \in Event /\ Tail(inbox[w]) \in Seq(Event)
    BY <2>1
  <2>3. inbox' = [inbox EXCEPT ![w] = Tail(@)] /\ UNCHANGED <<changeCh, batch, wire>>
    BY <1>4 DEF HandleChange
  <2>4. inbox' \in [Workers -> Seq(Event)]
    BY <1>0, <2>2, <2>3 DEF QueueType
  <2> DEFINE ev == Head(inbox[w])
  <2>5. rtUpdates(ev) \in Seq(Item)
    <3>1. rtUpdates(ev) \in Seq(ItemsOf(ev)) /\ ItemsOf(ev) \subseteq Item
      BY <2>2, RtUpdates DEF ItemsOf
    <3> QED BY <3>1
  <2>6. soeEntries(ev) \in Seq(Nat)
    BY <2>2, SoeEntries
  <2>7. /\ rtCh' = rtCh \/ rtCh' = emit(rtCh, rtUpdates(ev))
        /\ soeCh' = soeCh \/ soeCh' = emit(soeCh, soeEntries(ev))
    BY <1>4 DEF HandleChange
  <2> HIDE DEF ev
  <2>8. rtCh' \in Seq(Item)
    BY <1>0, <2>5, <2>7, Emitted DEF QueueType
  <2>9. soeCh' \in Seq(Nat)
    BY <1>0, <2>6, <2>7, Emitted DEF QueueType
  <2> QED BY <1>0, <2>3, <2>4, <2>8, <2>9 DEF QueueType
<1>5. CASE TakeUpdate
  <2>1. /\ rtCh # <<>> /\ batch' = Append(batch, Head(rtCh)) /\ rtCh' = Tail(rtCh)
        /\ UNCHANGED <<changeCh, inbox, wire, soeCh>>
    BY <1>5 DEF TakeUpdate
  <2>2. batch' \in Seq(Item) /\ rtCh' \in Seq(Item)
    BY <1>0, <2>1 DEF QueueType
  <2> QED BY <1>0, <2>1, <2>2 DEF QueueType
<1>6. CASE FlushRtBatch
  <2>1. /\ wire' = wire \o batch /\ batch' = <<>>
        /\ UNCHANGED <<changeCh, inbox, rtCh, soeCh>>
    BY <1>6 DEF FlushRtBatch
  <2>2. wire' \in Seq(Item)
    BY <1>0, <2>1 DEF QueueType
  <2> QED BY <1>0, <2>1, <2>2 DEF QueueType
<1>7. CASE FlushRtFails
  BY <1>0, <1>7 DEF FlushRtFails, QueueType
<1>8. CASE Apply
  <2>1. wire # <<>> /\ wire' = Tail(wire) /\ UNCHANGED <<changeCh, inbox, rtCh, batch, soeCh>>
    BY <1>8 DEF Apply
  <2>2. wire' \in Seq(Item)
    BY <1>0, <2>1 DEF QueueType
  <2> QED BY <1>0, <2>1, <2>2 DEF QueueType
<1>9. CASE FlushSoe \/ FlushSoeFails
  <2>1. soeCh' = <<>> /\ UNCHANGED <<changeCh, inbox, rtCh, batch, wire>>
    BY <1>9, Zenon DEF FlushSoe, FlushSoeFails
  <2>2. soeCh' \in Seq(Nat)
    BY <2>1
  <2> QED BY <1>0, <2>1, <2>2 DEF QueueType
<1>10. ASSUME NEW p \in Points, NEW s \in Updates, DriverWrite(p, s) PROVE QueueType'
  BY <1>1, <1>10 DEF DriverWrite
<1>11. ASSUME NEW p \in Points, InsertPoint(p) PROVE QueueType'
  BY <1>1, <1>11 DEF InsertPoint
<1>12. CASE StreamError \/ WatchFails \/ Watch \/ Disconnected \/ Activate \/ Standby
  BY <1>1, <1>12 DEF StreamError, WatchFails, Watch, Disconnected, Activate, Standby
<1>13. CASE UNCHANGED vars
  BY <1>1, <1>13 DEF vars, queues
<1> QED
  BY <1>2, <1>3, <1>4, <1>5, <1>6, <1>7, <1>8, <1>9, <1>10, <1>11, <1>12, <1>13,
     Zenon DEF Next

\* No queue outgrows its bound: one that is full drops (Submit, emit) or makes
\* the stage before it wait (Dispatch, TakeUpdate).
LEMMA BoundsStep ==
    ASSUME Types, QueueBounds, [Next]_vars
    PROVE  QueueBounds'
<1>0. /\ changeCh \in Seq(Event) /\ inbox \in [Workers -> Seq(Event)]
      /\ rtCh \in Seq(Item) /\ batch \in Seq(Item)
      /\ ChangeQueueSize \in Nat \ {0} /\ RtWriteMaxBatch \in Nat
      /\ WriteQueueSize \in Nat
  BY PipelineAssumption DEF Types, QueueType
<1>1. ASSUME UNCHANGED queues PROVE QueueBounds'
  BY <1>1 DEF QueueBounds, queues
<1>2. CASE Fetch
  <2>1. UNCHANGED <<inbox, rtCh, batch, wire, soeCh>>
    BY <1>2 DEF Fetch
  <2>2. Len(changeCh') <= ChangeQueueSize
    <3>1. CASE UNCHANGED changeCh
      BY <3>1 DEF QueueBounds
    <3>2. ASSUME NEW ev, Submit(ev) PROVE Len(changeCh') <= ChangeQueueSize
      <4>1. Len(changeCh) \in Nat /\ Len(changeCh) <= ChangeQueueSize
        BY <1>0 DEF QueueBounds
      <4>2. CASE Len(changeCh) < ChangeQueueSize
        <5>1. changeCh' = Append(changeCh, ev)
          BY <3>2, <4>2 DEF Submit
        <5>2. Len(Append(changeCh, ev)) = Len(changeCh) + 1
          BY <1>0
        <5> QED BY <1>0, <4>1, <4>2, <5>1, <5>2
      <4>3. CASE ~(Len(changeCh) < ChangeQueueSize)
        <5>1. changeCh' = Append(Tail(changeCh), ev)
          BY <3>2, <4>3 DEF Submit
        <5>2. Len(Append(Tail(changeCh), ev)) = Len(changeCh)
          BY <1>0, <4>1, <4>3
        <5> QED BY <4>1, <5>1, <5>2
      <4> QED BY <4>2, <4>3
    <3> QED BY <1>2, <3>1, <3>2 DEF Fetch
  <2> QED BY <2>1, <2>2 DEF QueueBounds
<1>3. CASE Dispatch
  <2> DEFINE k == Shard[Head(changeCh).point]
  <2>1. /\ changeCh # <<>> /\ changeCh' = Tail(changeCh)
        /\ Len(inbox[k]) <= ChangeQueueSize \div Cardinality(Workers)
        /\ inbox' = [inbox EXCEPT ![k] = Append(@, Head(changeCh))]
        /\ UNCHANGED <<rtCh, batch, wire, soeCh>>
    BY <1>3 DEF Dispatch
  <2>2. k \in Workers
    BY <1>0, <2>1, EventFields, PipelineAssumption
  <2> HIDE DEF k
  <2>3. Len(changeCh') <= ChangeQueueSize
    BY <1>0, <2>1 DEF QueueBounds
  <2>4. ASSUME NEW w \in Workers
        PROVE  Len(inbox'[w]) <= ChangeQueueSize \div Cardinality(Workers) + 1
    <3>1. CASE w = k
      <4>1. inbox'[w] = Append(inbox[k], Head(changeCh))
        BY <1>0, <2>1, <3>1
      <4>2. Len(Append(inbox[k], Head(changeCh))) = Len(inbox[k]) + 1
        BY <1>0, <2>2
      <4>3. Len(inbox[k]) \in Nat
        BY <1>0, <2>2
      <4>4. ChangeQueueSize \div Cardinality(Workers) \in Nat
        BY <2>2, Share
      <4> QED BY <2>1, <4>1, <4>2, <4>3, <4>4
    <3>2. CASE w # k
      <4>1. inbox'[w] = inbox[w]
        BY <1>0, <2>1, <3>2
      <4> QED BY <4>1 DEF QueueBounds
    <3> QED BY <3>1, <3>2
  <2> QED BY <2>1, <2>3, <2>4 DEF QueueBounds
<1>4. ASSUME NEW w \in Workers, HandleChange(w) PROVE QueueBounds'
  <2> DEFINE ev == Head(inbox[w])
  <2>1. inbox[w] \in Seq(Event) /\ inbox[w] # <<>>
    BY <1>0, <1>4 DEF HandleChange
  <2>2. ev \in Event
    BY <2>1
  <2>3. /\ inbox' = [inbox EXCEPT ![w] = Tail(@)] /\ UNCHANGED <<changeCh, batch>>
        /\ rtCh' = rtCh \/ rtCh' = emit(rtCh, rtUpdates(ev))
        /\ soeCh' = soeCh \/ soeCh' = emit(soeCh, soeEntries(ev))
    BY <1>4 DEF HandleChange
  <2> HIDE DEF ev
  <2>4. Len(emit(rtCh, rtUpdates(ev))) <= WriteQueueSize
    <3>1. rtUpdates(ev) \in Seq(ItemsOf(ev)) /\ ItemsOf(ev) \subseteq Item
      BY <2>2, RtUpdates DEF ItemsOf
    <3>2. rtUpdates(ev) \in Seq(Item)
      BY <3>1
    <3> QED BY <1>0, <3>2, Emitted
  <2>5. Len(emit(soeCh, soeEntries(ev))) <= WriteQueueSize
    BY <2>2, SoeEntries, Emitted DEF Types, QueueType
  <2>6. ASSUME NEW v \in Workers
        PROVE  Len(inbox'[v]) <= ChangeQueueSize \div Cardinality(Workers) + 1
    <3>1. CASE v = w
      <4>1. inbox'[v] = Tail(inbox[w])
        BY <1>0, <2>3, <3>1
      <4>2. Len(Tail(inbox[w])) = Len(inbox[w]) - 1 /\ Len(inbox[w]) \in Nat
        BY <2>1
      <4>3. ChangeQueueSize \div Cardinality(Workers) \in Nat
        BY Share
      <4>4. Len(inbox[w]) <= ChangeQueueSize \div Cardinality(Workers) + 1
        BY DEF QueueBounds
      <4> QED BY <4>1, <4>2, <4>3, <4>4
    <3>2. CASE v # w
      <4>1. inbox'[v] = inbox[v]
        BY <1>0, <2>3, <3>2
      <4> QED BY <4>1 DEF QueueBounds
    <3> QED BY <3>1, <3>2
  <2> QED BY <2>3, <2>4, <2>5, <2>6 DEF QueueBounds
<1>5. CASE TakeUpdate
  <2>1. /\ rtCh # <<>> /\ Len(batch) < RtWriteMaxBatch
        /\ batch' = Append(batch, Head(rtCh)) /\ rtCh' = Tail(rtCh)
        /\ UNCHANGED <<changeCh, inbox, wire, soeCh>>
    BY <1>5 DEF TakeUpdate
  <2>2. Len(batch') <= RtWriteMaxBatch
    BY <1>0, <2>1
  <2>3. Len(rtCh') <= WriteQueueSize
    BY <1>0, <2>1 DEF QueueBounds
  <2> QED BY <2>1, <2>2, <2>3 DEF QueueBounds
<1>6. CASE FlushRtBatch \/ FlushRtFails
  <2>1. batch' = <<>> /\ UNCHANGED <<changeCh, inbox, rtCh, soeCh>>
    BY <1>6, Zenon DEF FlushRtBatch, FlushRtFails
  <2>2. Len(batch') <= RtWriteMaxBatch
    BY <1>0, <2>1
  <2> QED BY <2>1, <2>2 DEF QueueBounds
<1>7. CASE Apply
  BY <1>7 DEF Apply, QueueBounds
<1>8. CASE FlushSoe \/ FlushSoeFails
  <2>1. soeCh' = <<>> /\ UNCHANGED <<changeCh, inbox, rtCh, batch>>
    BY <1>8, Zenon DEF FlushSoe, FlushSoeFails
  <2>2. Len(soeCh') <= WriteQueueSize
    BY <1>0, <2>1
  <2> QED BY <2>1, <2>2 DEF QueueBounds
<1>9. ASSUME NEW p \in Points, NEW s \in Updates, DriverWrite(p, s) PROVE QueueBounds'
  BY <1>1, <1>9 DEF DriverWrite
<1>10. ASSUME NEW p \in Points, InsertPoint(p) PROVE QueueBounds'
  BY <1>1, <1>10 DEF InsertPoint
<1>11. CASE StreamError \/ WatchFails \/ Watch \/ Disconnected \/ Activate \/ Standby
  BY <1>1, <1>11 DEF StreamError, WatchFails, Watch, Disconnected, Activate, Standby
<1>12. CASE UNCHANGED vars
  BY <1>1, <1>12 DEF vars, queues
<1> QED
  BY <1>2, <1>3, <1>4, <1>5, <1>6, <1>7, <1>8, <1>9, <1>10, <1>11, <1>12, Zenon
     DEF Next

\* An update on its way that is not of a system point is of a point.
LEMMA ItemFields ==
    ASSUME NEW u \in Item
    PROVE  /\ u.id \in Ids
           /\ u.point # "system" => u.point \in Points /\ u.set \in StoreType
  BY DEF Item, SystemItem, PointItem

\* The only writer of the documents applies what fits them.
LEMMA StoresStep ==
    ASSUME Types, [Next]_vars
    PROVE  StoreTypeOK'
<1>0. StoreTypeOK
  BY DEF Types
<1>1. ASSUME UNCHANGED <<docs, applied>> PROVE StoreTypeOK'
  BY <1>0, <1>1 DEF StoreTypeOK
<1>2. CASE Apply
  <2> DEFINE u == Head(wire)
  <2>1. u \in Item
    BY <1>2 DEF Apply, Types, QueueType
  <2>2. CASE u.point = "system"
    BY <1>1, <1>2, <2>2 DEF Apply
  <2>3. CASE u.point # "system"
    <3>1. /\ u.point \in Points /\ u.set \in StoreType
          /\ u.id \in 0 .. MaxUpdates
      BY <2>1, <2>3, ItemFields, PipelineAssumption DEF Ids
    <3>2. /\ docs' = [docs EXCEPT ![u.point] = applyUpdate(@, u.set)]
          /\ applied' = [applied EXCEPT ![u.point] = u.id]
      BY <1>2, <2>3 DEF Apply
    <3>3. applyUpdate(docs[u.point], u.set) \in DocType
      BY <1>0, <3>1, StoreApplied DEF StoreTypeOK
    <3> HIDE DEF u
    <3> QED BY <1>0, <3>1, <3>2, <3>3 DEF StoreTypeOK
  <2> QED BY <2>2, <2>3
<1>3. ASSUME NEW w \in Workers, HandleChange(w) PROVE StoreTypeOK'
  BY <1>1, <1>3 DEF HandleChange
<1>4. ASSUME NEW p \in Points, NEW s \in Updates, DriverWrite(p, s) PROVE StoreTypeOK'
  BY <1>1, <1>4 DEF DriverWrite, stores
<1>5. ASSUME NEW p \in Points, InsertPoint(p) PROVE StoreTypeOK'
  BY <1>1, <1>5 DEF InsertPoint, stores
<1>6. CASE \/ Fetch \/ StreamError \/ WatchFails \/ Watch \/ Dispatch
          \/ TakeUpdate \/ FlushRtBatch \/ FlushRtFails \/ FlushSoe \/ FlushSoeFails
          \/ Disconnected \/ Activate \/ Standby
  <2>1. UNCHANGED <<docs, applied>>
    BY <1>6, Zenon DEF Fetch, StreamError, WatchFails, Watch, Dispatch, TakeUpdate,
       FlushRtBatch, FlushRtFails, FlushSoe, FlushSoeFails, Disconnected, Activate,
       Standby, stores
  <2> QED BY <1>1, <2>1
<1>7. CASE UNCHANGED vars
  BY <1>1, <1>7 DEF vars
<1> QED BY <1>2, <1>3, <1>4, <1>5, <1>6, <1>7, Zenon DEF Next

\* The roles, the reasons of losses, and the sets of points.
LEMMA FlagsStep ==
    ASSUME Types, [Next]_vars
    PROVE  FlagType'
<1>0. FlagType
  BY DEF Types
<1> DEFINE flags == <<inserted, mirror, connected, tokenHeld, role, lost, faults>>
<1>1. ASSUME UNCHANGED flags PROVE FlagType'
  BY <1>0, <1>1 DEF FlagType
<1>2. ASSUME NEW p \in Points, NEW s \in Updates, DriverWrite(p, s) PROVE FlagType'
  BY <1>1, <1>2 DEF DriverWrite, stream, stores
<1>3. ASSUME NEW p \in Points, InsertPoint(p) PROVE FlagType'
  BY <1>0, <1>3 DEF InsertPoint, stream, stores, FlagType
<1>4. CASE Fetch
  BY <1>0, <1>4 DEF Fetch, Submit, stores, FlagType
<1>5. ASSUME Fault PROVE faults' \in 0 .. MaxFaults
  BY <1>0, <1>5, PipelineAssumption DEF Fault, FlagType
<1>6. CASE StreamError
  <2>1. connected' = FALSE /\ UNCHANGED <<inserted, mirror, tokenHeld, role, lost>>
    BY <1>6 DEF StreamError, stores
  <2>2. faults' \in 0 .. MaxFaults
    BY <1>5, <1>6 DEF StreamError
  <2> QED BY <1>0, <2>1, <2>2 DEF FlagType
<1>7. CASE WatchFails
  <2>1. UNCHANGED <<inserted, mirror, connected, tokenHeld, role, lost>>
    BY <1>7 DEF WatchFails, stores
  <2>2. faults' \in 0 .. MaxFaults
    BY <1>5, <1>7 DEF WatchFails
  <2> QED BY <1>0, <2>1, <2>2 DEF FlagType
<1>8. CASE Watch
  BY <1>0, <1>8 DEF Watch, stores, FlagType
<1>9. CASE Dispatch \/ TakeUpdate \/ FlushRtBatch
  <2>1. UNCHANGED flags
    BY <1>9, Zenon DEF Dispatch, TakeUpdate, FlushRtBatch, stream, stores
  <2> QED BY <1>1, <2>1
<1>10. ASSUME NEW w \in Workers, HandleChange(w) PROVE FlagType'
  <2>1. Head(inbox[w]).point \in Points
    BY <1>10, EventFields DEF HandleChange, Types, QueueType
  <2>2. UNCHANGED <<inserted, connected, tokenHeld, role, faults>>
    BY <1>10 DEF HandleChange, stream
  <2>3. /\ mirror' = mirror \/ mirror' = mirror \cup {Head(inbox[w]).point}
        /\ \/ lost' = lost
           \/ role # "active" /\ lost' = lost \cup {role}
           \/ \E a, b \in {{}, {"rt"}, {"soe"}} : lost' = lost \cup a \cup b
    BY <1>10 DEF HandleChange
  <2>4. mirror' \subseteq Points
    BY <1>0, <2>1, <2>3 DEF FlagType
  <2>5. lost' \subseteq {"start", "skip", "change", "rt", "soe", "write",
                        "starting", "standby", "off"}
    BY <1>0, <2>3 DEF FlagType
  <2> QED BY <1>0, <2>2, <2>4, <2>5 DEF FlagType
<1>11. CASE FlushRtFails \/ FlushSoeFails
  <2>1. /\ UNCHANGED <<inserted, mirror, connected, tokenHeld, role>>
        /\ lost' = lost \cup {"write"} \/ lost' = lost \cup {"soe"}
    BY <1>11, Zenon DEF FlushRtFails, FlushSoeFails, stream, stores
  <2>2. faults' \in 0 .. MaxFaults
    BY <1>5, <1>11 DEF FlushRtFails, FlushSoeFails
  <2> QED BY <1>0, <2>1, <2>2 DEF FlagType
<1>12. CASE Apply \/ FlushSoe
  <2>1. UNCHANGED flags
    BY <1>12, Zenon DEF Apply, FlushSoe, stream
  <2> QED BY <1>1, <2>1
<1>13. CASE Disconnected
  BY <1>0, <1>13 DEF Disconnected, stream, stores, FlagType
<1>14. CASE Activate
  BY <1>0, <1>14 DEF Activate, stream, stores, FlagType
<1>15. CASE Standby
  <2>1. faults' \in 0 .. MaxFaults
    BY <1>5, <1>15 DEF Standby
  <2> QED BY <1>0, <1>15, <2>1 DEF Standby, stream, stores, FlagType
<1>16. CASE UNCHANGED vars
  BY <1>1, <1>16 DEF vars
<1> QED
  BY <1>2, <1>3, <1>4, <1>6, <1>7, <1>8, <1>9, <1>10, <1>11, <1>12, <1>13, <1>14,
     <1>15, <1>16, Zenon DEF Next

\* Initially the types hold and the queues are empty.
LEMMA TypesInit == Init => Types /\ QueueBounds
<1> SUFFICES ASSUME Init PROVE Types /\ QueueBounds
  OBVIOUS
<1>1. StreamType
  <2>1. oplog \in Seq(Changes)
    BY DEF Init
  <2> QED BY <2>1 DEF Init, StreamType
<1>2. QueueType
  <2>1. <<>> \in Seq(Event) /\ <<>> \in Seq(Item) /\ <<>> \in Seq(Nat)
    OBVIOUS
  <2> QED BY <2>1 DEF Init, QueueType
<1>3. StoreTypeOK
  <2>1. NewDoc \in DocType
    BY SpecialNumbers DEF NewDoc, DocType, Number
  <2>2. 0 \in 0 .. MaxUpdates
    BY PipelineAssumption
  <2> QED BY <2>1, <2>2 DEF Init, StoreTypeOK
<1>4. FlagType
  <2>1. inserted \subseteq Points /\ mirror \subseteq Points
    BY DEF Init
  <2>2. faults \in 0 .. MaxFaults
    BY PipelineAssumption DEF Init
  <2>3. connected \in BOOLEAN /\ tokenHeld \in BOOLEAN
    BY Zenon DEF Init
  <2>4. role = "starting" /\ lost = {}
    BY DEF Init
  <2> QED BY <2>1, <2>2, <2>3, <2>4 DEF FlagType
<1>5. QueueBounds
  <2>1. Len(<<>>) = 0
    OBVIOUS
  <2>2. ASSUME NEW w \in Workers
        PROVE  0 <= ChangeQueueSize \div Cardinality(Workers) + 1
    BY Share
  <2> QED BY <2>1, <2>2, PipelineAssumption DEF Init, QueueBounds
<1> QED BY <1>1, <1>2, <1>3, <1>4, <1>5 DEF Types

\* Every step keeps the types and the bounds of the queues.
LEMMA TypesStep == Types /\ QueueBounds /\ [Next]_vars => (Types /\ QueueBounds)'
<1> SUFFICES ASSUME Types, QueueBounds, [Next]_vars PROVE (Types /\ QueueBounds)'
  OBVIOUS
<1>1. StreamType'
  BY StreamStep DEF Types
<1> QED BY <1>1, QueueTypeStep, StoresStep, FlagsStep, BoundsStep DEF Types

\* Types and bounds hold always: however slow a stage or the database is, no
\* queue of the pipeline outgrows its channel, and the cursor and both tokens
\* stay within the oplog (main.go, process.go, writers.go).
THEOREM TypeCorrect == Spec => []TypeOK
<1>1. Types /\ QueueBounds => TypeOK
  <2> SUFFICES ASSUME Types, QueueBounds PROVE TypeOK
    OBVIOUS
  <2>1. \A i \in DOMAIN oplog : oplog[i] \in Changes /\ oplog[i].id = i
    BY DEF Types, StreamType
  <2> QED BY <2>1 DEF Types, StreamType, StoreTypeOK, FlagType, QueueBounds, TypeOK
<1> QED BY <1>1, TypesInit, TypesStep, PTL DEF Spec

-----------------------------------------------------------------------------
(* The order of the updates of a point.                                    *)

\* The updates on their way to the documents, the next one to be executed
\* first; the events on their way to worker w, those that it has not got yet
\* among those of the other workers.
Out == wire \o (batch \o rtCh)

In(w) == inbox[w] \o changeCh

\* Nothing on its way is beyond the token, or older than what the document of
\* its point has.
InRange(U) ==
    \A u \in U : /\ u.id <= HighWater
                 /\ u.point \in Points => applied[u.point] <= u.id

\* The updates and the events of a point are in order in each half of the
\* pipeline, no event of a point is older than one of its updates further on,
\* and the events of a point are all in the inbox of one worker.
OrderInv ==
    /\ \A p \in Points : applied[p] <= HighWater
    /\ InRange(elems(Out)) /\ Sorted(Out)
    /\ \A w \in Workers :
         /\ InRange(elems(In(w))) /\ Sorted(In(w))
         /\ Before(elems(Out), elems(In(w)))
         /\ \A ev \in elems(inbox[w]) : Shard[ev.point] = w

\* The two halves hold what their queues hold.
LEMMA OutIs ==
    QueueType => /\ Out \in Seq(Item) /\ batch \o rtCh \in Seq(Item)
                 /\ elems(Out) = elems(wire) \cup elems(batch) \cup elems(rtCh)
                 /\ elems(Out) \subseteq Item
<1> SUFFICES ASSUME QueueType
             PROVE  /\ Out \in Seq(Item) /\ batch \o rtCh \in Seq(Item)
                    /\ elems(Out) = elems(wire) \cup elems(batch) \cup elems(rtCh)
                    /\ elems(Out) \subseteq Item
  OBVIOUS
<1>1. wire \in Seq(Item) /\ batch \in Seq(Item) /\ rtCh \in Seq(Item)
  BY DEF QueueType
<1>2. batch \o rtCh \in Seq(Item)
  BY <1>1
<1>3. elems(batch \o rtCh) = elems(batch) \cup elems(rtCh)
  BY <1>1, ConcatElems
<1>4. elems(Out) = elems(wire) \cup elems(batch \o rtCh)
  <2> DEFINE c == batch \o rtCh
  <2>1. c \in Seq(Item) /\ Out = wire \o c
    BY <1>2 DEF Out
  <2> HIDE DEF c
  <2>2. elems(wire \o c) = elems(wire) \cup elems(c)
    BY <1>1, <2>1, ConcatElems
  <2> QED BY <2>1, <2>2 DEF c
<1>5. Out \in Seq(Item)
  BY <1>1, <1>2 DEF Out
<1>6. elems(Out) \subseteq Item
  BY <1>5, ElemsType
<1> QED BY <1>2, <1>3, <1>4, <1>5, <1>6

\* What is still to be handled for a worker is in its inbox or ahead of it.
LEMMA InIs ==
    QueueType => \A w \in Workers :
        /\ inbox[w] \in Seq(Event) /\ changeCh \in Seq(Event)
        /\ elems(In(w)) = elems(inbox[w]) \cup elems(changeCh)
        /\ elems(In(w)) \subseteq Event
<1> SUFFICES ASSUME QueueType, NEW w \in Workers
             PROVE  /\ inbox[w] \in Seq(Event) /\ changeCh \in Seq(Event)
                    /\ elems(In(w)) = elems(inbox[w]) \cup elems(changeCh)
                    /\ elems(In(w)) \subseteq Event
  OBVIOUS
<1>1. inbox[w] \in Seq(Event) /\ changeCh \in Seq(Event)
  BY DEF QueueType
<1>2. elems(In(w)) = elems(inbox[w]) \cup elems(changeCh)
  BY <1>1, ConcatElems DEF In
<1>3. elems(inbox[w]) \subseteq Event /\ elems(changeCh) \subseteq Event
  BY <1>1, ElemsType
<1> QED BY <1>1, <1>2, <1>3

\* The newest change fetched is not beyond the position of the stream.
LEMMA HighWaterType == StreamType => HighWater \in Nat /\ HighWater <= pos
  BY DEF StreamType, HighWater

\* What is on its way stays in range when the token moves on.
LEMMA RangeKept ==
    ASSUME Types, Types', HighWater <= HighWater', UNCHANGED applied,
           NEW U, U \subseteq Item \/ U \subseteq Event, InRange(U), NEW V \in SUBSET U
    PROVE  InRange(V)'
<1> SUFFICES ASSUME NEW u \in V
             PROVE  /\ u.id <= HighWater'
                    /\ u.point \in Points => applied'[u.point] <= u.id
  BY DEF InRange
<1>1. u.id \in Nat
  BY ItemFields, EventFields, PipelineAssumption DEF Ids
<1>2. HighWater \in Nat /\ HighWater' \in Nat
  <2>1. HighWater \in Nat
    BY HighWaterType DEF Types
  <2>2. StreamType' => (HighWater \in Nat)'
    BY HighWaterType, PTL
  <2> QED BY <2>1, <2>2 DEF Types
<1> QED BY <1>1, <1>2 DEF InRange

\* A step that only drops things on their way, or moves them on, keeps the
\* order.
LEMMA OrderKept ==
    ASSUME Types, Types', OrderInv, HighWater <= HighWater', UNCHANGED applied,
           Sorted(Out)', elems(Out)' \subseteq elems(Out),
           \A w \in Workers :
              /\ Sorted(In(w))' /\ elems(In(w))' \subseteq elems(In(w))
              /\ \A ev \in elems(inbox[w])' : Shard[ev.point] = w
    PROVE  OrderInv'
<1>1. QueueType /\ QueueType' /\ StreamType /\ StreamType'
  BY DEF Types
<1>2. ASSUME NEW p \in Points PROVE applied'[p] <= HighWater'
  <2>1. HighWater \in Nat /\ HighWater' \in Nat
    <3>1. StreamType' => (HighWater \in Nat)'
      BY HighWaterType, PTL
    <3> QED BY <1>1, <3>1, HighWaterType
  <2>2. applied[p] \in Nat /\ applied[p] <= HighWater
    BY PipelineAssumption DEF Types, StoreTypeOK, OrderInv
  <2> QED BY <2>1, <2>2
<1>3. InRange(elems(Out))'
  BY <1>1, OutIs, RangeKept DEF OrderInv
<1>4. ASSUME NEW w \in Workers
      PROVE  InRange(elems(In(w)))' /\ Before(elems(Out), elems(In(w)))'
  <2>1. elems(In(w)) \subseteq Event
    BY <1>1, InIs
  <2>2. InRange(elems(In(w))) /\ Before(elems(Out), elems(In(w)))
    BY DEF OrderInv
  <2>3. InRange(elems(In(w)))'
    BY <2>1, <2>2, RangeKept
  <2>4. Before(elems(Out), elems(In(w)))'
    BY <2>2 DEF Before
  <2> QED BY <2>3, <2>4
<1> QED BY <1>2, <1>3, <1>4 DEF OrderInv

\* Taking the head of two queues joined takes it from the first.
LEMMA TailConcat ==
    ASSUME NEW S, NEW a \in Seq(S), NEW b \in Seq(S), a # <<>>
    PROVE  /\ Head(a \o b) = Head(a) /\ Tail(a \o b) = Tail(a) \o b
           /\ a \o b # <<>>
<1>1. a = <<Head(a)>> \o Tail(a) /\ Head(a) \in S /\ Tail(a) \in Seq(S)
  OBVIOUS
<1>2. a \o b = <<Head(a)>> \o (Tail(a) \o b)
  BY <1>1, ConcatAssociative
<1>3. Tail(a) \o b \in Seq(S)
  BY <1>1
<1> DEFINE c == Tail(a) \o b
<1> HIDE DEF c
<1>4. c \in Seq(S)
  BY <1>3 DEF c
<1>5. Head(<<Head(a)>> \o c) = Head(a) /\ Tail(<<Head(a)>> \o c) = c
  BY <1>1, <1>4
<1>6. <<Head(a)>> \o c # <<>>
  BY <1>1, <1>4
<1> QED BY <1>2, <1>5, <1>6 DEF c

\* Steps that change neither half of the pipeline.
LEMMA OrderStays ==
    ASSUME Types, Types', OrderInv, HighWater <= HighWater', UNCHANGED applied,
           Out' = Out, UNCHANGED <<changeCh, inbox>>
    PROVE  OrderInv'
<1>1. Sorted(Out)' /\ elems(Out)' \subseteq elems(Out)
  BY DEF OrderInv, Sorted, elems
<1>2. ASSUME NEW w \in Workers
      PROVE  /\ Sorted(In(w))' /\ elems(In(w))' \subseteq elems(In(w))
             /\ \A ev \in elems(inbox[w])' : Shard[ev.point] = w
  <2>1. In(w)' = In(w) /\ inbox'[w] = inbox[w]
    BY DEF In
  <2> QED BY <2>1 DEF OrderInv, Sorted, elems
<1> QED BY <1>1, <1>2, OrderKept

\* The writer moves updates on, or loses the oldest it has.
LEMMA OrderWriter ==
    ASSUME Types, Types', OrderInv, HighWater <= HighWater',
           TakeUpdate \/ FlushRtBatch \/ FlushRtFails
    PROVE  OrderInv'
<1>0. wire \in Seq(Item) /\ batch \in Seq(Item) /\ rtCh \in Seq(Item)
  BY DEF Types, QueueType
<1>1. UNCHANGED <<changeCh, inbox, applied>>
  BY Zenon DEF TakeUpdate, FlushRtBatch, FlushRtFails, stores
<1>2. CASE TakeUpdate
  <2>1. batch' \o rtCh' = batch \o rtCh /\ wire' = wire
    BY <1>0, <1>2, MoveHead DEF TakeUpdate
  <2>2. Out' = Out
    BY <2>1 DEF Out
  <2> QED BY <1>1, <2>2, OrderStays
<1>3. <<>> \o rtCh = rtCh
  BY <1>0
<1>4. CASE FlushRtBatch
  <2>1. Out' = (wire \o batch) \o rtCh
    BY <1>3, <1>4 DEF FlushRtBatch, Out
  <2>2. Out' = Out
    BY <1>0, <2>1, ConcatAssociative DEF Out
  <2> QED BY <1>1, <2>2, OrderStays
<1>5. CASE FlushRtFails
  <2>1. Out' = wire \o rtCh
    BY <1>3, <1>5 DEF FlushRtFails, Out
  <2>2. batch \o rtCh \in Seq(Item)
    BY <1>0
  <2>3. Sorted(Out)
    BY DEF OrderInv
  <2>4. /\ Sorted(wire) /\ Sorted(batch \o rtCh)
        /\ Before(elems(wire), elems(batch \o rtCh))
    BY <1>0, <2>2, <2>3, ConcatSorted DEF Out
  <2>5. Sorted(rtCh) /\ elems(batch \o rtCh) = elems(batch) \cup elems(rtCh)
    BY <1>0, <2>4, ConcatSorted, ConcatElems
  <2>6. Before(elems(wire), elems(rtCh))
    BY <2>4, <2>5 DEF Before
  <2>7. Sorted(wire \o rtCh)
    BY <1>0, <2>4, <2>5, <2>6, ConcatSorted
  <2>8. elems(wire \o rtCh) \subseteq elems(Out)
    BY <1>0, ConcatElems, OutIs DEF Types
  <2>9. ASSUME NEW w \in Workers
        PROVE  /\ Sorted(In(w))' /\ elems(In(w))' \subseteq elems(In(w))
               /\ \A ev \in elems(inbox[w])' : Shard[ev.point] = w
    <3>1. In(w)' = In(w) /\ inbox'[w] = inbox[w]
      BY <1>1 DEF In
    <3> QED BY <3>1 DEF OrderInv, Sorted, elems
  <2>10. Sorted(Out)' /\ elems(Out)' \subseteq elems(Out)
    BY <2>1, <2>7, <2>8 DEF Sorted, elems
  <2> QED BY <1>1, <2>9, <2>10, OrderKept
<1> QED BY <1>2, <1>4, <1>5

\* The database executes the first update: what is left is not older.
LEMMA OrderApply ==
    ASSUME Types, Types', OrderInv, HighWater' = HighWater, Apply
    PROVE  OrderInv'
<1> DEFINE u == Head(wire)
<1>0. /\ wire \in Seq(Item) /\ batch \o rtCh \in Seq(Item) /\ wire # <<>>
      /\ Out \in Seq(Item) /\ elems(Out) \subseteq Item
  BY OutIs DEF Types, QueueType, Apply
<1>1. wire' = Tail(wire) /\ UNCHANGED <<changeCh, inbox, rtCh, batch>>
  BY DEF Apply
<1>2. Out # <<>> /\ Head(Out) = u /\ Tail(Out) = Out'
  BY <1>0, <1>1, TailConcat DEF Out
<1>3. /\ Sorted(Out') /\ Before({u}, elems(Out'))
      /\ u \in elems(Out) /\ elems(Out') \subseteq elems(Out)
  BY <1>0, <1>2, TailSorted, TailElems DEF OrderInv
<1>4. u \in Item
  BY <1>0
<1>5. \/ u.point = "system" /\ applied' = applied
      \/ /\ u.point \in Points /\ u.point # "system"
         /\ applied' = [applied EXCEPT ![u.point] = u.id]
  BY <1>4, ItemFields DEF Apply
<1>6. u.id <= HighWater
  BY <1>3 DEF OrderInv, InRange
<1>7. applied \in [Points -> 0 .. MaxUpdates]
  BY DEF Types, StoreTypeOK
<1> HIDE DEF u
<1>8. ASSUME NEW p \in Points PROVE applied'[p] <= HighWater'
  BY <1>5, <1>6, <1>7 DEF OrderInv
<1>9. ASSUME NEW v, v.point \in Points, applied[v.point] <= v.id, Later(u, v)
      PROVE  applied'[v.point] <= v.id
  <2>1. CASE u.point = v.point
    BY <1>5, <1>7, <1>9, <2>1, PipelineAssumption DEF Later
  <2>2. CASE u.point # v.point
    BY <1>5, <1>7, <1>9, <2>2
  <2> QED BY <2>1, <2>2
<1>10. InRange(elems(Out))'
  <2>1. ASSUME NEW v \in elems(Out')
        PROVE  /\ v.id <= HighWater'
               /\ v.point \in Points => applied'[v.point] <= v.id
    <3>1. v \in elems(Out) /\ Later(u, v)
      BY <1>3 DEF Before
    <3> QED BY <3>1, <1>9 DEF OrderInv, InRange
  <2> QED BY <2>1 DEF InRange, elems
<1>11. Sorted(Out)'
  BY <1>3 DEF Sorted
<1>12. ASSUME NEW w \in Workers
       PROVE  /\ InRange(elems(In(w)))' /\ Sorted(In(w))'
              /\ Before(elems(Out), elems(In(w)))'
              /\ \A ev \in elems(inbox[w])' : Shard[ev.point] = w
  <2>1. In(w)' = In(w) /\ elems(inbox[w])' = elems(inbox[w])
    BY <1>1 DEF In, elems
  <2>2. Sorted(In(w))' /\ elems(In(w))' = elems(In(w))
    <3>1. Sorted(In(w))
      BY DEF OrderInv
    <3> QED BY <2>1, <3>1 DEF Sorted, elems
  <2>3. ASSUME NEW v \in elems(In(w))
        PROVE  /\ v.id <= HighWater'
               /\ v.point \in Points => applied'[v.point] <= v.id
    <3>1. Later(u, v)
      BY <1>3 DEF OrderInv, Before
    <3> QED BY <3>1, <1>9 DEF OrderInv, InRange
  <2>4. InRange(elems(In(w)))'
    BY <2>2, <2>3 DEF InRange
  <2>5. elems(Out)' \subseteq elems(Out)
    BY <1>3 DEF elems
  <2>6. Before(elems(Out), elems(In(w)))'
    BY <2>2, <2>5 DEF OrderInv, Before
  <2> QED BY <2>1, <2>2, <2>4, <2>6 DEF OrderInv
<1> QED BY <1>8, <1>10, <1>11, <1>12 DEF OrderInv

\* The dispatcher hands an event to the worker of its point.
LEMMA OrderDispatch ==
    ASSUME Types, Types', OrderInv, HighWater <= HighWater', Dispatch
    PROVE  OrderInv'
<1> DEFINE e == Head(changeCh)
           k == Shard[e.point]
<1>0. /\ changeCh \in Seq(Event) /\ changeCh # <<>>
      /\ inbox \in [Workers -> Seq(Event)]
  BY DEF Types, QueueType, Dispatch
<1>1. /\ changeCh' = Tail(changeCh)
      /\ inbox' = [inbox EXCEPT ![k] = Append(@, e)]
      /\ UNCHANGED <<rtCh, batch, wire, applied>>
  BY DEF Dispatch, stores
<1>2. e \in Event /\ e \in elems(changeCh) /\ Tail(changeCh) \in Seq(Event)
      /\ elems(Tail(changeCh)) \subseteq elems(changeCh)
  BY <1>0, TailElems
<1>3. Sorted(Out)' /\ elems(Out)' \subseteq elems(Out)
  BY <1>1 DEF OrderInv, Sorted, elems, Out
<1>4. ASSUME NEW w \in Workers
      PROVE  /\ Sorted(In(w))' /\ elems(In(w))' \subseteq elems(In(w))
             /\ \A ev \in elems(inbox[w])' : Shard[ev.point] = w
  <2>0. /\ inbox[w] \in Seq(Event) /\ Sorted(In(w))
        /\ \A ev \in elems(inbox[w]) : Shard[ev.point] = w
    BY <1>0 DEF OrderInv
  <2>1. CASE w = k
    <3>1. inbox'[w] = Append(inbox[w], e)
      BY <1>0, <1>1, <2>1
    <3>2. In(w)' = In(w)
      BY <1>0, <1>1, <2>0, <3>1, MoveHead DEF In
    <3>3. elems(inbox'[w]) = elems(inbox[w]) \cup {e}
      BY <2>0, <3>1, AppendElems
    <3>4. \A ev \in elems(inbox[w])' : Shard[ev.point] = w
      BY <2>0, <2>1, <3>3 DEF elems
    <3> QED BY <2>0, <3>2, <3>4 DEF Sorted, elems
  <2>2. CASE w # k
    <3>1. inbox'[w] = inbox[w]
      BY <1>0, <1>1, <2>2
    <3>2. In(w)' = inbox[w] \o Tail(changeCh)
      BY <1>1, <3>1 DEF In
    <3>3. Sorted(inbox[w]) /\ Sorted(changeCh) /\ Before(elems(inbox[w]), elems(changeCh))
      BY <1>0, <2>0, ConcatSorted DEF In
    <3>4. Sorted(Tail(changeCh)) /\ Before(elems(inbox[w]), elems(Tail(changeCh)))
      BY <1>0, <1>2, <3>3, TailSorted DEF Before
    <3>5. Sorted(inbox[w] \o Tail(changeCh))
      BY <1>2, <2>0, <3>3, <3>4, ConcatSorted
    <3>6. elems(inbox[w] \o Tail(changeCh)) \subseteq elems(In(w))
      <4>1. elems(inbox[w] \o Tail(changeCh)) = elems(inbox[w]) \cup elems(Tail(changeCh))
        <5> DEFINE a == inbox[w]
        <5> DEFINE b == Tail(changeCh)
        <5>1. a \in Seq(Event) /\ b \in Seq(Event)
          BY <1>2, <2>0
        <5> HIDE DEF a, b
        <5>2. elems(a \o b) = elems(a) \cup elems(b)
          BY <5>1, ConcatElems, Zenon
        <5> QED BY <5>2, Zenon DEF a, b
      <4>2. elems(In(w)) = elems(inbox[w]) \cup elems(changeCh)
        BY InIs DEF Types
      <4> QED BY <1>2, <4>1, <4>2
    <3> QED BY <2>0, <3>1, <3>2, <3>5, <3>6 DEF Sorted, elems
  <2> QED BY <2>1, <2>2
<1> QED BY <1>1, <1>3, <1>4, OrderKept

\* A worker takes the next event of its inbox; what it emits for it is in
\* order after what was emitted before, and before the events yet to come.
LEMMA OrderWorker ==
    ASSUME Types, Types', OrderInv, HighWater' = HighWater,
           NEW k \in Workers, HandleChange(k)
    PROVE  OrderInv'
<1> DEFINE e == Head(inbox[k])
           new == rtUpdates(e)
<1>0. /\ inbox \in [Workers -> Seq(Event)] /\ inbox[k] \in Seq(Event)
      /\ inbox[k] # <<>> /\ changeCh \in Seq(Event)
      /\ wire \in Seq(Item) /\ batch \in Seq(Item) /\ rtCh \in Seq(Item)
  BY DEF Types, QueueType, HandleChange
<1>1. /\ inbox' = [inbox EXCEPT ![k] = Tail(@)]
      /\ UNCHANGED <<changeCh, batch, wire, applied>>
      /\ rtCh' = rtCh \/ rtCh' = emit(rtCh, new)
  BY DEF HandleChange
<1>2. /\ e \in Event /\ e \in elems(inbox[k]) /\ Tail(inbox[k]) \in Seq(Event)
      /\ elems(Tail(inbox[k])) \subseteq elems(inbox[k])
  BY <1>0, TailElems
<1>3. /\ new \in Seq(ItemsOf(e)) /\ elems(new) \subseteq ItemsOf(e)
      /\ ItemsOf(e) \subseteq Item /\ new \in Seq(Item)
  <2>1. new \in Seq(ItemsOf(e)) /\ ItemsOf(e) \subseteq Item
    BY <1>2, RtUpdates DEF ItemsOf
  <2>2. new \in Seq(Item)
    BY <2>1
  <2> QED BY <2>1, <2>2, ElemsType
<1>4. e.id \in Nat /\ e.point \in Points /\ e.point # "system" /\ "system" \notin Points
  BY <1>2, EventFields, PipelineAssumption DEF Ids
<1> HIDE DEF e, new
<1>5. \A v \in elems(new) : /\ v.id = e.id
                            /\ v.point # "system" => v.point = e.point
  BY <1>3 DEF ItemsOf
<1>6. /\ Sorted(inbox[k]) /\ Sorted(changeCh)
      /\ Before(elems(inbox[k]), elems(changeCh))
  BY <1>0, ConcatSorted DEF OrderInv, In
<1>7. Sorted(Tail(inbox[k])) /\ Before({e}, elems(Tail(inbox[k])))
  BY <1>0, <1>6, TailSorted DEF e
<1>8. e \in elems(In(k))
  BY <1>2, InIs DEF Types
\* The updates of the event among what is on its way.
<1>9. Sorted(new)
  BY <1>3, <1>4, <1>5 DEF Sorted, Later, elems
<1>10. Before(elems(Out), elems(new))
  BY <1>5, <1>8 DEF OrderInv, Before, Later
<1>11. Sorted(Out) /\ Out \in Seq(Item) /\ batch \o rtCh \in Seq(Item)
       /\ elems(Out) = elems(wire) \cup elems(batch) \cup elems(rtCh)
  BY OutIs DEF OrderInv, Types
<1>12. Sorted(Out') /\ elems(Out') \subseteq elems(Out) \cup elems(new)
  <2>1. /\ Sorted(wire) /\ Sorted(batch \o rtCh)
        /\ Before(elems(wire), elems(batch \o rtCh))
    BY <1>0, <1>11, ConcatSorted DEF Out
  <2>2. /\ Sorted(batch) /\ Sorted(rtCh)
        /\ Before(elems(batch), elems(rtCh))
    BY <1>0, <2>1, ConcatSorted
  <2>3. Before(elems(rtCh), elems(new))
    BY <1>10, <1>11 DEF Before
  <2>4. Sorted(rtCh \o new)
    BY <1>0, <1>3, <1>9, <2>2, <2>3, ConcatSorted
  <2>5. /\ rtCh' \in Seq(Item) /\ Sorted(rtCh')
        /\ elems(rtCh') \subseteq elems(rtCh) \cup elems(new)
    BY <1>0, <1>1, <1>3, <2>2, <2>4, Emitted
  <2>6. Before(elems(batch), elems(rtCh'))
    BY <1>10, <1>11, <2>2, <2>5 DEF Before
  <2>7. Sorted(batch \o rtCh') /\ batch \o rtCh' \in Seq(Item)
    BY <1>0, <2>2, <2>5, <2>6, ConcatSorted
  <2>8. elems(batch \o rtCh') = elems(batch) \cup elems(rtCh')
    BY <1>0, <2>5, ConcatElems
  <2>9. elems(batch \o rtCh) = elems(batch) \cup elems(rtCh)
    BY <1>0, ConcatElems
  <2>10. Before(elems(wire), elems(batch \o rtCh'))
    BY <1>10, <1>11, <2>1, <2>5, <2>8, <2>9 DEF Before
  <2>11. Out' = wire \o (batch \o rtCh')
    BY <1>1 DEF Out
  <2>12. Sorted(Out')
    BY <1>0, <2>1, <2>7, <2>10, <2>11, ConcatSorted
  <2>13. elems(Out') = elems(wire) \cup elems(batch \o rtCh')
    <3> DEFINE q == batch \o rtCh'
    <3> HIDE DEF q
    <3>1. wire \in Seq(Item) /\ q \in Seq(Item)
      BY <1>0, <2>7 DEF q
    <3>2. elems(wire \o q) = elems(wire) \cup elems(q)
      BY <3>1, ConcatElems, Zenon
    <3> QED BY <2>11, <3>2, Zenon DEF q
  <2> QED BY <1>11, <2>5, <2>8, <2>12, <2>13
<1>13. e.id <= HighWater /\ applied[e.point] <= e.id
  BY <1>4, <1>8 DEF OrderInv, InRange
<1>14. InRange(elems(Out))'
  <2>1. ASSUME NEW v \in elems(Out')
        PROVE  /\ v.id <= HighWater'
               /\ v.point \in Points => applied'[v.point] <= v.id
    BY <1>1, <1>4, <1>5, <1>12, <1>13 DEF OrderInv, InRange
  <2> QED BY <2>1 DEF InRange, elems
<1>15. ASSUME NEW w \in Workers
       PROVE  /\ InRange(elems(In(w)))' /\ Sorted(In(w))'
              /\ Before(elems(Out), elems(In(w)))'
              /\ \A ev \in elems(inbox[w])' : Shard[ev.point] = w
  <2>0. /\ inbox[w] \in Seq(Event) /\ Sorted(In(w)) /\ InRange(elems(In(w)))
        /\ Before(elems(Out), elems(In(w)))
        /\ \A ev \in elems(inbox[w]) : Shard[ev.point] = w
        /\ elems(In(w)) = elems(inbox[w]) \cup elems(changeCh)
    BY <1>0, InIs DEF OrderInv, Types
  <2>1. \/ inbox'[w] = inbox[w] /\ w # k
        \/ inbox'[w] = Tail(inbox[w]) /\ w = k
    BY <1>0, <1>1
  <2>2. inbox'[w] \in Seq(Event) /\ elems(inbox'[w]) \subseteq elems(inbox[w])
    BY <1>2, <2>0, <2>1
  <2>3. /\ Sorted(inbox[w]) /\ Sorted(changeCh)
        /\ Before(elems(inbox[w]), elems(changeCh))
    BY <1>0, <2>0, ConcatSorted DEF In
  <2>4. Sorted(inbox'[w]) /\ Before(elems(inbox'[w]), elems(changeCh))
    BY <1>7, <2>1, <2>2, <2>3 DEF Before
  <2>5. In(w)' = inbox'[w] \o changeCh
    BY <1>1 DEF In
  <2>6. Sorted(inbox'[w] \o changeCh)
    BY <1>0, <2>2, <2>3, <2>4, ConcatSorted
  <2>7. elems(inbox'[w] \o changeCh) = elems(inbox'[w]) \cup elems(changeCh)
    BY <1>0, <2>2, ConcatElems
  <2>8. elems(In(w))' = elems(inbox'[w]) \cup elems(changeCh)
    BY <2>5, <2>7 DEF elems
  <2>9. elems(In(w))' \subseteq elems(In(w))
    BY <2>0, <2>2, <2>8
  <2>10. InRange(elems(In(w)))'
    BY <1>1, <2>0, <2>9 DEF InRange
  <2>11. ASSUME NEW v \in elems(inbox'[w]) \cup elems(changeCh) PROVE Later(e, v)
    <3>1. CASE v \in elems(changeCh)
      BY <1>2, <1>6, <3>1 DEF Before
    <3>2. CASE v \in elems(inbox'[w]) /\ w = k
      BY <1>7, <2>1, <3>2 DEF Before
    <3>3. CASE v \in elems(inbox'[w]) /\ w # k
      <4>1. Shard[v.point] = w
        BY <2>0, <2>1, <3>3
      <4>2. Shard[e.point] = k
        BY <1>2 DEF OrderInv
      <4> QED BY <3>3, <4>1, <4>2 DEF Later
    <3> QED BY <2>11, <3>1, <3>2, <3>3
  <2>12. Before(elems(Out'), elems(In(w))')
    <3>1. ASSUME NEW x \in elems(Out'), NEW v \in elems(inbox'[w]) \cup elems(changeCh)
          PROVE  Later(x, v)
      <4>1. CASE x \in elems(Out)
        BY <2>0, <2>2, <4>1 DEF Before
      <4>2. CASE x \in elems(new)
        BY <1>5, <2>11, <4>2 DEF Later
      <4> QED BY <1>12, <4>1, <4>2
    <3> QED BY <2>8, <3>1 DEF Before
  <2>13. Before(elems(Out), elems(In(w)))'
    BY <2>12 DEF Before, elems
  <2>14. Sorted(In(w))'
    BY <2>5, <2>6 DEF Sorted
  <2>15. \A ev \in elems(inbox[w])' : Shard[ev.point] = w
    BY <2>0, <2>2 DEF elems
  <2> QED BY <2>10, <2>13, <2>14, <2>15
<1>16. \A p \in Points : applied'[p] <= HighWater'
  BY <1>1 DEF OrderInv
<1>17. Sorted(Out)'
  BY <1>12 DEF Sorted
<1> QED BY <1>14, <1>15, <1>16, <1>17 DEF OrderInv

\* What a step of the cursor that hands on an event does.
LEMMA FetchedEvent ==
    ASSUME Types, Fetch
    PROVE  /\ UNCHANGED <<oplog, inbox, rtCh, batch, wire, docs, applied>>
           /\ pos + 1 \in 1 .. Len(oplog) /\ pos' = pos + 1
           /\ \/ /\ ~matches(oplog[pos + 1])
                 /\ UNCHANGED <<changeCh, lost, resumeToken>>
              \/ /\ matches(oplog[pos + 1])
                 /\ EventOf(pos + 1) \in Event /\ EventOf(pos + 1).id = pos + 1
                 /\ resumeToken' = pos + 1
                 /\ \/ /\ changeCh' = Append(changeCh, EventOf(pos + 1))
                       /\ UNCHANGED lost
                    \/ /\ changeCh # <<>> /\ "change" \in lost'
                       /\ changeCh' = Append(Tail(changeCh), EventOf(pos + 1))
<1> DEFINE e == oplog[pos + 1]
<1>1. UNCHANGED <<oplog, inbox, rtCh, batch, wire, docs, applied>>
  BY DEF Fetch, stores
<1>2. pos + 1 \in 1 .. Len(oplog) /\ pos' = pos + 1
  BY DEF Fetch, Types, StreamType
<1>3. CASE ~matches(e)
  BY <1>1, <1>2, <1>3 DEF Fetch
<1>4. CASE matches(e)
  <2>1. EventOf(pos + 1) \in Event
    BY <1>2, <1>4, EventOfUpdate DEF Types
  <2>2. EventOf(pos + 1).id = pos + 1
    BY <1>2, ChangeFields DEF Types, EventOf
  <2>3. resumeToken' = pos + 1 /\ Submit(EventOf(pos + 1))
    BY <1>4 DEF Fetch, EventOf
  <2>4. CASE Len(changeCh) < ChangeQueueSize
    BY <1>1, <1>2, <1>4, <2>1, <2>2, <2>3, <2>4 DEF Submit
  <2>5. CASE ~(Len(changeCh) < ChangeQueueSize)
    <3>1. changeCh' = Append(Tail(changeCh), EventOf(pos + 1)) /\ "change" \in lost'
      BY <2>3, <2>5 DEF Submit
    <3>2. changeCh # <<>>
      <4>1. changeCh \in Seq(Event) /\ ChangeQueueSize \in Nat \ {0}
        BY PipelineAssumption DEF Types, QueueType
      <4>2. Len(changeCh) # 0
        BY <2>5, <4>1
      <4> QED BY <4>2
    <3> QED BY <1>1, <1>2, <1>4, <2>1, <2>2, <2>3, <3>1, <3>2
  <2> QED BY <2>4, <2>5
<1> QED BY <1>3, <1>4

\* The event fetched is beyond everything on its way, also after the cursor
\* was set back.
LEMMA OrderFetch ==
    ASSUME Types, Types', OrderInv, HighWater <= HighWater', Fetch
    PROVE  OrderInv'
<1>1. CASE UNCHANGED changeCh
  <2>1. Out' = Out /\ UNCHANGED <<changeCh, inbox, applied>>
    BY <1>1, FetchedEvent DEF Out
  <2> QED BY <2>1, OrderStays
<1>2. CASE changeCh' # changeCh
  <2> DEFINE ev == EventOf(pos + 1)
  <2>0. /\ ev \in Event /\ ev.id = pos + 1 /\ resumeToken' = pos + 1
        /\ UNCHANGED <<inbox, rtCh, batch, wire, applied>>
        /\ \/ changeCh' = Append(changeCh, ev)
           \/ /\ changeCh # <<>>
              /\ changeCh' = Append(Tail(changeCh), ev)
    BY <1>2, FetchedEvent
  <2>1. pos \in Nat /\ HighWater \in Nat /\ HighWater <= pos
    BY HighWaterType DEF Types, StreamType
  <2>2. HighWater' = pos + 1
    BY <2>0, <2>1 DEF HighWater
  <2> HIDE DEF ev
  <2>3. PICK q \in Seq(Event) : /\ changeCh' = Append(q, ev)
                                /\ elems(q) \subseteq elems(changeCh)
                                /\ Sorted(changeCh) => Sorted(q)
    <3>1. changeCh \in Seq(Event)
      BY DEF Types, QueueType
    <3>2. CASE changeCh' = Append(changeCh, ev)
      BY <3>1, <3>2
    <3>3. CASE changeCh # <<>> /\ changeCh' = Append(Tail(changeCh), ev)
      <4>1. Tail(changeCh) \in Seq(Event)
        BY <3>1, <3>3
      <4>2. elems(Tail(changeCh)) \subseteq elems(changeCh)
        BY <3>1, <3>3, TailElems
      <4>3. Sorted(changeCh) => Sorted(Tail(changeCh))
        BY <3>1, <3>3, TailSorted
      <4> QED BY <3>3, <4>1, <4>2, <4>3
    <3> QED BY <2>0, <3>2, <3>3
  <2>4. ASSUME NEW U, U \subseteq Item \/ U \subseteq Event, InRange(U)
        PROVE  InRange(U)' /\ Before(U, {ev})
    <3>1. InRange(U)'
      BY <2>0, <2>4, RangeKept
    <3>2. ASSUME NEW u \in U PROVE u.id <= ev.id
      <4>1. u.id \in Nat
        BY <2>4, ItemFields, EventFields, PipelineAssumption DEF Ids
      <4> QED BY <2>0, <2>1, <2>4, <4>1 DEF InRange
    <3> QED BY <3>1, <3>2 DEF Before, Later
  <2>5. ASSUME NEW p \in Points PROVE applied'[p] <= pos
    <3>1. applied[p] \in Nat /\ applied[p] <= HighWater
      BY PipelineAssumption DEF Types, StoreTypeOK, OrderInv
    <3> QED BY <2>0, <2>1, <3>1
  <2>6. ASSUME NEW p \in Points PROVE applied'[p] <= HighWater' /\ applied'[p] <= ev.id
    <3>1. applied'[p] \in Nat
      BY <2>0, PipelineAssumption DEF Types, StoreTypeOK
    <3> QED BY <2>0, <2>1, <2>2, <2>5, <3>1
  <2>7. elems(Out)' = elems(Out) /\ Out' = Out /\ Sorted(Out)'
    BY <2>0 DEF OrderInv, Out, elems, Sorted
  <2>8. InRange(elems(Out))' /\ Before(elems(Out), {ev})
    <3>1. elems(Out) \subseteq Item /\ InRange(elems(Out))
      BY OutIs DEF Types, OrderInv
    <3>2. Before(elems(Out), {ev})
      BY <2>4, <3>1
    <3>3. InRange(elems(Out))'
      BY <2>0, <2>7, <3>1, RangeKept
    <3> QED BY <3>2, <3>3
  <2>9. ASSUME NEW w \in Workers
        PROVE  /\ InRange(elems(In(w)))' /\ Sorted(In(w))'
               /\ Before(elems(Out), elems(In(w)))'
               /\ \A v \in elems(inbox[w])' : Shard[v.point] = w
    <3>0. /\ inbox[w] \in Seq(Event) /\ changeCh \in Seq(Event)
          /\ elems(In(w)) = elems(inbox[w]) \cup elems(changeCh)
          /\ elems(In(w)) \subseteq Event /\ InRange(elems(In(w))) /\ Sorted(In(w))
          /\ Before(elems(Out), elems(In(w)))
          /\ \A v \in elems(inbox[w]) : Shard[v.point] = w
      BY InIs DEF OrderInv, Types
    <3>2. Before(elems(In(w)), {ev})
      BY <2>4, <3>0
    <3>3. /\ Sorted(inbox[w]) /\ Sorted(changeCh)
          /\ Before(elems(inbox[w]), elems(changeCh))
      BY <3>0, ConcatSorted DEF In
    <3>4. Before(elems(q), {ev}) /\ Before(elems(inbox[w]), elems(q) \cup {ev})
      BY <2>3, <3>0, <3>2, <3>3 DEF Before
    <3>5. /\ changeCh' \in Seq(Event) /\ Sorted(changeCh')
          /\ elems(changeCh') = elems(q) \cup {ev}
      BY <2>0, <2>3, <3>3, <3>4, AppendSorted, AppendElems
    <3>6. Sorted(inbox[w] \o changeCh')
      BY <3>0, <3>3, <3>4, <3>5, ConcatSorted
    <3>7. elems(inbox[w] \o changeCh') = elems(inbox[w]) \cup elems(changeCh')
      BY <3>0, <3>5, ConcatElems
    <3>8. In(w)' = inbox[w] \o changeCh'
      BY <2>0 DEF In
    <3>9. elems(In(w))' \subseteq elems(In(w)) \cup {ev}
      <4>1. elems(In(w))' = elems(inbox[w]) \cup (elems(q) \cup {ev})
        BY <3>5, <3>7, <3>8
      <4> QED BY <2>3, <3>0, <4>1
    <3>10. Sorted(In(w))'
      BY <3>6, <3>8 DEF Sorted
    <3>11. ASSUME NEW v \in elems(In(w))'
           PROVE  /\ v.id <= HighWater'
                  /\ v.point \in Points => applied'[v.point] <= v.id
      <4>1. CASE v = ev
        BY <2>0, <2>1, <2>2, <2>6, <4>1
      <4>2. CASE v \in elems(In(w))
        <5>1. v.id \in Nat /\ v.id <= HighWater
          BY <3>0, <4>2, EventFields, PipelineAssumption DEF InRange, Ids
        <5>2. v.id <= HighWater'
          BY <2>1, <2>2, <5>1
        <5> QED BY <2>0, <3>0, <4>2, <5>2 DEF InRange
      <4> QED BY <3>9, <4>1, <4>2
    <3>12. InRange(elems(In(w)))'
      BY <3>11 DEF InRange
    <3>13. Before(elems(Out), elems(In(w)))'
      BY <2>7, <2>8, <3>0, <3>9 DEF Before
    <3>14. \A v \in elems(inbox[w])' : Shard[v.point] = w
      BY <2>0, <3>0 DEF elems
    <3> QED BY <3>10, <3>12, <3>13, <3>14
  <2> QED BY <2>6, <2>7, <2>8, <2>9 DEF OrderInv
<1> QED BY <1>1, <1>2

\* Initially nothing is on its way.
LEMMA OrderInit == Init => OrderInv
<1> SUFFICES ASSUME Init PROVE OrderInv
  OBVIOUS
<1>1. Out = <<>> /\ \A w \in Workers : In(w) = <<>> /\ inbox[w] = <<>>
  BY DEF Init, Out, In
<1>2. elems(<<>>) = {} /\ Sorted(<<>>)
  BY SingleSorted
<1>3. HighWater = 0 /\ \A p \in Points : applied[p] = 0
  BY DEF Init, HighWater
<1> QED BY <1>1, <1>2, <1>3 DEF OrderInv, InRange, Before

\* Every step keeps the pipeline in order.
LEMMA OrderStep ==
    ASSUME Types, Types', OrderInv, [Next]_vars
    PROVE  OrderInv'
<1>0. HighWater <= HighWater'
  BY StreamStep DEF Types
<1>1. ASSUME UNCHANGED <<changeCh, inbox, rtCh, batch, wire, applied>> PROVE OrderInv'
  <2>1. Out' = Out
    BY <1>1 DEF Out
  <2> QED BY <1>0, <1>1, <2>1, OrderStays
<1>2. CASE Fetch
  BY <1>0, <1>2, OrderFetch
<1>3. CASE Dispatch
  BY <1>0, <1>3, OrderDispatch
<1>4. ASSUME NEW w \in Workers, HandleChange(w) PROVE OrderInv'
  <2>1. HighWater' = HighWater
    BY <1>4 DEF HandleChange, stream, HighWater
  <2> QED BY <1>4, <2>1, OrderWorker
<1>5. CASE TakeUpdate \/ FlushRtBatch \/ FlushRtFails
  BY <1>0, <1>5, OrderWriter
<1>6. CASE Apply
  <2>1. HighWater' = HighWater
    BY <1>6 DEF Apply, stream, HighWater
  <2> QED BY <1>6, <2>1, OrderApply
<1>7. CASE FlushSoe \/ FlushSoeFails
  <2>1. UNCHANGED <<changeCh, inbox, rtCh, batch, wire, applied>>
    BY <1>7, Zenon DEF FlushSoe, FlushSoeFails, stores
  <2> QED BY <1>1, <2>1
<1>8. ASSUME NEW p \in Points, NEW s \in Updates, DriverWrite(p, s) PROVE OrderInv'
  BY <1>1, <1>8 DEF DriverWrite, queues, stores
<1>9. ASSUME NEW p \in Points, InsertPoint(p) PROVE OrderInv'
  BY <1>1, <1>9 DEF InsertPoint, queues, stores
<1>10. CASE StreamError \/ WatchFails \/ Watch \/ Disconnected \/ Activate \/ Standby
  BY <1>1, <1>10 DEF StreamError, WatchFails, Watch, Disconnected, Activate, Standby,
     queues, stores
<1>11. CASE UNCHANGED vars
  BY <1>1, <1>11 DEF vars
<1> QED
  BY <1>2, <1>3, <1>4, <1>5, <1>6, <1>7, <1>8, <1>9, <1>10, <1>11, Zenon DEF Next

\* Two updates of one point are never reordered: no step takes the document
\* back to the result of an earlier change, with any number of workers, however
\* the points are shared out, the batches cut and the connection restored
\* (the dispatcher of process.go gives a point to one worker).
THEOREM NeverReordered == Spec => PerPointOrder
<1> DEFINE Inv == Types /\ QueueBounds /\ OrderInv
<1>1. Init => Inv
  BY TypesInit, OrderInit
<1>2. Inv /\ [Next]_vars => Inv'
  BY TypesStep, OrderStep
<1>3. Inv /\ [Next]_vars => [\A p \in Points : applied'[p] >= applied[p]]_vars
  <2> SUFFICES ASSUME Inv, [Next]_vars, NEW p \in Points PROVE applied'[p] >= applied[p]
    OBVIOUS
  <2>1. applied \in [Points -> 0 .. MaxUpdates] /\ applied[p] \in Nat
    BY PipelineAssumption DEF Types, StoreTypeOK
  <2>2. CASE UNCHANGED applied
    BY <2>1, <2>2
  <2>3. CASE Apply
    <3> DEFINE u == Head(wire)
    <3>1. /\ wire \in Seq(Item) /\ wire # <<>>
      BY <2>3 DEF Types, QueueType, Apply
    <3>2. u \in Item /\ u \in elems(Out)
      BY <3>1, TailElems, OutIs DEF Types
    <3>3. u.point \in Points => applied[u.point] <= u.id
      BY <3>2 DEF OrderInv, InRange
    <3>4. u.id \in Nat
      BY <3>2, ItemFields, PipelineAssumption DEF Ids
    <3>5. applied' = applied \/ applied' = [applied EXCEPT ![u.point] = u.id]
      BY <2>3 DEF Apply
    <3> HIDE DEF u
    <3> QED BY <2>1, <3>3, <3>4, <3>5
  <2>4. Apply \/ UNCHANGED applied
    <3>1. ASSUME NEW w \in Workers, HandleChange(w) PROVE UNCHANGED applied
      BY <3>1 DEF HandleChange
    <3>2. ASSUME NEW q \in Points, NEW s \in Updates, DriverWrite(q, s)
          PROVE  UNCHANGED applied
      BY <3>2 DEF DriverWrite, stores
    <3>3. ASSUME NEW q \in Points, InsertPoint(q) PROVE UNCHANGED applied
      BY <3>3 DEF InsertPoint, stores
    <3>4. CASE \/ Fetch \/ StreamError \/ WatchFails \/ Watch \/ Dispatch
              \/ TakeUpdate \/ FlushRtBatch \/ FlushRtFails \/ FlushSoe
              \/ FlushSoeFails \/ Disconnected \/ Activate \/ Standby
      BY <3>4, Zenon DEF Fetch, StreamError, WatchFails, Watch, Dispatch, TakeUpdate,
         FlushRtBatch, FlushRtFails, FlushSoe, FlushSoeFails, Disconnected,
         Activate, Standby, stores
    <3>5. CASE UNCHANGED vars
      BY <3>5 DEF vars
    <3> QED BY <3>1, <3>2, <3>3, <3>4, <3>5, Zenon DEF Next
  <2> QED BY <2>2, <2>3, <2>4
<1> QED BY <1>1, <1>2, <1>3, PTL DEF Spec, PerPointOrder

-----------------------------------------------------------------------------
(* The last value.                                                         *)

\* What the theorem on the last value needs: sources that stamp their updates,
\* no update that is only for the historian, and no protection-like event,
\* whose OFF state is not stored.  Without a time, an update computed from an
\* old copy of the document may look like no change and be ignored.
EveryUpdateCounts ==
    /\ Timestamped
    /\ \A s \in Updates : ~s.isHistorical
    /\ \A p \in Points : ~(Config[p].type = "digital" /\ Config[p].isEvent)

\* The events, and the updates, that are on their way.
Pending == elems(changeCh) \cup UNION {elems(inbox[w]) : w \in Workers}

Writes == elems(wire) \cup elems(batch) \cup elems(rtCh)

\* u is the update of its point, not of a system point, for change i.
IsFor(u, i) == u.id = i /\ u.point # "system"

\* An event carries the change of its id, with a copy of the document that
\* only earlier changes have reached.
Carries(ev) ==
    /\ matches(oplog[ev.id])
    /\ oplog[ev.id].point = ev.point /\ oplog[ev.id].sdu = ev.sdu
    /\ ev.fullDocument.timeTagAtSource < ev.id

\* An update on its way holds the value of the change of its id.
Holds(u) ==
    u.point # "system" =>
      /\ oplog[u.id].point = u.point
      /\ u.set.value = valueOf(Config[u.point], oplog[u.id].sdu)
      /\ u.set.timeTagAtSource = u.id

\* The document shows the value of the last change applied to it.
Shows(p) ==
    /\ docs[p].timeTagAtSource <= applied[p]
    /\ applied[p] # 0 =>
         /\ oplog[applied[p]].point = p
         /\ docs[p].value = valueOf(Config[p], oplog[applied[p]].sdu)

Stamped(e) ==
    matches(e) => e.sdu.timeTagAtSource = e.id /\ ~e.sdu.isHistorical

ContentInv ==
    /\ \A i \in DOMAIN oplog : Stamped(oplog[i])
    /\ \A ev \in Pending : Carries(ev)
    /\ \A u \in Writes : Holds(u)
    /\ \A p \in Points : Shows(p)

\* Until something is lost, every update that the cursor has passed is on its
\* way, or it or a later one has reached the document.
Tracked(i) ==
    \/ \E ev \in Pending : ev.id = i
    \/ \E u \in Writes : IsFor(u, i)
    \/ applied[oplog[i].point] >= i

TrackInv == lost = {} => \A i \in 1 .. pos : matches(oplog[i]) => Tracked(i)

\* What is on its way is of the oplog so far.
LEMMA PendingRange ==
    ASSUME Types, OrderInv, NEW ev \in Pending
    PROVE  ev \in Event /\ ev.id \in 1 .. Len(oplog) /\ ev.id <= pos
<1>0. changeCh \in Seq(Event) /\ inbox \in [Workers -> Seq(Event)]
  BY DEF Types, QueueType
<1>1. PICK w \in Workers : ev \in elems(In(w))
  <2>1. CASE ev \in elems(changeCh)
    <3>1. ev \in Event
      BY <1>0, <2>1, ElemsType
    <3>2. Shard[ev.point] \in Workers
      BY <3>1, EventFields, PipelineAssumption
    <3> QED BY <2>1, <3>2, InIs DEF Types
  <2>2. CASE \E w \in Workers : ev \in elems(inbox[w])
    BY <2>2, InIs DEF Types
  <2> QED BY <2>1, <2>2 DEF Pending
<1>2. ev \in Event
  BY <1>1, InIs DEF Types
<1>3. ev.id <= HighWater
  BY <1>1 DEF OrderInv, InRange
<1>4. ev.id \in Nat \ {0}
  BY <1>2, EventFields, PipelineAssumption DEF Ids
<1>5. HighWater \in Nat /\ HighWater <= pos /\ pos \in Nat /\ pos <= Len(oplog)
      /\ Len(oplog) \in Nat
  BY HighWaterType DEF Types, StreamType
<1> QED BY <1>2, <1>3, <1>4, <1>5

\* What is on its way to the documents comes from a change in the oplog, and
\* not from one before the last applied to its point.
LEMMA WritesRange ==
    ASSUME Types, OrderInv, NEW u \in Writes
    PROVE  /\ u \in Item /\ u.id \in 1 .. Len(oplog)
           /\ u.point \in Points => applied[u.point] <= u.id
<1>1. u \in elems(Out) /\ u \in Item
  BY OutIs DEF Types, Writes
<1>2. u.id <= HighWater /\ (u.point \in Points => applied[u.point] <= u.id)
  BY <1>1 DEF OrderInv, InRange
<1>3. u.id \in Nat \ {0}
  BY <1>1, ItemFields, PipelineAssumption DEF Ids
<1>4. HighWater \in Nat /\ HighWater <= pos /\ pos \in Nat /\ pos <= Len(oplog)
      /\ Len(oplog) \in Nat
  BY HighWaterType DEF Types, StreamType
<1> QED BY <1>1, <1>2, <1>3, <1>4

\* What was applied to a point is a change the stream has passed.
LEMMA AppliedRange ==
    ASSUME Types, OrderInv, NEW p \in Points
    PROVE  applied[p] \in 0 .. Len(oplog) /\ applied[p] <= pos
<1>1. applied[p] \in Nat /\ applied[p] <= HighWater
  BY PipelineAssumption DEF Types, StoreTypeOK, OrderInv
<1>2. HighWater \in Nat /\ HighWater <= pos /\ pos \in Nat /\ pos <= Len(oplog)
      /\ Len(oplog) \in Nat
  BY HighWaterType DEF Types, StreamType
<1> QED BY <1>1, <1>2

\* What is known of the changes stays known as the oplog grows.
LEMMA ContentGrows ==
    ASSUME Types, OrderInv, ContentInv, Grows
    PROVE  /\ \A ev \in Pending : Carries(ev) /\ oplog'[ev.id] = oplog[ev.id]
           /\ \A u \in Writes : Holds(u) /\ oplog'[u.id] = oplog[u.id]
           /\ \A p \in Points : /\ Shows(p)
                                /\ applied[p] # 0 =>
                                      oplog'[applied[p]] = oplog[applied[p]]
<1>1. ASSUME NEW ev \in Pending PROVE oplog'[ev.id] = oplog[ev.id]
  BY PendingRange DEF Grows
<1>2. ASSUME NEW u \in Writes PROVE oplog'[u.id] = oplog[u.id]
  BY WritesRange DEF Grows
<1>3. ASSUME NEW p \in Points, applied[p] # 0 PROVE oplog'[applied[p]] = oplog[applied[p]]
  <2>1. applied[p] \in 1 .. Len(oplog)
    BY <1>3, AppliedRange
  <2> QED BY <2>1 DEF Grows
<1> QED BY <1>1, <1>2, <1>3 DEF ContentInv

\* So what was right of it is right after the step.
LEMMA ContentKept ==
    ASSUME Types, OrderInv, ContentInv, Grows
    PROVE  /\ \A ev \in Pending : Carries(ev)'
           /\ \A u \in Writes : Holds(u)'
           /\ \A p \in Points :
                docs'[p] = docs[p] /\ applied'[p] = applied[p] => Shows(p)'
<1>1. ASSUME NEW ev \in Pending PROVE Carries(ev)'
  BY ContentGrows DEF Carries, matches
<1>2. ASSUME NEW u \in Writes PROVE Holds(u)'
  BY ContentGrows DEF Holds
<1>3. ASSUME NEW p \in Points, docs'[p] = docs[p], applied'[p] = applied[p]
      PROVE  Shows(p)'
  BY <1>3, ContentGrows DEF Shows
<1> QED BY <1>1, <1>2, <1>3

\* What a worker does with an event: if nothing is lost, it emits the update of
\* the point, since under EveryUpdateCounts every update is to be stored.
LEMMA EveryEventStored ==
    ASSUME EveryUpdateCounts, ContentInv, NEW ev \in Event, Carries(ev),
           Stamped(oplog[ev.id]), oplog[ev.id].id = ev.id
    PROVE  /\ storesPoint(Config[ev.point], ev.fullDocument, ev.sdu)
           /\ ev.sdu.timeTagAtSource = ev.id
<1> DEFINE pt == Config[ev.point]
           fd == ev.fullDocument
           sdu == ev.sdu
<1>1. sdu.timeTagAtSource = ev.id /\ ~sdu.isHistorical
  BY DEF Carries, Stamped
<1>2. /\ ev.id \in Nat \ {0} /\ ev.point \in Points /\ pt.type \in {"digital", "analog"}
      /\ fd.timeTagAtSource \in Nat
  <2>1. ev.id \in Nat \ {0}
    BY EventFields, PipelineAssumption DEF Ids
  <2>2. pt \in PointType /\ fd \in DocType /\ ev.point \in Points
    BY EventFields
  <2> QED BY <2>1, <2>2 DEF PointType, DocType
<1>3. fd.timeTagAtSource < ev.id
  BY DEF Carries
<1>4. ~(pt.isEvent /\ pt.type = "digital")
  BY <1>2, Zenon DEF EveryUpdateCounts
<1>5. sourceTimeTagAtSourceChanged(fd, sdu)
  BY <1>1, <1>2, <1>3 DEF sourceTimeTagAtSourceChanged
<1>6. changedForUpdate(pt, fd, sdu)
  BY <1>5, Zenon DEF changedForUpdate
<1>7. storesPoint(pt, fd, sdu)
  BY <1>1, <1>4, <1>6, Zenon DEF storesPoint, accepted
<1> QED BY <1>1, <1>7

\* Driver writes keep the changes stamped.
LEMMA StampedStep ==
    ASSUME EveryUpdateCounts, Types, Types', ContentInv, [Next]_vars
    PROVE  \A i \in DOMAIN oplog' : Stamped(oplog'[i])
<1>0. /\ oplog \in Seq(Changes) /\ oplog' \in Seq(Changes)
      /\ \A i \in 1 .. Len(oplog) : Stamped(oplog[i])
  BY DEF Types, StreamType, ContentInv
<1>1. ASSUME NEW e \in Changes, oplog' = Append(oplog, e), Stamped(e)
      PROVE  \A i \in DOMAIN oplog' : Stamped(oplog'[i])
  <2>1. ASSUME NEW i \in 1 .. Len(oplog) + 1 PROVE Stamped(Append(oplog, e)[i])
    <3>1. CASE i = Len(oplog) + 1
      BY <1>0, <1>1, <3>1
    <3>2. CASE i \in 1 .. Len(oplog)
      BY <1>0, <3>2
    <3> QED BY <3>1, <3>2, <1>0
  <2>2. DOMAIN Append(oplog, e) = 1 .. Len(oplog) + 1
    BY <1>0
  <2> QED BY <1>1, <2>1, <2>2
<1>2. ASSUME NEW p \in Points, NEW s \in Updates, DriverWrite(p, s)
      PROVE  \A i \in DOMAIN oplog' : Stamped(oplog'[i])
  <2>1. PICK e \in Changes : /\ oplog' = Append(oplog, e)
                             /\ e.sdu.timeTagAtSource = IF Timestamped THEN e.id ELSE 0
                             /\ \E r \in Updates : e.sdu.isHistorical = r.isHistorical
    BY <1>2, DriverAppends DEF Types
  <2>2. Stamped(e)
    BY <2>1, Zenon DEF EveryUpdateCounts, Stamped
  <2> QED BY <1>1, <2>1, <2>2
<1>3. ASSUME NEW p \in Points, InsertPoint(p)
      PROVE  \A i \in DOMAIN oplog' : Stamped(oplog'[i])
  <2>1. PICK e \in Changes : oplog' = Append(oplog, e) /\ e.op = "insert"
    BY <1>3, InsertAppends DEF Types
  <2>2. Stamped(e)
    BY <2>1 DEF Stamped, matches
  <2> QED BY <1>1, <2>1, <2>2
<1>4. ASSUME UNCHANGED oplog PROVE \A i \in DOMAIN oplog' : Stamped(oplog'[i])
  BY <1>0, <1>4
<1>5. ASSUME NEW w \in Workers, HandleChange(w) PROVE UNCHANGED oplog
  BY <1>5 DEF HandleChange
<1>6. CASE \/ Fetch \/ StreamError \/ WatchFails \/ Watch \/ Dispatch
          \/ TakeUpdate \/ FlushRtBatch \/ FlushRtFails \/ Apply \/ FlushSoe
          \/ FlushSoeFails \/ Disconnected \/ Activate \/ Standby
  <2>1. UNCHANGED oplog
    BY <1>6, Zenon DEF Fetch, StreamError, WatchFails, Watch, Dispatch, TakeUpdate,
       FlushRtBatch, FlushRtFails, Apply, FlushSoe, FlushSoeFails, Disconnected,
       Activate, Standby
  <2> QED BY <1>4, <2>1
<1>7. CASE UNCHANGED vars
  BY <1>4, <1>7 DEF vars
<1> QED BY <1>2, <1>3, <1>4, <1>5, <1>6, <1>7, Zenon DEF Next

-----------------------------------------------------------------------------
(* What each action does to what is on its way.                            *)

\* The dispatcher and the writer only move things on.
LEMMA DispatchMoves ==
    ASSUME Types, Dispatch
    PROVE  /\ Pending' = Pending /\ Writes' = Writes
           /\ UNCHANGED <<oplog, pos, docs, applied, lost>>
<1> DEFINE e == Head(changeCh)
           k == Shard[e.point]
<1>0. /\ changeCh \in Seq(Event) /\ changeCh # <<>>
      /\ inbox \in [Workers -> Seq(Event)]
  BY DEF Types, QueueType, Dispatch
<1>1. /\ changeCh' = Tail(changeCh)
      /\ inbox' = [inbox EXCEPT ![k] = Append(@, e)]
      /\ UNCHANGED <<rtCh, batch, wire, oplog, pos, docs, applied, lost>>
  BY DEF Dispatch, stores, stream
<1>2. e \in Event /\ elems(changeCh) = {e} \cup elems(changeCh')
  BY <1>0, <1>1, TailElems
<1>3. k \in Workers
  BY <1>2, EventFields, PipelineAssumption
<1> HIDE DEF k, e
<1>4. elems(inbox'[k]) = elems(inbox[k]) \cup {e}
  <2>1. inbox'[k] = Append(inbox[k], e) /\ inbox[k] \in Seq(Event)
    BY <1>0, <1>1, <1>3
  <2> QED BY <2>1, AppendElems
<1>5. \A w \in Workers : w # k => elems(inbox'[w]) = elems(inbox[w])
  BY <1>0, <1>1
<1>6. UNION {elems(inbox'[w]) : w \in Workers}
        = {e} \cup UNION {elems(inbox[w]) : w \in Workers}
  BY <1>3, <1>4, <1>5
<1>7. Pending' = Pending
  BY <1>2, <1>6 DEF Pending, elems
<1>8. Writes' = Writes
  BY <1>1 DEF Writes, elems
<1> QED BY <1>1, <1>7, <1>8

\* The realtime writer hands writes on, or records that some are lost.
LEMMA WriterMoves ==
    ASSUME Types, TakeUpdate \/ FlushRtBatch \/ FlushRtFails
    PROVE  /\ Pending' = Pending /\ UNCHANGED <<oplog, pos, docs, applied>>
           /\ Writes' \subseteq Writes
           /\ \/ Writes' = Writes /\ lost' = lost
              \/ lost' # {}
<1>0. wire \in Seq(Item) /\ batch \in Seq(Item) /\ rtCh \in Seq(Item)
  BY DEF Types, QueueType
<1>1. UNCHANGED <<changeCh, inbox, oplog, pos, docs, applied>>
  BY Zenon DEF TakeUpdate, FlushRtBatch, FlushRtFails, stores, stream
<1>2. Pending' = Pending
  BY <1>1 DEF Pending, elems
<1>3. elems(<<>>) = {}
  BY SingleSorted
<1>4. CASE TakeUpdate
  <2>1. /\ rtCh # <<>> /\ batch' = Append(batch, Head(rtCh)) /\ rtCh' = Tail(rtCh)
        /\ wire' = wire /\ lost' = lost
    BY <1>4 DEF TakeUpdate
  <2>2. elems(batch') = elems(batch) \cup {Head(rtCh)}
    BY <1>0, <2>1, AppendElems
  <2>3. elems(rtCh) = {Head(rtCh)} \cup elems(rtCh')
    BY <1>0, <2>1, TailElems
  <2>4. Writes' = Writes
    BY <2>1, <2>2, <2>3 DEF Writes, elems
  <2> QED BY <1>1, <1>2, <2>1, <2>4
<1>5. CASE FlushRtBatch
  <2>1. /\ wire' = wire \o batch /\ batch' = <<>> /\ rtCh' = rtCh /\ lost' = lost
    BY <1>5 DEF FlushRtBatch
  <2>2. elems(wire') = elems(wire) \cup elems(batch)
    BY <1>0, <2>1, ConcatElems
  <2>3. elems(batch') = {} /\ elems(rtCh') = elems(rtCh)
    BY <1>3, <2>1
  <2>4. Writes' = elems(wire') \cup elems(batch') \cup elems(rtCh')
    BY DEF Writes, elems
  <2>5. Writes' = Writes
    BY <2>2, <2>3, <2>4 DEF Writes
  <2> QED BY <1>1, <1>2, <2>1, <2>5
<1>6. CASE FlushRtFails
  <2>1. /\ wire' = wire /\ batch' = <<>> /\ rtCh' = rtCh /\ lost' # {}
    BY <1>6 DEF FlushRtFails
  <2>2. Writes' \subseteq Writes
    BY <1>3, <2>1 DEF Writes, elems
  <2> QED BY <1>1, <1>2, <2>1, <2>2
<1> QED BY <1>4, <1>5, <1>6

\* A worker replaces an event by its updates; if nothing is lost, among them is
\* the one of the point.
LEMMA WorkerMoves ==
    ASSUME EveryUpdateCounts, Types, OrderInv, ContentInv, NEW k \in Workers,
           HandleChange(k)
    PROVE  \E e \in Pending :
             /\ Pending' \subseteq Pending /\ Pending \subseteq Pending' \cup {e}
             /\ Writes' \subseteq Writes \cup ItemsOf(e)
             /\ e.sdu.timeTagAtSource = e.id
             /\ UNCHANGED <<oplog, pos, docs, applied>>
             /\ \/ lost' # {}
                \/ /\ lost' = lost /\ Writes \subseteq Writes'
                   /\ \E u \in Writes' : IsFor(u, e.id)
<1> DEFINE e == Head(inbox[k])
           new == rtUpdates(e)
<1>0. /\ inbox \in [Workers -> Seq(Event)] /\ inbox[k] \in Seq(Event)
      /\ inbox[k] # <<>> /\ rtCh \in Seq(Item)
  BY DEF Types, QueueType, HandleChange
<1>1. /\ inbox' = [inbox EXCEPT ![k] = Tail(@)]
      /\ UNCHANGED <<changeCh, batch, wire, oplog, pos, docs, applied>>
  BY DEF HandleChange, stream
<1>2. e \in Event /\ elems(inbox[k]) = {e} \cup elems(inbox'[k])
  BY <1>0, <1>1, TailElems
<1>3. \/ lost' # {} /\ rtCh' = rtCh
      \/ /\ rtCh' = emit(rtCh, new)
         /\ lost' # {} \/ (lost' = lost /\ fits(rtCh, new))
  <2>1. e.op = "update"
    BY <1>2, EventFields
  <2>2. CASE role # "active"
    BY <2>1, <2>2 DEF HandleChange
  <2>3. CASE role = "active"
    BY <2>1, <2>3 DEF HandleChange
  <2> QED BY <2>2, <2>3
<1>4. new \in Seq(ItemsOf(e)) /\ elems(new) \subseteq ItemsOf(e)
      /\ ItemsOf(e) \subseteq Item /\ new \in Seq(Item)
  <2>1. new \in Seq(ItemsOf(e)) /\ ItemsOf(e) \subseteq Item
    BY <1>2, RtUpdates DEF ItemsOf
  <2>2. new \in Seq(Item)
    BY <2>1
  <2> QED BY <2>1, <2>2, ElemsType
<1>5. e \in Pending
  BY <1>2 DEF Pending
<1>6. /\ storesPoint(Config[e.point], e.fullDocument, e.sdu)
      /\ e.sdu.timeTagAtSource = e.id
  <2>1. e.id \in 1 .. Len(oplog)
    BY <1>5, PendingRange
  <2>2. Stamped(oplog[e.id]) /\ oplog[e.id].id = e.id /\ Carries(e)
    BY <1>5, <2>1 DEF ContentInv, Types, StreamType
  <2> QED BY <1>2, <2>2, EveryEventStored
<1>7. \E u \in elems(new) : IsFor(u, e.id)
  <2>1. PICK u \in elems(new) : u.point = e.point
    BY <1>2, <1>6, RtUpdates
  <2>2. u.id = e.id
    BY <1>4, <2>1 DEF ItemsOf
  <2> QED BY <1>2, <2>1, <2>2, EventFields DEF IsFor
<1> HIDE DEF e, new
<1>8. Pending' \subseteq Pending /\ Pending \subseteq Pending' \cup {e}
  <2>1. \A w \in Workers : w # k => elems(inbox'[w]) = elems(inbox[w])
    BY <1>0, <1>1
  <2>2. Pending' = elems(changeCh) \cup UNION {elems(inbox'[w]) : w \in Workers}
    BY <1>1 DEF Pending, elems
  <2> QED BY <1>2, <2>1, <2>2 DEF Pending
<1>9. Writes' = elems(wire) \cup elems(batch) \cup elems(rtCh')
  BY <1>1 DEF Writes, elems
<1>10. elems(rtCh') \subseteq elems(rtCh) \cup elems(new)
  BY <1>0, <1>3, <1>4, Emitted
<1>11. Writes' \subseteq Writes \cup ItemsOf(e)
  BY <1>4, <1>9, <1>10 DEF Writes
<1>12. \/ lost' # {}
       \/ /\ lost' = lost /\ Writes \subseteq Writes'
          /\ \E u \in Writes' : IsFor(u, e.id)
  <2>1. CASE lost' = lost /\ rtCh' = emit(rtCh, new) /\ fits(rtCh, new)
    <3>1. rtCh' = rtCh \o new
      BY <1>0, <1>4, <2>1, Emitted
    <3>2. elems(rtCh') = elems(rtCh) \cup elems(new)
      BY <1>0, <1>4, <3>1, ConcatElems
    <3>3. Writes \subseteq Writes' /\ elems(new) \subseteq Writes'
      BY <1>9, <3>2 DEF Writes
    <3> QED BY <1>7, <2>1, <3>3
  <2> QED BY <1>3, <2>1
<1> QED BY <1>1, <1>5, <1>6, <1>8, <1>11, <1>12

\* The database executes the first update on its way.
LEMMA ApplyMoves ==
    ASSUME Types, Apply
    PROVE  \E u \in Writes :
             /\ u \in Item /\ Pending' = Pending
             /\ Writes' \subseteq Writes /\ Writes \subseteq Writes' \cup {u}
             /\ UNCHANGED <<oplog, pos, lost>>
             /\ \/ u.point = "system" /\ UNCHANGED <<docs, applied>>
                \/ /\ u.point \in Points /\ u.point # "system"
                   /\ docs' = [docs EXCEPT ![u.point] = applyUpdate(@, u.set)]
                   /\ applied' = [applied EXCEPT ![u.point] = u.id]
<1> DEFINE u == Head(wire)
<1>0. wire \in Seq(Item) /\ wire # <<>>
  BY DEF Types, QueueType, Apply
<1>1. /\ wire' = Tail(wire)
      /\ UNCHANGED <<changeCh, inbox, batch, rtCh, oplog, pos, lost>>
  BY DEF Apply, stream
<1>2. u \in Item /\ elems(wire) = {u} \cup elems(wire')
  BY <1>0, <1>1, TailElems
<1>3. \/ u.point = "system" /\ UNCHANGED <<docs, applied>>
      \/ /\ u.point \in Points /\ u.point # "system"
         /\ docs' = [docs EXCEPT ![u.point] = applyUpdate(@, u.set)]
         /\ applied' = [applied EXCEPT ![u.point] = u.id]
  BY <1>2, ItemFields DEF Apply
<1> HIDE DEF u
<1>4. Writes' = elems(wire') \cup elems(batch) \cup elems(rtCh)
  BY <1>1 DEF Writes, elems
<1>5. u \in Writes /\ Writes' \subseteq Writes /\ Writes \subseteq Writes' \cup {u}
  BY <1>2, <1>4 DEF Writes
<1>6. Pending' = Pending
  BY <1>1 DEF Pending, elems
<1> QED BY <1>1, <1>2, <1>3, <1>5, <1>6

\* The cursor passes a change.
LEMMA FetchMoves ==
    ASSUME Types, Fetch
    PROVE  /\ UNCHANGED <<oplog, docs, applied>> /\ Writes' = Writes
           /\ pos + 1 \in 1 .. Len(oplog) /\ pos' = pos + 1
           /\ \/ ~matches(oplog[pos + 1]) /\ Pending' = Pending /\ lost' = lost
              \/ /\ matches(oplog[pos + 1])
                 /\ EventOf(pos + 1) \in Event /\ EventOf(pos + 1).id = pos + 1
                 /\ Pending' \subseteq Pending \cup {EventOf(pos + 1)}
                 /\ \/ lost' # {}
                    \/ lost' = lost /\ Pending' = Pending \cup {EventOf(pos + 1)}
<1> DEFINE ev == EventOf(pos + 1)
<1>0. /\ UNCHANGED <<oplog, inbox, rtCh, batch, wire, docs, applied>>
      /\ pos + 1 \in 1 .. Len(oplog) /\ pos' = pos + 1
  BY FetchedEvent
<1>1. Writes' = Writes
  BY <1>0 DEF Writes, elems
<1>2. CASE ~matches(oplog[pos + 1])
  <2>1. UNCHANGED <<changeCh, lost>>
    BY <1>2, FetchedEvent
  <2>2. Pending' = Pending
    BY <1>0, <2>1 DEF Pending, elems
  <2> QED BY <1>0, <1>1, <1>2, <2>1, <2>2
<1>3. CASE matches(oplog[pos + 1])
  <2>1. /\ ev \in Event /\ ev.id = pos + 1
        /\ \/ changeCh' = Append(changeCh, ev) /\ UNCHANGED lost
           \/ /\ changeCh # <<>> /\ "change" \in lost'
              /\ changeCh' = Append(Tail(changeCh), ev)
    BY <1>3, FetchedEvent
  <2> HIDE DEF ev
  <2>2. changeCh \in Seq(Event)
    BY DEF Types, QueueType
  <2>3. Pending' = elems(changeCh') \cup UNION {elems(inbox[w]) : w \in Workers}
    BY <1>0 DEF Pending, elems
  <2>4. CASE changeCh' = Append(changeCh, ev) /\ UNCHANGED lost
    <3>1. elems(changeCh') = elems(changeCh) \cup {ev}
      BY <2>2, <2>4, AppendElems
    <3>2. Pending' = Pending \cup {ev}
      BY <2>3, <3>1 DEF Pending
    <3> QED BY <1>0, <1>1, <1>3, <2>1, <2>4, <3>2 DEF ev
  <2>5. CASE /\ changeCh # <<>> /\ "change" \in lost'
             /\ changeCh' = Append(Tail(changeCh), ev)
    <3>1. Tail(changeCh) \in Seq(Event) /\ elems(Tail(changeCh)) \subseteq elems(changeCh)
      BY <2>2, <2>5, TailElems
    <3>2. elems(changeCh') = elems(Tail(changeCh)) \cup {ev}
      BY <2>5, <3>1, AppendElems
    <3>3. Pending' \subseteq Pending \cup {ev} /\ lost' # {}
      BY <2>3, <2>5, <3>1, <3>2 DEF Pending
    <3> QED BY <1>0, <1>1, <1>3, <2>1, <3>3 DEF ev
  <2> QED BY <2>1, <2>4, <2>5
<1> QED BY <1>2, <1>3

\* Every other action leaves what is on its way and the documents alone.
LEMMA OtherMoves ==
    ASSUME Types, [Next]_vars
    PROVE  \/ Fetch \/ Dispatch \/ (\E k \in Workers : HandleChange(k))
           \/ TakeUpdate \/ FlushRtBatch \/ FlushRtFails \/ Apply
           \/ /\ Pending' = Pending /\ Writes' = Writes
              /\ UNCHANGED <<docs, applied>>
              /\ Watch \/ (pos' = pos /\ (lost' = lost \/ lost' # {}))
<1> DEFINE Stay == /\ Pending' = Pending /\ Writes' = Writes
                   /\ UNCHANGED <<docs, applied>>
<1>1. ASSUME UNCHANGED <<changeCh, inbox, rtCh, batch, wire, docs, applied>> PROVE Stay
  BY <1>1 DEF Pending, Writes, elems
<1> HIDE DEF Stay
<1>2. ASSUME NEW p \in Points, NEW s \in Updates, DriverWrite(p, s)
      PROVE  Stay /\ pos' = pos /\ lost' = lost
  BY <1>1, <1>2 DEF DriverWrite, queues, stores, stream
<1>3. ASSUME NEW p \in Points, InsertPoint(p)
      PROVE  Stay /\ pos' = pos /\ lost' = lost
  BY <1>1, <1>3 DEF InsertPoint, queues, stores, stream
<1>4. CASE StreamError \/ WatchFails \/ Disconnected \/ Activate \/ Standby
  <2>1. Stay
    BY <1>1, <1>4 DEF StreamError, WatchFails, Disconnected, Activate, Standby,
       queues, stores
  <2>2. pos' = pos /\ lost' = lost
    BY <1>4, Zenon DEF StreamError, WatchFails, Disconnected, Activate, Standby, stream
  <2> QED BY <2>1, <2>2 DEF Stay
<1>5. CASE FlushSoe \/ FlushSoeFails
  <2>1. UNCHANGED <<changeCh, inbox, rtCh, batch, wire, docs, applied>>
    BY <1>5, Zenon DEF FlushSoe, FlushSoeFails, stores
  <2>2. pos' = pos
    BY <1>5, Zenon DEF FlushSoe, FlushSoeFails, stream
  <2>3. lost' = lost \/ lost' # {}
    BY <1>5 DEF FlushSoe, FlushSoeFails
  <2> QED BY <1>1, <2>1, <2>2, <2>3 DEF Stay
<1>6. CASE Watch
  BY <1>1, <1>6 DEF Watch, queues, stores, Stay
<1>7. CASE UNCHANGED vars
  BY <1>1, <1>7 DEF vars, Stay
<1> QED BY <1>2, <1>3, <1>4, <1>5, <1>6, <1>7, Zenon DEF Next, Stay

\* Every step keeps what is known of the events, the updates and the documents.
LEMMA ContentStep ==
    ASSUME EveryUpdateCounts, Types, Types', OrderInv, OrderInv', ContentInv, [Next]_vars
    PROVE  ContentInv'
<1>0. Grows /\ \A i \in DOMAIN oplog' : Stamped(oplog'[i])
  BY StreamStep, StampedStep DEF Types
<1>1. (\A i \in DOMAIN oplog : Stamped(oplog[i]))'
  BY <1>0 DEF Stamped, matches
<1>2. ASSUME Pending' \subseteq Pending, Writes' \subseteq Writes, UNCHANGED <<docs, applied>>
      PROVE  ContentInv'
  BY <1>0, <1>1, <1>2, ContentKept DEF ContentInv
<1>3. CASE Fetch
  <2>0. PICK ev : ev = EventOf(pos + 1)
    OBVIOUS
  <2>1. /\ UNCHANGED <<oplog, docs, applied>> /\ Writes' = Writes
        /\ pos + 1 \in 1 .. Len(oplog)
        /\ \/ Pending' = Pending
           \/ /\ matches(oplog[pos + 1])
              /\ ev \in Event /\ ev.id = pos + 1
              /\ Pending' \subseteq Pending \cup {ev}
    BY <1>3, <2>0, FetchMoves
  <2>2. ASSUME matches(oplog[pos + 1]), ev.id = pos + 1 PROVE Carries(ev)'
    <3> DEFINE p == oplog[pos + 1].point
    <3>1. p \in Points
      BY <2>1, ChangeFields DEF Types
    <3>2. ev.point = p /\ ev.sdu = oplog[pos + 1].sdu /\ ev.fullDocument = docs[p]
      BY <2>0 DEF EventOf
    <3>3. docs[p].timeTagAtSource <= applied[p] /\ applied[p] <= pos
      BY <3>1, AppliedRange DEF ContentInv, Shows
    <3>4. docs[p].timeTagAtSource \in Nat /\ applied[p] \in Nat /\ pos \in Nat
      <4>1. docs[p] \in DocType
        BY <3>1 DEF Types, StoreTypeOK
      <4>2. applied[p] \in Nat
        BY <3>1, AppliedRange DEF Types, StreamType
      <4> QED BY <4>1, <4>2 DEF DocType, Types, StreamType
    <3>5. docs[p].timeTagAtSource < pos + 1
      BY <3>3, <3>4
    <3> HIDE DEF p
    <3>6. Carries(ev)
      BY <2>2, <3>2, <3>5 DEF Carries, p
    <3> QED BY <2>1, <3>6 DEF Carries, matches
  <2>3. \A e \in Pending' : Carries(e)'
    BY <1>0, <2>1, <2>2, ContentKept
  <2>4. /\ \A u \in Writes' : Holds(u)'
        /\ \A p \in Points : Shows(p)'
    BY <1>0, <2>1, ContentKept
  <2> QED BY <1>1, <2>3, <2>4 DEF ContentInv
<1>4. CASE Dispatch
  BY <1>2, <1>4, DispatchMoves
<1>5. CASE TakeUpdate \/ FlushRtBatch \/ FlushRtFails
  BY <1>2, <1>5, WriterMoves
<1>6. ASSUME NEW k \in Workers, HandleChange(k) PROVE ContentInv'
  <2>1. PICK e \in Pending :
             /\ Pending' \subseteq Pending
             /\ Writes' \subseteq Writes \cup ItemsOf(e)
             /\ e.sdu.timeTagAtSource = e.id
             /\ UNCHANGED <<oplog, docs, applied>>
    BY <1>6, WorkerMoves
  <2>2. e \in Event /\ Carries(e)
    BY PendingRange DEF ContentInv
  <2>3. ASSUME NEW u \in ItemsOf(e) PROVE Holds(u)'
    <3>1. /\ u.id = e.id
          /\ u.point # "system" =>
               /\ u.point = e.point
               /\ u.set.value = valueOf(Config[e.point], e.sdu)
               /\ u.set.timeTagAtSource = e.sdu.timeTagAtSource
      BY DEF ItemsOf
    <3>2. Holds(u)
      BY <2>1, <2>2, <3>1 DEF Holds, Carries
    <3> QED BY <2>1, <3>2 DEF Holds
  <2>4. /\ \A ev \in Pending' : Carries(ev)'
        /\ \A u \in Writes' : Holds(u)'
        /\ \A p \in Points : Shows(p)'
    BY <1>0, <2>1, <2>3, ContentKept
  <2> QED BY <1>1, <2>4 DEF ContentInv
<1>7. CASE Apply
  <2>1. PICK u \in Writes :
             /\ u \in Item /\ Pending' = Pending /\ Writes' \subseteq Writes
             /\ UNCHANGED <<oplog, pos, lost>>
             /\ \/ u.point = "system" /\ UNCHANGED <<docs, applied>>
                \/ /\ u.point \in Points /\ u.point # "system"
                   /\ docs' = [docs EXCEPT ![u.point] = applyUpdate(@, u.set)]
                   /\ applied' = [applied EXCEPT ![u.point] = u.id]
    BY <1>7, ApplyMoves
  <2>2. CASE UNCHANGED <<docs, applied>>
    BY <1>2, <2>1, <2>2
  <2>3. CASE u.point \in Points /\ u.point # "system"
    <3> DEFINE q == u.point
    <3>0. /\ docs \in [Points -> DocType] /\ applied \in [Points -> 0 .. MaxUpdates]
          /\ u.set \in StoreType /\ docs[q] \in DocType
      BY <2>1, <2>3, ItemFields DEF Types, StoreTypeOK
    <3>1. docs'[q] = applyUpdate(docs[q], u.set) /\ applied'[q] = u.id
      BY <2>1, <2>3, <3>0
    <3>2. docs'[q].value = u.set.value /\ docs'[q].timeTagAtSource = u.set.timeTagAtSource
      BY <3>0, <3>1, StoreApplied
    <3>3. /\ oplog[u.id].point = q
          /\ u.set.value = valueOf(Config[q], oplog[u.id].sdu)
          /\ u.set.timeTagAtSource = u.id
      BY <2>3 DEF ContentInv, Holds
    <3>4. u.id <= u.id
      BY WritesRange
    <3>5. Shows(q)'
      BY <2>1, <3>1, <3>2, <3>3, <3>4 DEF Shows
    <3>6. ASSUME NEW p \in Points, p # q PROVE docs'[p] = docs[p] /\ applied'[p] = applied[p]
      BY <2>1, <2>3, <3>0, <3>6
    <3> HIDE DEF q
    <3>7. \A p \in Points : Shows(p)'
      BY <1>0, <3>5, <3>6, ContentKept
    <3>8. /\ \A ev \in Pending' : Carries(ev)'
          /\ \A v \in Writes' : Holds(v)'
      BY <1>0, <2>1, ContentKept
    <3> QED BY <1>1, <3>7, <3>8 DEF ContentInv
  <2> QED BY <2>1, <2>2, <2>3
<1> QED BY <1>2, <1>3, <1>4, <1>5, <1>6, <1>7, OtherMoves

\* A change that is tracked stays so if nothing on its way disappears.
LEMMA TrackedKept ==
    ASSUME Types, OrderInv, Grows, NEW i \in 1 .. Len(oplog), Tracked(i),
           Pending \subseteq Pending', Writes \subseteq Writes',
           UNCHANGED applied
    PROVE  Tracked(i)'
<1>1. oplog'[i] = oplog[i]
  BY DEF Grows
<1> QED BY <1>1 DEF Tracked, IsFor

\* Every step keeps track of the changes, or records a loss.
LEMMA TrackStep ==
    ASSUME EveryUpdateCounts, Types, Types', OrderInv, ContentInv, TrackInv, [Next]_vars
    PROVE  TrackInv'
<1> SUFFICES ASSUME lost' = {}, NEW i \in 1 .. pos', matches(oplog'[i])
             PROVE  Tracked(i)'
  BY DEF TrackInv, matches
<1>0. Grows
  BY StreamStep DEF Types
<1>a. pos \in Nat /\ pos <= Len(oplog) /\ Len(oplog) \in Nat /\ i \in Nat
  BY DEF Types, StreamType
<1>1. ASSUME i <= pos, lost' = lost PROVE i \in 1 .. Len(oplog) /\ matches(oplog[i]) /\ Tracked(i)
  <2>1. i \in 1 .. pos /\ i \in 1 .. Len(oplog)
    BY <1>1, <1>a
  <2>2. matches(oplog[i])
    BY <1>0, <2>1 DEF Grows
  <2> QED BY <1>1, <2>1, <2>2 DEF TrackInv
<1>2. ASSUME pos' = pos, lost' = lost, UNCHANGED applied,
             Pending \subseteq Pending', Writes \subseteq Writes'
      PROVE  Tracked(i)'
  <2>1. i <= pos
    BY <1>2, <1>a
  <2> QED BY <1>0, <1>1, <1>2, <2>1, TrackedKept
<1>3. CASE Fetch
  <2>0. PICK ev : ev = EventOf(pos + 1)
    OBVIOUS
  <2>1. /\ UNCHANGED <<oplog, docs, applied>> /\ Writes' = Writes /\ pos' = pos + 1
        /\ \/ ~matches(oplog[pos + 1]) /\ Pending' = Pending /\ lost' = lost
           \/ /\ ev.id = pos + 1
              /\ lost' = lost /\ Pending' = Pending \cup {ev}
    BY <1>3, <2>0, FetchMoves
  <2>2. CASE i = pos + 1
    <3>1. ev.id = i /\ ev \in Pending'
      BY <2>1, <2>2
    <3> QED BY <3>1 DEF Tracked
  <2>3. CASE i # pos + 1
    <3>1. i <= pos
      BY <1>a, <2>1, <2>3
    <3> QED BY <1>0, <1>1, <2>1, <3>1, TrackedKept
  <2> QED BY <2>2, <2>3
<1>4. CASE Dispatch
  BY <1>2, <1>4, DispatchMoves
<1>5. CASE TakeUpdate \/ FlushRtBatch \/ FlushRtFails
  BY <1>2, <1>5, WriterMoves
<1>6. ASSUME NEW k \in Workers, HandleChange(k) PROVE Tracked(i)'
  <2>1. PICK e \in Pending :
             /\ Pending \subseteq Pending' \cup {e}
             /\ UNCHANGED <<oplog, pos, docs, applied>>
             /\ lost' = lost /\ Writes \subseteq Writes'
             /\ \E u \in Writes' : IsFor(u, e.id)
    BY <1>6, WorkerMoves
  <2>2. Tracked(i) /\ i \in 1 .. Len(oplog)
    BY <1>1, <1>a, <2>1
  <2>3. CASE \E ev \in Pending : ev.id = i
    <3>1. PICK ev \in Pending : ev.id = i
      BY <2>3
    <3>2. CASE ev = e
      BY <2>1, <3>1, <3>2 DEF Tracked, IsFor
    <3>3. CASE ev # e
      BY <2>1, <3>1, <3>3 DEF Tracked
    <3> QED BY <3>2, <3>3
  <2>4. CASE \E u \in Writes : IsFor(u, i)
    BY <2>1, <2>4 DEF Tracked, IsFor
  <2>5. CASE applied[oplog[i].point] >= i
    BY <2>1, <2>5 DEF Tracked
  <2> QED BY <2>2, <2>3, <2>4, <2>5 DEF Tracked
<1>7. CASE Apply
  <2>1. PICK u \in Writes :
             /\ u \in Item /\ Pending' = Pending /\ Writes \subseteq Writes' \cup {u}
             /\ UNCHANGED <<oplog, pos, lost>>
             /\ \/ u.point = "system" /\ UNCHANGED <<docs, applied>>
                \/ /\ u.point \in Points /\ u.point # "system"
                   /\ applied' = [applied EXCEPT ![u.point] = u.id]
    BY <1>7, ApplyMoves
  <2>2. Tracked(i) /\ i \in 1 .. Len(oplog)
    BY <1>1, <1>a, <2>1
  <2>3. oplog[i].point \in Points
    BY <2>2, ChangeFields DEF Types
  <2>4. CASE \E ev \in Pending : ev.id = i
    BY <2>1, <2>4 DEF Tracked
  <2>5. CASE \E v \in Writes : v # u /\ IsFor(v, i)
    BY <2>1, <2>5 DEF Tracked, IsFor
  <2>6. applied \in [Points -> 0 .. MaxUpdates]
    BY DEF Types, StoreTypeOK
  <2>7. CASE IsFor(u, i)
    <3>1. u.id = i /\ oplog[i].point = u.point /\ u.point # "system"
      BY <2>7 DEF IsFor, ContentInv, Holds
    <3>2. applied'[u.point] = u.id
      BY <2>1, <2>3, <2>6, <3>1
    <3>3. applied'[oplog'[i].point] >= i
      BY <1>a, <2>1, <3>1, <3>2
    <3> QED BY <3>3 DEF Tracked
  <2>8. CASE applied[oplog[i].point] >= i
    <3> DEFINE p == oplog[i].point
    <3>1. u.id \in Nat /\ (u.point \in Points => applied[u.point] <= u.id)
      BY <1>a, WritesRange
    <3>2. applied[p] \in Nat
      BY <2>3, <2>6, PipelineAssumption
    <3>3. applied'[p] = applied[p] \/ (u.point = p /\ applied'[p] = u.id)
      BY <2>1, <2>3, <2>6
    <3>4. applied'[p] >= i
      BY <1>a, <2>3, <2>8, <3>1, <3>2, <3>3
    <3> QED BY <2>1, <3>4 DEF Tracked
  <2> QED BY <2>2, <2>4, <2>5, <2>7, <2>8 DEF Tracked
<1>8. ASSUME Pending' = Pending, Writes' = Writes, UNCHANGED <<docs, applied>>,
             Watch \/ (pos' = pos /\ (lost' = lost \/ lost' # {}))
      PROVE  Tracked(i)'
  <2>1. CASE Watch
    <3>1. /\ UNCHANGED oplog
          /\ lost' = IF pos' > pos
                       /\ \E j \in pos + 1 .. pos' : matches(oplog[j])
                    THEN lost \cup {IF tokenHeld THEN "skip" ELSE "start"} ELSE lost
      BY <2>1 DEF Watch
    <3>2. lost' = lost /\ ~(pos' > pos /\ \E j \in pos + 1 .. pos' : matches(oplog[j]))
      BY <3>1
    <3>3. i <= pos
      <4> SUFFICES ASSUME ~(i <= pos) PROVE FALSE
        OBVIOUS
      <4>1. pos' \in Nat
        BY DEF Types, StreamType
      <4>2. i \in pos + 1 .. pos' /\ pos' > pos
        BY <1>a, <4>1
      <4> QED BY <3>1, <3>2, <4>2
    <3> QED BY <1>0, <1>1, <1>8, <3>2, <3>3, TrackedKept
  <2> QED BY <1>2, <1>8, <2>1
<1> QED BY <1>3, <1>4, <1>5, <1>6, <1>7, <1>8, OtherMoves

\* Initially nothing is on its way and the documents are as configured.
LEMMA ContentInit == Init => ContentInv /\ TrackInv
<1> SUFFICES ASSUME Init PROVE ContentInv /\ TrackInv
  OBVIOUS
<1>1. elems(<<>>) = {}
  BY SingleSorted
<1>2. Pending = {} /\ Writes = {}
  BY <1>1 DEF Init, Pending, Writes
<1>3. \A p \in Points : Shows(p)
  BY DEF Init, Shows, NewDoc
<1>4. DOMAIN oplog = {} /\ pos = 0
  BY DEF Init
<1> QED BY <1>2, <1>3, <1>4 DEF ContentInv, TrackInv

\* When nothing is on its way and nothing was lost, the last update of a point
\* has reached its document.
LEMMA TrackedIsFresh ==
    ASSUME Types, OrderInv, ContentInv, TrackInv, Quiet, lost = {}, NEW p \in Points
    PROVE  Fresh(p)
<1> SUFFICES ASSUME NEW i \in lastUpdates(p)
             PROVE  docs[p].value = valueOf(Config[p], oplog[i].sdu)
  BY DEF Fresh
<1>1. /\ i \in 1 .. Len(oplog) /\ matches(oplog[i]) /\ oplog[i].point = p
      /\ \A j \in i + 1 .. Len(oplog) : oplog[j].point # p
  BY DEF lastUpdates, matches, Types, StreamType
<1>2. pos = Len(oplog) /\ Len(oplog) \in Nat
  BY DEF Quiet, Types, StreamType
<1>3. Pending = {} /\ Writes = {}
  <2>1. elems(<<>>) = {}
    BY SingleSorted
  <2> QED BY <2>1 DEF Quiet, Pending, Writes
<1>4. applied[p] >= i
  BY <1>1, <1>2, <1>3 DEF TrackInv, Tracked
<1>5. applied[p] \in 0 .. Len(oplog) /\ i \in Nat \ {0}
  BY <1>1, <1>2, AppliedRange
<1>6. applied[p] # 0
  BY <1>4, <1>5
<1>7. Shows(p)
  BY DEF ContentInv
<1>8. oplog[applied[p]].point = p /\ docs[p].value = valueOf(Config[p], oplog[applied[p]].sdu)
  BY <1>6, <1>7 DEF Shows
<1>9. applied[p] = i
  <2> SUFFICES ASSUME applied[p] # i PROVE FALSE
    OBVIOUS
  <2>1. applied[p] \in i + 1 .. Len(oplog)
    BY <1>2, <1>4, <1>5
  <2> QED BY <1>1, <1>8, <2>1
<1> QED BY <1>8, <1>9

\* Every update is computed from a copy of the document that earlier updates may
\* not have reached (UpdateLookup, and the writes nobody acknowledges), and yet
\* the document ends with the last source value, unless the losses of the full
\* queues, the failed writes, the stream that is opened anew or the standby
\* role took it.
THEOREM QuietIsFresh ==
    ASSUME EveryUpdateCounts
    PROVE  Spec => []FreshWhenQuiet
<1> DEFINE Inv == Types /\ QueueBounds /\ OrderInv /\ ContentInv /\ TrackInv
<1>1. Init => Inv
  BY TypesInit, OrderInit, ContentInit
<1>2. Inv /\ [Next]_vars => Inv'
  BY TypesStep, OrderStep, ContentStep, TrackStep
<1>3. Inv => FreshWhenQuiet
  BY TrackedIsFresh DEF FreshWhenQuiet
<1> QED BY <1>1, <1>2, <1>3, PTL DEF Spec

-----------------------------------------------------------------------------
(* The sequence of events.                                                 *)

\* How often i is in the queue s, and how often it is or will be recorded.
count(s, i) == Cardinality({k \in DOMAIN s : s[k] = i})
recorded(i) == soeData[i] + count(soeCh, i)

\* It is a number, and none for an empty queue.
LEMMA CountType ==
    ASSUME NEW s \in Seq(Nat), NEW i
    PROVE  count(s, i) \in Nat /\ count(<<>>, i) = 0
<1>1. Len(s) \in Nat /\ DOMAIN s = 1 .. Len(s)
  OBVIOUS
<1>2. IsFiniteSet(1 .. Len(s))
  BY <1>1, FS_Interval
<1>3. {k \in DOMAIN s : s[k] = i} \in SUBSET (1 .. Len(s))
  BY <1>1
<1>4. count(s, i) \in Nat
  BY <1>2, <1>3, FS_Subset, FS_CardinalityType DEF count
<1>5. {k \in DOMAIN <<>> : <<>>[k] = i} = {}
  OBVIOUS
<1> QED BY <1>4, <1>5, FS_EmptySet DEF count

\* What emit adds for one change: nothing to the others, at most its entries
\* to it, and all of them if they fit.
LEMMA CountEmitted ==
    ASSUME NEW s \in Seq(Nat), Len(s) <= WriteQueueSize,
           NEW e \in Nat, NEW t \in Seq({e})
    PROVE  /\ \A j : j # e => count(emit(s, t), j) = count(s, j)
           /\ count(s, e) = 0 =>
                /\ count(emit(s, t), e) <= Len(t)
                /\ fits(s, t) => count(emit(s, t), e) = Len(t)
<1> DEFINE all == s \o t
           n == IF Len(all) < WriteQueueSize THEN Len(all) ELSE WriteQueueSize
           r == emit(s, t)
<1>1. t \in Seq(Nat) /\ \A k \in 1 .. Len(t) : t[k] = e
  OBVIOUS
<1>2. /\ all \in Seq(Nat) /\ Len(all) = Len(s) + Len(t)
      /\ Len(s) \in Nat /\ Len(t) \in Nat /\ DOMAIN s = 1 .. Len(s)
      /\ \A k \in 1 .. Len(s) : all[k] = s[k]
      /\ \A k \in 1 .. Len(t) : all[Len(s) + k] = t[k]
  BY <1>1
<1>3. \A k \in Len(s) + 1 .. Len(all) : all[k] = e
  <2> TAKE k \in Len(s) + 1 .. Len(all)
  <2>1. k - Len(s) \in 1 .. Len(t) /\ k = Len(s) + (k - Len(s))
    BY <1>2
  <2> QED BY <1>1, <1>2, <2>1
<1>4. WriteQueueSize \in Nat
  BY PipelineAssumption
<1>5. r = SubSeq(all, 1, n) /\ (fits(s, t) <=> Len(all) <= WriteQueueSize)
  BY DEF emit, fits
<1> HIDE DEF all
<1>6. n \in Len(s) .. Len(all) /\ (Len(all) <= WriteQueueSize => n = Len(all))
  <2>1. ASSUME NEW l \in Nat, NEW u \in Nat, NEW w \in Nat, l <= u, l <= w,
               NEW m, m = IF u < w THEN u ELSE w
        PROVE  m \in l .. u /\ (u <= w => m = u)
    BY <2>1
  <2>2. Len(all) \in Nat /\ Len(s) <= Len(all)
    BY <1>2
  <2> QED BY <1>2, <1>4, <2>1, <2>2
<1> HIDE DEF n, r
<1>7. DOMAIN r = 1 .. n /\ \A k \in 1 .. n : r[k] = all[k]
  <2>1. n \in 0 .. Len(all)
    BY <1>2, <1>6
  <2> QED BY <1>2, <1>5, <2>1
<1>8. /\ \A k \in 1 .. Len(s) : k \in 1 .. n /\ r[k] = s[k]
      /\ \A k \in Len(s) + 1 .. n : k \in 1 .. n /\ r[k] = e
      /\ 1 .. n = (1 .. Len(s)) \cup (Len(s) + 1 .. n)
  <2>1. n \in Nat /\ Len(s) <= n /\ n <= Len(all) /\ Len(s) \in Nat /\ Len(all) \in Nat
    BY <1>2, <1>6
  <2>2. /\ \A k \in 1 .. Len(s) : k \in 1 .. n
        /\ \A k \in Len(s) + 1 .. n : k \in 1 .. n /\ k \in Len(s) + 1 .. Len(all)
        /\ 1 .. n = (1 .. Len(s)) \cup (Len(s) + 1 .. n)
    BY <2>1
  <2> QED BY <1>2, <1>3, <1>7, <2>2
<1>9. ASSUME NEW j, j # e PROVE count(r, j) = count(s, j)
  <2>1. {k \in DOMAIN r : r[k] = j} = {k \in DOMAIN s : s[k] = j}
    BY <1>2, <1>7, <1>8, <1>9
  <2> QED BY <2>1 DEF count
<1>10. ASSUME count(s, e) = 0
       PROVE  count(r, e) = n - Len(s)
  <2>1. {k \in DOMAIN s : s[k] = e} = {}
    <3>1. IsFiniteSet(1 .. Len(s)) /\ {k \in DOMAIN s : s[k] = e} \in SUBSET (1 .. Len(s))
      BY <1>2, FS_Interval
    <3>2. IsFiniteSet({k \in DOMAIN s : s[k] = e})
      BY <3>1, FS_Subset
    <3> QED BY <1>10, <3>2, FS_EmptySet DEF count
  <2>2. {k \in DOMAIN r : r[k] = e} = Len(s) + 1 .. n
    BY <1>2, <1>7, <1>8, <2>1
  <2>3. Cardinality(Len(s) + 1 .. n) = n - Len(s)
    <3>1. Len(s) + 1 \in Int /\ n \in Int /\ Len(s) <= n
      BY <1>2, <1>6
    <3>2. Cardinality(Len(s) + 1 .. n) =
            IF Len(s) + 1 > n THEN 0 ELSE n - (Len(s) + 1) + 1
      BY <3>1, FS_Interval
    <3> QED BY <1>2, <3>1, <3>2
  <2> QED BY <2>2, <2>3 DEF count
<1>11. n - Len(s) <= Len(t) /\ (fits(s, t) => n - Len(s) = Len(t))
  BY <1>2, <1>5, <1>6
<1> QED BY <1>9, <1>10, <1>11 DEF r

\* Parts of the entries of an update by their number.
LEMMA PartLength ==
    ASSUME NEW x, NEW q, NEW c, c \in BOOLEAN, q = IF c THEN <<x>> ELSE <<>>
    PROVE  q \in Seq({x}) /\ Len(q) = Bit(c)
<1>1. Len(<<x>>) = 1 /\ Len(<<>>) = 0 /\ <<x>> \in Seq({x}) /\ <<>> \in Seq({x})
  OBVIOUS
<1>2. CASE c
  BY <1>1, <1>2 DEF Bit
<1>3. CASE ~c
  BY <1>1, <1>3 DEF Bit
<1> QED BY <1>2, <1>3

\* The entries of an event are all for its change, at most as many as such a
\* change has, and its event is among them.
LEMMA EntriesOf ==
    ASSUME NEW ev \in Event, ~ev.fullDocument.alarmDisabled,
           NEW e, e.op = "update", e.point = ev.point, e.sdu = ev.sdu
    PROVE  /\ soeEntries(ev) \in Seq({ev.id})
           /\ Len(soeEntries(ev)) <= mostEntries(e)
           /\ Len(soeEntries(ev)) >= Bit(leavesEvent(e))
<1> DEFINE pt == Config[ev.point]
           fd == ev.fullDocument
           sdu == ev.sdu
           v == valueOf(pt, sdu)
           x == [kind |-> "range", value |-> v, ack |-> Bit(~alarmedOf(pt, fd, v))]
           y == [kind |-> "event", value |-> v, ack |-> 1]
           z == [kind |-> "event", value |-> v, ack |-> 0]
           ca == rangeChanged(pt, fd, v)
           cb == /\ pt.type = "analog" /\ ~fd.alarmDisabled
                 /\ \/ pt.isEvent /\ ~invalidOf(pt, sdu) /\ Differs(v, fd.value)
                    \/ isSOE(pt, sdu)
           cc == /\ pt.type = "digital" /\ isSOE(pt, sdu) /\ ~fd.alarmDisabled
                 /\ ~sdu.isNotForHistorical /\ ~(v = 0 /\ pt.isEvent)
           a == rangeEntry(pt, fd, v)
           b == analogEntry(pt, fd, sdu, v)
           c == digitalEntry(pt, fd, sdu, v)
           T == {x, y, z}
<1>1. a \in Seq({x}) /\ Len(a) = Bit(ca)
  <2>1. a = IF ca THEN <<x>> ELSE <<>>
    BY Zenon DEF rangeEntry
  <2>2. ca \in BOOLEAN
    BY DEF rangeChanged
  <2> HIDE DEF a, ca, x
  <2> QED BY <2>1, <2>2, PartLength
<1>2. b \in Seq({y}) /\ Len(b) = Bit(cb)
  <2>1. b = IF cb THEN <<y>> ELSE <<>>
    BY Zenon DEF analogEntry
  <2>2. cb \in BOOLEAN
    OBVIOUS
  <2> HIDE DEF b, cb, y
  <2> QED BY <2>1, <2>2, PartLength
<1>3. c \in Seq({z}) /\ Len(c) = Bit(cc)
  <2>1. c = IF cc THEN <<z>> ELSE <<>>
    BY Zenon DEF digitalEntry
  <2>2. cc \in BOOLEAN
    OBVIOUS
  <2> HIDE DEF c, cc, z
  <2> QED BY <2>1, <2>2, PartLength
<1>4. soeOf(pt, fd, sdu) = (a \o b) \o c
  BY DEF soeOf
<1>5. /\ pt.type \in {"digital", "analog"} /\ pt.isEvent \in BOOLEAN
      /\ pt.type = "digital" => ~ca
  <2>1. pt \in PointType
    BY EventFields
  <2>2. pt.type = "digital" => ~ca
    BY DEF rangeChanged, limitsChecked
  <2> QED BY <2>1, <2>2 DEF PointType
<1>6. isSOE(pt, sdu) /\ pt.type = "analog" => pt.isEvent
  BY DEF isSOE
<1>7. /\ pt.type = "digital" => /\ mostEntries(e) = Bit(cc)
                                /\ leavesEvent(e) <=> cc
      /\ pt.type = "analog" => /\ mostEntries(e) = 1 + Bit(pt.isEvent)
                               /\ leavesEvent(e) <=> isSOE(pt, sdu)
  <2>1. leavesEvent(e) <=> /\ isSOE(pt, sdu)
                           /\ pt.type = "digital" =>
                                ~sdu.isNotForHistorical /\ ~(pt.isEvent /\ v = 0)
    BY Zenon DEF leavesEvent
  <2>2. mostEntries(e) = IF pt.type = "analog" THEN 1 + Bit(pt.isEvent)
                         ELSE Bit(leavesEvent(e))
    BY DEF mostEntries
  <2>3. pt.type = "digital" => (leavesEvent(e) <=> cc)
    BY <2>1
  <2>4. pt.type = "digital" => mostEntries(e) = Bit(leavesEvent(e))
    BY <2>2
  <2>5. pt.type = "analog" => /\ mostEntries(e) = 1 + Bit(pt.isEvent)
                              /\ leavesEvent(e) <=> isSOE(pt, sdu)
    BY <2>1, <2>2
  <2> HIDE DEF cc
  <2>6. pt.type = "digital" => Bit(leavesEvent(e)) = Bit(cc)
    BY <2>3 DEF Bit
  <2> QED BY <2>3, <2>4, <2>5, <2>6
<1>8. /\ pt.type = "digital" => ~cb
      /\ pt.type = "analog" => /\ ~cc
                               /\ cb => pt.isEvent
                               /\ isSOE(pt, sdu) => cb
  BY <1>6
<1> HIDE DEF a, b, c, x, y, z, ca, cb, cc, fd, sdu
<1>9. /\ a \in Seq(T) /\ b \in Seq(T) /\ c \in Seq(T)
  BY <1>1, <1>2, <1>3
<1> HIDE DEF T
<1>10. /\ (a \o b) \o c \in Seq(T)
       /\ Len((a \o b) \o c) = Len(a) + Len(b) + Len(c)
  BY <1>9
<1>11. PICK n \in Nat : /\ DOMAIN soeOf(pt, fd, sdu) = 1 .. n
                        /\ n = Bit(ca) + Bit(cb) + Bit(cc)
  BY <1>1, <1>2, <1>3, <1>4, <1>10
<1>12. /\ soeEntries(ev) \in Seq({ev.id}) /\ Len(soeEntries(ev)) = n
  <2>1. soeEntries(ev) \in [1 .. n -> {ev.id}]
    BY <1>11 DEF soeEntries, fd, sdu
  <2> QED BY <2>1
<1>13. n <= mostEntries(e) /\ n >= Bit(leavesEvent(e))
  BY <1>5, <1>7, <1>8, <1>11 DEF Bit
<1> QED BY <1>12, <1>13

-----------------------------------------------------------------------------
(* Events on their way.                                                    *)

\* No event twice, and each worker gets them in the order of the oplog.
Increasing(q) == \A i, j \in DOMAIN q : i < j => q[i].id < q[j].id

\* An event carries the change of its id, and a document with alarms enabled:
\* nothing in the pipeline disables them.
Knows(ev) ==
    /\ matches(oplog[ev.id])
    /\ oplog[ev.id].point = ev.point /\ oplog[ev.id].sdu = ev.sdu
    /\ ~ev.fullDocument.alarmDisabled

FlightInv ==
    /\ Increasing(changeCh)
    /\ \A w \in Workers :
         /\ Increasing(inbox[w])
         /\ \A a \in elems(inbox[w]), b \in elems(changeCh) : a.id < b.id
    /\ \A ev \in Pending : Knows(ev)
    /\ \A p \in Points : ~docs[p].alarmDisabled

InFlight(i) == \E ev \in Pending : ev.id = i

\* A change that is not fetched or still on its way has no entry; one that has
\* been handled has not more than it may have, and its event if nothing was
\* lost.
SoeInv ==
    /\ soeData \in [Ids -> Nat]
    /\ \A i \in Ids : i > HighWater \/ InFlight(i) => recorded(i) = 0
    /\ \A i \in 1 .. Len(oplog) : recorded(i) <= mostEntries(oplog[i])
    /\ lost = {} => \A i \in 1 .. pos : matches(oplog[i]) =>
                      InFlight(i) \/ recorded(i) >= Bit(leavesEvent(oplog[i]))

\* Taking the first and appending a later one keep the order.
LEMMA IncreasingMoves ==
    ASSUME NEW q \in Seq(Event), Increasing(q)
    PROVE  /\ q # <<>> => /\ Increasing(Tail(q))
                          /\ \A b \in elems(Tail(q)) : Head(q).id < b.id
           /\ \A e \in Event : (\A a \in elems(q) : a.id < e.id) => Increasing(Append(q, e))
<1>1. ASSUME q # <<>>
      PROVE  /\ Increasing(Tail(q))
             /\ \A b \in elems(Tail(q)) : Head(q).id < b.id
  <2>1. /\ Head(q) = q[1] /\ Len(q) \in Nat \ {0} /\ DOMAIN q = 1 .. Len(q)
        /\ DOMAIN Tail(q) = 1 .. Len(q) - 1
        /\ \A i \in 1 .. Len(q) - 1 : Tail(q)[i] = q[i + 1]
    BY <1>1
  <2>2. ASSUME NEW i \in 1 .. Len(q) - 1, NEW j \in 1 .. Len(q) - 1, i < j
        PROVE  q[i + 1].id < q[j + 1].id
    BY <2>1, <2>2 DEF Increasing
  <2>3. ASSUME NEW i \in 1 .. Len(q) - 1 PROVE q[1].id < q[i + 1].id
    BY <2>1, <2>3 DEF Increasing
  <2> QED BY <2>1, <2>2, <2>3 DEF Increasing, elems
<1>2. ASSUME NEW e \in Event, \A a \in elems(q) : a.id < e.id
      PROVE  Increasing(Append(q, e))
  <2>1. /\ Len(q) \in Nat /\ DOMAIN q = 1 .. Len(q)
        /\ DOMAIN Append(q, e) = 1 .. Len(q) + 1
        /\ \A i \in 1 .. Len(q) : Append(q, e)[i] = q[i] /\ q[i] \in elems(q)
        /\ Append(q, e)[Len(q) + 1] = e
    BY DEF elems
  <2>2. ASSUME NEW i \in 1 .. Len(q) + 1, NEW j \in 1 .. Len(q) + 1, i < j
        PROVE  Append(q, e)[i].id < Append(q, e)[j].id
    <3>1. CASE j = Len(q) + 1
      BY <1>2, <2>1, <2>2, <3>1
    <3>2. CASE j # Len(q) + 1
      BY <2>1, <2>2, <3>2 DEF Increasing
    <3> QED BY <3>1, <3>2
  <2> QED BY <2>1, <2>2 DEF Increasing
<1> QED BY <1>1, <1>2

\* What a worker does: it takes its first event, and emits its entries unless
\* something is lost.
LEMMA WorkerTakes ==
    ASSUME Types, NEW k \in Workers, HandleChange(k),
           NEW e, e = Head(inbox[k])
    PROVE  /\ e \in Event /\ e \in Pending
           /\ inbox[k] \in Seq(Event) /\ inbox[k] # <<>>
           /\ inbox' = [inbox EXCEPT ![k] = Tail(@)]
           /\ UNCHANGED <<changeCh, oplog, pos, docs, resumeToken, soeData>>
           /\ Pending' \subseteq Pending /\ Pending \subseteq Pending' \cup {e}
           /\ \/ soeCh' = soeCh /\ lost' # {}
              \/ /\ soeCh' = emit(soeCh, soeEntries(e))
                 /\ lost' # {} \/ (lost' = lost /\ fits(soeCh, soeEntries(e)))
<1>0. /\ inbox \in [Workers -> Seq(Event)] /\ inbox[k] \in Seq(Event)
      /\ inbox[k] # <<>>
  BY DEF Types, QueueType, HandleChange
<1>1. /\ inbox' = [inbox EXCEPT ![k] = Tail(@)]
      /\ UNCHANGED <<changeCh, oplog, pos, docs, resumeToken, soeData>>
  BY DEF HandleChange, stream
<1>2. e \in Event /\ elems(inbox[k]) = {e} \cup elems(inbox'[k])
  BY <1>0, <1>1, TailElems
<1>3. \/ soeCh' = soeCh /\ lost' # {}
      \/ /\ soeCh' = emit(soeCh, soeEntries(e))
         /\ lost' # {} \/ (lost' = lost /\ fits(soeCh, soeEntries(e)))
  <2>1. e.op = "update"
    BY <1>2, EventFields
  <2>2. CASE role # "active"
    BY <2>1, <2>2 DEF HandleChange
  <2>3. CASE role = "active"
    BY <2>1, <2>3 DEF HandleChange
  <2> QED BY <2>2, <2>3
<1>4. Pending' \subseteq Pending /\ Pending \subseteq Pending' \cup {e}
  <2>1. \A w \in Workers : w # k => elems(inbox'[w]) = elems(inbox[w])
    BY <1>0, <1>1
  <2>2. Pending' = elems(changeCh) \cup UNION {elems(inbox'[w]) : w \in Workers}
    BY <1>1 DEF Pending, elems
  <2> QED BY <1>2, <2>1, <2>2 DEF Pending
<1>5. e \in Pending
  BY <1>2 DEF Pending
<1> QED BY <1>0, <1>1, <1>2, <1>3, <1>4, <1>5

\* The event a worker took is nowhere else: the others of its queue are later,
\* and another worker has the events of other points.
LEMMA TakenIsGone ==
    ASSUME Types, OrderInv, FlightInv, NEW k \in Workers, HandleChange(k),
           NEW e, e = Head(inbox[k])
    PROVE  ~InFlight(e.id)'
<1> SUFFICES ASSUME NEW ev \in Pending', ev.id = e.id PROVE FALSE
  BY DEF InFlight
<1>1. /\ e \in Event /\ e \in Pending /\ ev \in Pending /\ e.id \in Nat
      /\ inbox[k] \in Seq(Event) /\ inbox[k] # <<>>
      /\ inbox \in [Workers -> Seq(Event)]
      /\ inbox' = [inbox EXCEPT ![k] = Tail(@)] /\ changeCh' = changeCh
  BY WorkerTakes, EventFields, PipelineAssumption DEF Ids, Types, QueueType
<1>2. e \in elems(inbox[k])
  BY <1>1, TailElems
<1>3. CASE ev \in elems(changeCh)
  BY <1>1, <1>2, <1>3 DEF FlightInv
<1>4. CASE ev \in elems(Tail(inbox[k]))
  BY <1>1, <1>4, IncreasingMoves DEF FlightInv
<1>5. ASSUME NEW w \in Workers, w # k, ev \in elems(inbox[w]) PROVE FALSE
  <2>1. ev.point = e.point
    BY <1>1 DEF FlightInv, Knows
  <2> QED BY <1>2, <1>5, <2>1 DEF OrderInv
<1>6. \/ ev \in elems(changeCh) \/ ev \in elems(Tail(inbox[k]))
      \/ \E w \in Workers : w # k /\ ev \in elems(inbox[w])
  <2>1. Pending' = elems(changeCh) \cup UNION {elems(inbox'[w]) : w \in Workers}
    BY <1>1 DEF Pending, elems
  <2>2. inbox'[k] = Tail(inbox[k]) /\ \A w \in Workers : w # k => inbox'[w] = inbox[w]
    BY <1>1
  <2> QED BY <2>1, <2>2
<1> QED BY <1>3, <1>4, <1>5, <1>6

\* Only four actions touch the events on their way or the documents.
LEMMA OthersStay ==
    ASSUME [Next]_vars
    PROVE  \/ Fetch \/ Dispatch \/ Apply \/ (\E k \in Workers : HandleChange(k))
           \/ UNCHANGED <<changeCh, inbox, docs>>
<1>1. ASSUME NEW p \in Points, NEW s \in Updates, DriverWrite(p, s)
      PROVE  UNCHANGED <<changeCh, inbox, docs>>
  BY <1>1 DEF DriverWrite, queues, stores
<1>2. ASSUME NEW p \in Points, InsertPoint(p)
      PROVE  UNCHANGED <<changeCh, inbox, docs>>
  BY <1>2 DEF InsertPoint, queues, stores
<1>3. CASE \/ StreamError \/ WatchFails \/ Watch \/ TakeUpdate \/ FlushRtBatch
           \/ FlushRtFails \/ FlushSoe \/ FlushSoeFails \/ Disconnected
           \/ Activate \/ Standby
  BY <1>3, Zenon DEF StreamError, WatchFails, Watch, TakeUpdate, FlushRtBatch,
     FlushRtFails, FlushSoe, FlushSoeFails, Disconnected, Activate, Standby,
     queues, stores
<1>4. CASE UNCHANGED vars
  BY <1>4 DEF vars
<1> QED BY <1>1, <1>2, <1>3, <1>4, Zenon DEF Next

\* Events that stay on their way know their change still.
LEMMA KnowsKept ==
    ASSUME Types, OrderInv, Grows, NEW ev \in Pending, Knows(ev)
    PROVE  Knows(ev)'
<1>1. oplog'[ev.id] = oplog[ev.id]
  BY PendingRange DEF Grows
<1> QED BY <1>1 DEF Knows, matches

\* Every step keeps the order of the events on their way.
LEMMA FlightStep ==
    ASSUME Types, OrderInv, FlightInv, [Next]_vars
    PROVE  FlightInv'
<1>0. /\ changeCh \in Seq(Event) /\ inbox \in [Workers -> Seq(Event)]
      /\ docs \in [Points -> DocType] /\ Grows
  BY StreamStep DEF Types, QueueType, StoreTypeOK
<1>1. \A ev \in Pending : Knows(ev)'
  BY <1>0, KnowsKept DEF FlightInv
<1>2. CASE UNCHANGED <<changeCh, inbox, docs>>
  <2>1. Pending' = Pending
    BY <1>2 DEF Pending, elems
  <2> QED BY <1>1, <1>2, <2>1 DEF FlightInv, Increasing, elems
<1>3. CASE Fetch
  <2>0. PICK ev : ev = EventOf(pos + 1)
    OBVIOUS
  <2>1. /\ UNCHANGED <<oplog, inbox, docs>> /\ pos + 1 \in 1 .. Len(oplog)
        /\ \/ ~matches(oplog[pos + 1]) /\ UNCHANGED changeCh
           \/ /\ matches(oplog[pos + 1]) /\ ev \in Event /\ ev.id = pos + 1
              /\ \/ changeCh' = Append(changeCh, ev)
                 \/ changeCh # <<>> /\ changeCh' = Append(Tail(changeCh), ev)
    BY <1>3, <2>0, FetchedEvent
  <2>2. CASE UNCHANGED changeCh
    BY <1>2, <2>1, <2>2
  <2>3. CASE /\ matches(oplog[pos + 1]) /\ ev \in Event /\ ev.id = pos + 1
             /\ \/ changeCh' = Append(changeCh, ev)
                \/ changeCh # <<>> /\ changeCh' = Append(Tail(changeCh), ev)
    <3>1. \A e \in Pending : e.id < ev.id
      <4> TAKE e \in Pending
      <4>1. e.id <= pos /\ e.id \in 1 .. Len(oplog) /\ pos \in Nat /\ Len(oplog) \in Nat
        BY PendingRange DEF Types, StreamType
      <4> QED BY <2>3, <4>1
    <3>2. PICK q \in Seq(Event) : /\ changeCh' = Append(q, ev) /\ Increasing(q)
                                  /\ elems(q) \subseteq elems(changeCh)
      <4>1. CASE changeCh' = Append(changeCh, ev)
        BY <1>0, <4>1 DEF FlightInv
      <4>2. CASE changeCh # <<>> /\ changeCh' = Append(Tail(changeCh), ev)
        <5>1. /\ Increasing(Tail(changeCh)) /\ Tail(changeCh) \in Seq(Event)
              /\ elems(Tail(changeCh)) \subseteq elems(changeCh)
          BY <1>0, <4>2, IncreasingMoves, TailElems DEF FlightInv
        <5> QED BY <4>2, <5>1
      <4> QED BY <2>3, <4>1, <4>2
    <3>3. elems(changeCh') = elems(q) \cup {ev}
      BY <3>2, AppendElems
    <3>4. Increasing(changeCh')
      BY <2>3, <3>1, <3>2, IncreasingMoves DEF Pending
    <3>5. \A w \in Workers :
            /\ Increasing(inbox'[w])
            /\ \A a \in elems(inbox'[w]), b \in elems(changeCh') : a.id < b.id
      BY <2>1, <3>1, <3>2, <3>3 DEF FlightInv, Pending
    <3>6. Knows(ev)
      <4>1. oplog[pos + 1].point \in Points
        BY <2>1, ChangeFields DEF Types
      <4> QED BY <2>0, <2>3, <4>1 DEF Knows, EventOf, FlightInv
    <3>7. Knows(ev)'
      BY <2>1, <3>6 DEF Knows, matches
    <3>8. Pending' = elems(changeCh') \cup UNION {elems(inbox[w]) : w \in Workers}
      BY <2>1 DEF Pending, elems
    <3>9. \A e \in Pending' : Knows(e)'
      BY <1>1, <3>2, <3>3, <3>7, <3>8 DEF Pending
    <3> QED BY <2>1, <3>4, <3>5, <3>9 DEF FlightInv, Increasing, elems
  <2> QED BY <2>1, <2>2, <2>3
<1>4. CASE Dispatch
  <2>0. PICK e : e = Head(changeCh)
    OBVIOUS
  <2> DEFINE k == Shard[e.point]
  <2>1. /\ changeCh # <<>> /\ changeCh' = Tail(changeCh) /\ UNCHANGED docs
        /\ inbox' = [inbox EXCEPT ![k] = Append(@, e)]
    BY <1>4, <2>0 DEF Dispatch, stores
  <2>2. e \in Event /\ k \in Workers /\ e \in elems(changeCh)
    BY <1>0, <2>0, <2>1, TailElems, EventFields, PipelineAssumption
  <2> HIDE DEF k
  <2>3. /\ Increasing(changeCh') /\ elems(changeCh') \subseteq elems(changeCh)
        /\ \A b \in elems(changeCh') : e.id < b.id
    BY <1>0, <2>0, <2>1, IncreasingMoves, TailElems DEF FlightInv
  <2>4. /\ inbox'[k] = Append(inbox[k], e) /\ inbox[k] \in Seq(Event)
        /\ \A w \in Workers : w # k => inbox'[w] = inbox[w]
    BY <1>0, <2>1, <2>2
  <2>5. Increasing(inbox'[k]) /\ elems(inbox'[k]) = elems(inbox[k]) \cup {e}
    BY <2>2, <2>4, AppendElems, IncreasingMoves DEF FlightInv
  <2>6. ASSUME NEW w \in Workers
        PROVE  /\ Increasing(inbox'[w])
               /\ \A a \in elems(inbox'[w]), b \in elems(changeCh') : a.id < b.id
    <3>1. CASE w = k
      BY <2>2, <2>3, <2>5, <3>1 DEF FlightInv
    <3>2. CASE w # k
      BY <2>3, <2>4, <3>2 DEF FlightInv
    <3> QED BY <3>1, <3>2
  <2>7. \A ev \in Pending' : Knows(ev)'
    BY <1>1, <1>4, DispatchMoves
  <2> QED BY <2>1, <2>3, <2>6, <2>7 DEF FlightInv, Increasing, elems
<1>5. ASSUME NEW k \in Workers, HandleChange(k) PROVE FlightInv'
  <2>1. /\ inbox[k] \in Seq(Event) /\ inbox[k] # <<>>
        /\ inbox' = [inbox EXCEPT ![k] = Tail(@)]
        /\ UNCHANGED <<changeCh, docs>> /\ Pending' \subseteq Pending
    BY <1>5, WorkerTakes
  <2>2. /\ inbox'[k] = Tail(inbox[k])
        /\ \A w \in Workers : w # k => inbox'[w] = inbox[w]
    BY <1>0, <2>1
  <2>3. Increasing(inbox'[k]) /\ elems(inbox'[k]) \subseteq elems(inbox[k])
    BY <2>1, <2>2, IncreasingMoves, TailElems DEF FlightInv
  <2>4. ASSUME NEW w \in Workers
        PROVE  /\ Increasing(inbox'[w])
               /\ \A a \in elems(inbox'[w]), b \in elems(changeCh) : a.id < b.id
    <3>1. CASE w = k
      BY <2>3, <3>1 DEF FlightInv
    <3>2. CASE w # k
      BY <2>2, <3>2 DEF FlightInv
    <3> QED BY <3>1, <3>2
  <2>5. \A ev \in Pending' : Knows(ev)'
    BY <1>1, <2>1
  <2> QED BY <2>1, <2>4, <2>5 DEF FlightInv, Increasing, elems
<1>6. CASE Apply
  <2>1. UNCHANGED <<changeCh, inbox>>
    BY <1>6 DEF Apply
  <2>2. PICK u \in Writes :
             /\ u \in Item /\ Pending' = Pending
             /\ \/ UNCHANGED docs
                \/ /\ u.point \in Points /\ u.point # "system"
                   /\ docs' = [docs EXCEPT ![u.point] = applyUpdate(@, u.set)]
    BY <1>6, ApplyMoves
  <2>3. ASSUME NEW p \in Points PROVE docs'[p].alarmDisabled = docs[p].alarmDisabled
    <3>1. CASE /\ u.point \in Points /\ u.point # "system"
               /\ docs' = [docs EXCEPT ![u.point] = applyUpdate(@, u.set)]
      <4>1. u.set \in StoreType /\ docs[p] \in DocType
        BY <1>0, <2>2, <3>1, ItemFields
      <4>2. CASE p = u.point
        <5>1. docs'[p] = applyUpdate(docs[p], u.set)
          BY <1>0, <3>1, <4>2
        <5> QED BY <4>1, <5>1, StoreApplied
      <4>3. CASE p # u.point
        BY <1>0, <3>1, <4>3
      <4> QED BY <4>2, <4>3
    <3> QED BY <2>2, <3>1
  <2> QED BY <1>1, <2>1, <2>2, <2>3 DEF FlightInv, Increasing, elems
<1> QED BY <1>2, <1>3, <1>4, <1>5, <1>6, OthersStay

\* Initially no event is on its way.
LEMMA FlightInit == Init => FlightInv
<1> SUFFICES ASSUME Init PROVE FlightInv
  OBVIOUS
<1>1. elems(<<>>) = {} /\ Increasing(<<>>)
  <2>1. DOMAIN <<>> = {}
    OBVIOUS
  <2> QED BY <2>1, SingleSorted DEF Increasing
<1>2. Pending = {}
  BY <1>1 DEF Init, Pending
<1> QED BY <1>1, <1>2 DEF Init, FlightInv, NewDoc

-----------------------------------------------------------------------------
(* The entries.                                                            *)

\* What is recorded and what a change may leave are numbers.
LEMMA RecordTypes ==
    ASSUME Types, SoeInv
    PROVE  /\ \A i \in Ids : recorded(i) \in Nat
           /\ \A e : mostEntries(e) \in Nat /\ Bit(leavesEvent(e)) \in Nat
           /\ HighWater \in Nat /\ HighWater <= pos /\ pos \in Nat
           /\ pos <= Len(oplog) /\ Len(oplog) \in Nat
           /\ 1 .. Len(oplog) \subseteq Ids /\ \A i \in Ids : i \in Nat \ {0}
<1>1. ASSUME NEW i \in Ids PROVE recorded(i) \in Nat
  <2>1. count(soeCh, i) \in Nat
    BY CountType DEF Types, QueueType
  <2>2. soeData[i] \in Nat
    BY DEF SoeInv
  <2> QED BY <2>1, <2>2 DEF recorded
<1>2. \A b : Bit(b) \in Nat
  BY DEF Bit
<1>3. \A e : mostEntries(e) \in Nat /\ Bit(leavesEvent(e)) \in Nat
  BY <1>2 DEF mostEntries
<1>4. /\ HighWater \in Nat /\ HighWater <= pos /\ pos \in Nat
      /\ pos <= Len(oplog) /\ Len(oplog) \in Nat
  BY HighWaterType DEF Types, StreamType
<1>5. 1 .. Len(oplog) \subseteq Ids /\ \A i \in Ids : i \in Nat \ {0}
  BY ChangeFields, PipelineAssumption DEF Types, Ids
<1> QED BY <1>1, <1>3, <1>4, <1>5

\* A step that records nothing keeps the invariant if what enters the pipeline
\* is new and what leaves it is lost.
LEMMA SoeKept ==
    ASSUME Types, Types', SoeInv, Grows, HighWater <= HighWater',
           UNCHANGED soeData, \A i \in Ids : recorded(i)' = recorded(i),
           \A i \in Ids : InFlight(i)' => InFlight(i) \/ i > HighWater,
           lost' = {} => \A i \in 1 .. pos' :
               \/ ~matches(oplog'[i]) \/ InFlight(i)'
               \/ i <= pos /\ lost = {} /\ (InFlight(i) => InFlight(i)')
    PROVE  SoeInv'
<1>0. /\ \A i \in Ids : recorded(i) \in Nat
      /\ \A e : mostEntries(e) \in Nat /\ Bit(leavesEvent(e)) \in Nat
      /\ HighWater \in Nat /\ HighWater <= pos /\ pos \in Nat
      /\ pos <= Len(oplog) /\ Len(oplog) \in Nat
      /\ \A i \in Ids : i \in Nat \ {0}
  BY RecordTypes
<1>1. /\ HighWater' \in Nat /\ pos' \in Nat /\ pos' <= Len(oplog') /\ Len(oplog') \in Nat
      /\ 1 .. Len(oplog') \subseteq Ids
  <2>1. HighWater' \in Nat /\ HighWater' <= pos'
    BY DEF HighWater, Types, StreamType
  <2>2. pos' \in Nat /\ pos' <= Len(oplog') /\ Len(oplog') \in Nat
    BY DEF Types, StreamType
  <2>3. ASSUME NEW i \in 1 .. Len(oplog') PROVE i \in Ids
    <3>1. oplog'[i] \in Changes /\ oplog'[i].id = i
      BY DEF Types, StreamType
    <3> QED BY <3>1 DEF Changes, Ids
  <2> QED BY <2>1, <2>2, <2>3
<1>2. soeData' \in [Ids -> Nat]
  BY DEF SoeInv
<1>3. ASSUME NEW i \in Ids, i > HighWater' \/ InFlight(i)' PROVE recorded(i)' = 0
  <2>1. i > HighWater \/ InFlight(i)
    BY <1>0, <1>1, <1>3
  <2> QED BY <2>1 DEF SoeInv
<1>4. ASSUME NEW i \in 1 .. Len(oplog') PROVE recorded(i)' <= mostEntries(oplog'[i])
  <2>1. i \in Ids
    BY <1>1
  <2>2. CASE i <= Len(oplog)
    <3>1. i \in 1 .. Len(oplog) /\ oplog'[i] = oplog[i]
      BY <1>0, <2>1, <2>2 DEF Grows
    <3> QED BY <2>1, <3>1 DEF SoeInv
  <2>3. CASE ~(i <= Len(oplog))
    <3>1. i > HighWater
      BY <1>0, <2>1, <2>3
    <3>2. recorded(i)' = 0
      BY <2>1, <3>1 DEF SoeInv
    <3> QED BY <1>0, <3>2
  <2> QED BY <2>2, <2>3
<1>5. ASSUME lost' = {}, NEW i \in 1 .. pos', matches(oplog'[i]), ~InFlight(i)'
      PROVE  recorded(i)' >= Bit(leavesEvent(oplog'[i]))
  <2>1. i <= pos /\ lost = {} /\ ~InFlight(i)
    BY <1>5
  <2>2. i \in 1 .. pos /\ i \in 1 .. Len(oplog) /\ i \in Ids
    BY <1>0, <1>1, <2>1
  <2>3. oplog'[i] = oplog[i]
    BY <2>2 DEF Grows
  <2>4. recorded(i) >= Bit(leavesEvent(oplog[i]))
    BY <1>5, <2>1, <2>2, <2>3 DEF SoeInv, matches
  <2> QED BY <2>2, <2>3, <2>4
<1> QED BY <1>2, <1>3, <1>4, <1>5 DEF SoeInv, matches

\* A worker's step: the change it handles had no entry, and gets its own.
LEMMA SoeWorker ==
    ASSUME Types, Types', QueueBounds, OrderInv, FlightInv, SoeInv,
           Grows, HighWater <= HighWater', NEW k \in Workers, HandleChange(k)
    PROVE  SoeInv'
<1>0. PICK e : e = Head(inbox[k])
  OBVIOUS
<1>1. /\ e \in Event /\ e \in Pending
      /\ UNCHANGED <<changeCh, oplog, pos, docs, resumeToken, soeData>>
      /\ Pending' \subseteq Pending /\ Pending \subseteq Pending' \cup {e}
      /\ \/ soeCh' = soeCh /\ lost' # {}
         \/ /\ soeCh' = emit(soeCh, soeEntries(e))
            /\ lost' # {} \/ (lost' = lost /\ fits(soeCh, soeEntries(e)))
  BY <1>0, WorkerTakes
<1>2. /\ \A i \in Ids : recorded(i) \in Nat
      /\ \A c : mostEntries(c) \in Nat /\ Bit(leavesEvent(c)) \in Nat
      /\ HighWater \in Nat /\ HighWater <= pos /\ pos \in Nat
      /\ pos <= Len(oplog) /\ Len(oplog) \in Nat
      /\ 1 .. Len(oplog) \subseteq Ids /\ \A i \in Ids : i \in Nat \ {0}
  BY RecordTypes
<1>3. e.id \in Ids /\ e.id \in 1 .. Len(oplog) /\ e.id \in Nat /\ e.id <= HighWater
  <2>1. e.id \in 1 .. Len(oplog)
    BY <1>1, PendingRange
  <2>2. PICK w \in Workers : e \in elems(In(w))
    <3>1. e \in elems(inbox[k])
      BY <1>0, WorkerTakes, TailElems
    <3> QED BY <3>1, InIs DEF Types
  <2>3. e.id <= HighWater
    BY <2>2 DEF OrderInv, InRange
  <2> QED BY <1>2, <2>1, <2>3
<1>4. ~InFlight(e.id)' /\ InFlight(e.id)
  BY <1>0, <1>1, TakenIsGone DEF InFlight
<1>5. ASSUME NEW i \in Ids, InFlight(i)' PROVE InFlight(i) /\ i # e.id
  BY <1>1, <1>4, <1>5 DEF InFlight
<1>6. ASSUME NEW i, i # e.id PROVE InFlight(i) => InFlight(i)'
  BY <1>1, <1>6 DEF InFlight
<1>7. CASE soeCh' = soeCh /\ lost' # {}
  <2>1. \A i \in Ids : recorded(i)' = recorded(i)
    BY <1>1, <1>7 DEF recorded
  <2> QED BY <1>1, <1>5, <1>7, <2>1, SoeKept
<1>8. CASE /\ soeCh' = emit(soeCh, soeEntries(e))
           /\ lost' # {} \/ (lost' = lost /\ fits(soeCh, soeEntries(e)))
  <2> DEFINE t == soeEntries(e)
             n == Len(t)
  <2>1. /\ t \in Seq({e.id})
        /\ n <= mostEntries(oplog[e.id]) /\ n >= Bit(leavesEvent(oplog[e.id]))
        /\ n \in Nat
    <3>1. Knows(e)
      BY <1>1 DEF FlightInv
    <3>2. t \in Seq({e.id}) /\ n <= mostEntries(oplog[e.id])
          /\ n >= Bit(leavesEvent(oplog[e.id]))
      BY <1>1, <3>1, EntriesOf DEF Knows, matches
    <3> QED BY <3>2
  <2>2. soeCh \in Seq(Nat) /\ Len(soeCh) <= WriteQueueSize
    BY DEF Types, QueueType, QueueBounds
  <2> HIDE DEF t, n
  <2>3. /\ \A j : j # e.id => count(soeCh', j) = count(soeCh, j)
        /\ count(soeCh, e.id) = 0 =>
             /\ count(soeCh', e.id) <= n
             /\ fits(soeCh, t) => count(soeCh', e.id) = n
    BY <1>3, <1>8, <2>1, <2>2, CountEmitted DEF t, n
  <2>4. recorded(e.id) = 0 /\ soeData[e.id] \in Nat /\ count(soeCh, e.id) \in Nat
    BY <1>3, <1>4, <2>2, CountType DEF SoeInv
  <2>5. soeData[e.id] = 0 /\ count(soeCh, e.id) = 0
    BY <2>4 DEF recorded
  <2>6. count(soeCh', e.id) \in Nat
    BY CountType DEF Types, QueueType
  <2>7. /\ recorded(e.id)' <= n
        /\ fits(soeCh, t) => recorded(e.id)' = n
        /\ recorded(e.id)' \in Nat
    BY <1>1, <2>1, <2>3, <2>5, <2>6 DEF recorded
  <2>8. \A i \in Ids : i # e.id => recorded(i)' = recorded(i)
    BY <1>1, <2>3 DEF recorded
  <2>9. HighWater' = HighWater
    BY <1>1 DEF HighWater
  <2>10. ASSUME NEW i \in Ids, i > HighWater' \/ InFlight(i)' PROVE recorded(i)' = 0
    <3>1. i # e.id /\ (i > HighWater \/ InFlight(i))
      BY <1>2, <1>3, <1>5, <2>9, <2>10
    <3> QED BY <2>8, <3>1 DEF SoeInv
  <2>11. ASSUME NEW i \in 1 .. Len(oplog') PROVE recorded(i)' <= mostEntries(oplog'[i])
    <3>1. i \in 1 .. Len(oplog) /\ i \in Ids /\ oplog'[i] = oplog[i]
      BY <1>1, <1>2
    <3>2. CASE i = e.id
      BY <1>2, <2>1, <2>7, <3>1, <3>2
    <3>3. CASE i # e.id
      BY <2>8, <3>1, <3>3 DEF SoeInv
    <3> QED BY <3>2, <3>3
  <2>12. ASSUME lost' = {}, NEW i \in 1 .. pos', matches(oplog'[i]), ~InFlight(i)'
         PROVE  recorded(i)' >= Bit(leavesEvent(oplog'[i]))
    <3>1. /\ i \in 1 .. pos /\ i \in Ids /\ oplog'[i] = oplog[i] /\ matches(oplog[i])
          /\ lost = {} /\ fits(soeCh, t)
      BY <1>1, <1>2, <1>8, <2>12 DEF t, matches
    <3>2. CASE i = e.id
      BY <2>1, <2>7, <3>1, <3>2
    <3>3. CASE i # e.id
      <4>1. ~InFlight(i)
        BY <1>6, <2>12, <3>3
      <4> QED BY <2>8, <3>1, <3>3, <4>1 DEF SoeInv
    <3> QED BY <3>2, <3>3
  <2>13. soeData' \in [Ids -> Nat]
    BY <1>1 DEF SoeInv
  <2> QED BY <2>10, <2>11, <2>12, <2>13 DEF SoeInv, matches
<1> QED BY <1>1, <1>7, <1>8

\* The writer: an entry that leaves the queue is stored once, or lost.
LEMMA SoeWriter ==
    ASSUME Types, Types', SoeInv, FlushSoe \/ FlushSoeFails
    PROVE  SoeInv'
<1>0. /\ UNCHANGED <<oplog, pos, resumeToken, changeCh, inbox>> /\ soeCh' = <<>>
      /\ lost' = lost \/ lost' # {}
  <2>1. UNCHANGED <<oplog, pos, resumeToken, changeCh, inbox>>
    BY Zenon DEF FlushSoe, FlushSoeFails, stream
  <2> QED BY <2>1 DEF FlushSoe, FlushSoeFails
<1>1. Pending' = Pending /\ HighWater' = HighWater
  BY <1>0 DEF Pending, elems, HighWater
<1>2. \A i \in Ids : InFlight(i)' <=> InFlight(i)
  BY <1>1 DEF InFlight
<1>3. /\ \A i \in Ids : recorded(i) \in Nat
      /\ \A e : mostEntries(e) \in Nat /\ Bit(leavesEvent(e)) \in Nat
      /\ pos \in Nat /\ pos <= Len(oplog) /\ Len(oplog) \in Nat
      /\ 1 .. Len(oplog) \subseteq Ids
  BY RecordTypes
<1>4. /\ soeData \in [Ids -> Nat] /\ \A i \in Ids : count(soeCh, i) \in Nat
      /\ \A i \in Ids : count(soeCh', i) = 0
  BY <1>0, CountType DEF SoeInv, Types, QueueType
<1>5. CASE FlushSoe
  <2>1. /\ soeData' = [i \in DOMAIN soeData |-> soeData[i] + count(soeCh, i)]
        /\ lost' = lost
    BY <1>5 DEF FlushSoe, count
  <2>2. soeData' \in [Ids -> Nat] /\ \A i \in Ids : soeData'[i] = recorded(i)
    BY <1>4, <2>1 DEF recorded
  <2>3. \A i \in Ids : recorded(i)' = recorded(i)
    BY <1>3, <1>4, <2>2 DEF recorded
  <2>4. \A i \in Ids : i > HighWater' \/ InFlight(i)' => recorded(i)' = 0
    BY <1>1, <1>2, <2>3 DEF SoeInv
  <2>5. \A i \in 1 .. Len(oplog') : recorded(i)' <= mostEntries(oplog'[i])
    BY <1>0, <1>3, <2>3 DEF SoeInv
  <2>6. ASSUME lost' = {}, NEW i \in 1 .. pos', matches(oplog'[i]), ~InFlight(i)'
        PROVE  recorded(i)' >= Bit(leavesEvent(oplog'[i]))
    <3>1. /\ i \in 1 .. pos /\ i \in Ids /\ oplog'[i] = oplog[i] /\ matches(oplog[i])
          /\ lost = {} /\ ~InFlight(i)
      BY <1>0, <1>2, <1>3, <2>1, <2>6 DEF matches
    <3> QED BY <2>3, <3>1 DEF SoeInv
  <2> QED BY <2>2, <2>4, <2>5, <2>6 DEF SoeInv, matches
<1>6. CASE FlushSoeFails
  <2>1. soeData' = soeData /\ lost' # {}
    BY <1>6 DEF FlushSoeFails, stores
  <2>2. \A i \in Ids : recorded(i)' \in Nat /\ recorded(i)' <= recorded(i)
    BY <1>4, <2>1 DEF recorded
  <2>3. ASSUME NEW i \in Ids, i > HighWater' \/ InFlight(i)' PROVE recorded(i)' = 0
    <3>1. recorded(i) = 0
      BY <1>1, <1>2, <2>3 DEF SoeInv
    <3> QED BY <2>2, <3>1
  <2>4. ASSUME NEW i \in 1 .. Len(oplog') PROVE recorded(i)' <= mostEntries(oplog'[i])
    <3>1. i \in Ids /\ recorded(i) <= mostEntries(oplog[i]) /\ oplog' = oplog
      BY <1>0, <1>3 DEF SoeInv
    <3> QED BY <1>3, <2>2, <3>1
  <2> QED BY <1>4, <2>1, <2>3, <2>4 DEF SoeInv
<1> QED BY <1>5, <1>6

\* Every step keeps the count of the entries.
LEMMA SoeStep ==
    ASSUME Types, Types', QueueBounds, OrderInv, FlightInv, SoeInv, [Next]_vars
    PROVE  SoeInv'
<1>0. Grows /\ HighWater <= HighWater'
  BY StreamStep DEF Types
<1>1. /\ HighWater \in Nat /\ HighWater <= pos /\ pos \in Nat
      /\ pos <= Len(oplog) /\ Len(oplog) \in Nat
      /\ \A i \in Ids : i \in Nat \ {0}
  BY RecordTypes
<1>2. ASSUME UNCHANGED <<soeCh, soeData>>
      PROVE  \A i \in Ids : recorded(i)' = recorded(i)
  BY <1>2 DEF recorded
<1>3. ASSUME UNCHANGED <<soeCh, soeData>>, pos' = pos, Pending' = Pending,
             lost' = lost \/ lost' # {}
      PROVE  SoeInv'
  <2>1. \A i : InFlight(i)' <=> InFlight(i)
    BY <1>3 DEF InFlight
  <2>2. \A i \in 1 .. pos' : i <= pos
    BY <1>1, <1>3
  <2> QED BY <1>0, <1>2, <1>3, <2>1, <2>2, SoeKept
<1>4. CASE Fetch
  <2>0. PICK ev : ev = EventOf(pos + 1)
    OBVIOUS
  <2>1. /\ pos' = pos + 1 /\ oplog' = oplog
        /\ \/ ~matches(oplog[pos + 1]) /\ Pending' = Pending /\ lost' = lost
           \/ /\ ev.id = pos + 1 /\ Pending' \subseteq Pending \cup {ev}
              /\ \/ lost' # {}
                 \/ lost' = lost /\ Pending' = Pending \cup {ev}
    BY <1>4, <2>0, FetchMoves
  <2>2. UNCHANGED <<soeCh, soeData>>
    BY <1>4 DEF Fetch, stores
  <2>3. \A i \in Ids : InFlight(i)' => InFlight(i) \/ i > HighWater
    BY <1>1, <2>1 DEF InFlight
  <2>4. ASSUME lost' = {}, NEW i \in 1 .. pos'
        PROVE  \/ ~matches(oplog'[i]) \/ InFlight(i)'
               \/ i <= pos /\ lost = {} /\ (InFlight(i) => InFlight(i)')
    <3>1. CASE i = pos + 1
      BY <2>1, <2>4, <3>1 DEF InFlight
    <3>2. CASE i # pos + 1
      <4>1. i <= pos
        BY <1>1, <2>1, <3>2
      <4> QED BY <2>1, <2>4, <4>1 DEF InFlight
    <3> QED BY <3>1, <3>2
  <2> QED BY <1>0, <1>2, <2>2, <2>3, <2>4, SoeKept
<1>5. CASE Dispatch
  <2>1. UNCHANGED <<soeCh, soeData>>
    BY <1>5 DEF Dispatch, stores
  <2> QED BY <1>3, <1>5, <2>1, DispatchMoves
<1>6. CASE TakeUpdate \/ FlushRtBatch \/ FlushRtFails
  <2>1. UNCHANGED <<soeCh, soeData>>
    BY <1>6, Zenon DEF TakeUpdate, FlushRtBatch, FlushRtFails, stores
  <2> QED BY <1>3, <1>6, <2>1, WriterMoves
<1>7. CASE Apply
  <2>1. UNCHANGED <<soeCh, soeData>>
    BY <1>7 DEF Apply
  <2> QED BY <1>3, <1>7, <2>1, ApplyMoves
<1>8. ASSUME NEW k \in Workers, HandleChange(k) PROVE SoeInv'
  BY <1>0, <1>8, SoeWorker
<1>9. CASE FlushSoe \/ FlushSoeFails
  BY <1>9, SoeWriter
<1>10. CASE Watch
  <2>1. UNCHANGED <<soeCh, soeData, changeCh, inbox, oplog>>
    BY <1>10 DEF Watch, queues, stores
  <2>2. Pending' = Pending
    BY <2>1 DEF Pending, elems
  <2>3. \A i : InFlight(i)' <=> InFlight(i)
    BY <2>2 DEF InFlight
  <2>4. lost' = IF pos' > pos
                  /\ \E j \in pos + 1 .. pos' : matches(oplog[j])
                THEN lost \cup {IF tokenHeld THEN "skip" ELSE "start"} ELSE lost
    BY <1>10 DEF Watch
  <2>5. ASSUME lost' = {}, NEW i \in 1 .. pos', matches(oplog'[i])
        PROVE  i <= pos /\ lost = {}
    <3>1. lost' = lost /\ ~(pos' > pos /\ \E j \in pos + 1 .. pos' : matches(oplog[j]))
      BY <2>4, <2>5
    <3>2. i <= pos
      <4> SUFFICES ASSUME ~(i <= pos) PROVE FALSE
        OBVIOUS
      <4>1. pos' \in Nat
        BY DEF Types, StreamType
      <4>2. i \in pos + 1 .. pos' /\ pos' > pos
        BY <1>1, <4>1
      <4> QED BY <2>1, <2>5, <3>1, <4>2
    <3> QED BY <2>5, <3>1, <3>2
  <2> QED BY <1>0, <1>2, <2>1, <2>3, <2>5, SoeKept
<1>11. \/ Fetch \/ Dispatch \/ TakeUpdate \/ FlushRtBatch \/ FlushRtFails \/ Apply
       \/ (\E k \in Workers : HandleChange(k)) \/ FlushSoe \/ FlushSoeFails \/ Watch
       \/ /\ Pending' = Pending /\ pos' = pos /\ (lost' = lost \/ lost' # {})
          /\ UNCHANGED <<soeCh, soeData>>
  <2>1. ASSUME NEW p \in Points, NEW s \in Updates, DriverWrite(p, s)
        PROVE  UNCHANGED <<soeCh, soeData>>
    BY <2>1 DEF DriverWrite, queues, stores
  <2>2. ASSUME NEW p \in Points, InsertPoint(p) PROVE UNCHANGED <<soeCh, soeData>>
    BY <2>2 DEF InsertPoint, queues, stores
  <2>3. ASSUME StreamError \/ WatchFails \/ Disconnected \/ Activate \/ Standby
        PROVE  UNCHANGED <<soeCh, soeData>>
    BY <2>3, Zenon DEF StreamError, WatchFails, Disconnected, Activate, Standby,
       queues, stores
  <2>4. ASSUME UNCHANGED vars PROVE UNCHANGED <<soeCh, soeData>>
    BY <2>4 DEF vars
  <2>5. \/ Fetch \/ Dispatch \/ TakeUpdate \/ FlushRtBatch \/ FlushRtFails \/ Apply
        \/ (\E k \in Workers : HandleChange(k)) \/ FlushSoe \/ FlushSoeFails \/ Watch
        \/ UNCHANGED <<soeCh, soeData>>
    BY <2>1, <2>2, <2>3, <2>4, Zenon DEF Next
  <2> QED BY <2>5, OtherMoves
<1> QED BY <1>3, <1>4, <1>5, <1>6, <1>7, <1>8, <1>9, <1>10, <1>11

\* Initially nothing is recorded.
LEMMA SoeInit == Init => SoeInv
<1> SUFFICES ASSUME Init PROVE SoeInv
  OBVIOUS
<1>1. soeData = [i \in Ids |-> 0] /\ soeCh = <<>>
  BY DEF Init, Ids
<1>2. \A i \in Ids : soeData[i] = 0 /\ count(soeCh, i) = 0
  <2>1. <<>> \in Seq(Nat)
    OBVIOUS
  <2> QED BY <1>1, <2>1, CountType
<1>3. \A i \in Ids : recorded(i) = 0
  BY <1>2 DEF recorded
<1>4. Len(oplog) = 0 /\ pos = 0
  BY DEF Init
<1> QED BY <1>1, <1>3, <1>4 DEF SoeInv

\* An update leaves its entries in the sequence of events once, whatever the
\* points, workers and queues, and although a stream is resumed from its token
\* and read again from there; and a pipeline at rest that lost nothing has
\* recorded every event (digitalEntry and analogEntry of process.go,
\* the token of main.go).
THEOREM EventsOnce == Spec => []SoeExactlyOnce
<1> DEFINE Inv == Types /\ QueueBounds /\ OrderInv /\ FlightInv /\ SoeInv
<1>1. Init => Inv
  BY TypesInit, OrderInit, FlightInit, SoeInit
<1>2. Inv /\ [Next]_vars => Inv'
  BY TypesStep, OrderStep, FlightStep, SoeStep
<1>3. Inv => SoeExactlyOnce
  <2> SUFFICES ASSUME Inv, NEW i \in DOMAIN oplog
               PROVE  /\ recorded(i) <= mostEntries(oplog[i])
                      /\ Quiet /\ lost = {} => soeData[i] >= Bit(leavesEvent(oplog[i]))
    BY DEF SoeExactlyOnce, recorded, count
  <2>1. i \in 1 .. Len(oplog) /\ i \in Ids
    BY RecordTypes DEF Types, StreamType
  <2>2. recorded(i) <= mostEntries(oplog[i])
    BY <2>1 DEF SoeInv
  <2>3. ASSUME Quiet, lost = {} PROVE soeData[i] >= Bit(leavesEvent(oplog[i]))
    <3>1. CASE ~matches(oplog[i])
      <4>1. Bit(leavesEvent(oplog[i])) = 0
        BY <3>1 DEF leavesEvent, matches, Bit
      <4>2. soeData[i] \in Nat
        BY <2>1 DEF SoeInv
      <4> QED BY <4>1, <4>2
    <3>2. CASE matches(oplog[i])
      <4>1. elems(<<>>) = {}
        BY SingleSorted
      <4>2. Pending = {} /\ soeCh = <<>> /\ i \in 1 .. pos
        BY <2>1, <2>3, <4>1 DEF Quiet, Pending
      <4>3. recorded(i) >= Bit(leavesEvent(oplog[i]))
        BY <2>3, <3>2, <4>2 DEF SoeInv, InFlight
      <4>4. count(soeCh, i) = 0 /\ soeData[i] \in Nat
        BY <2>1, <4>2, CountType DEF Types, QueueType, SoeInv
      <4> QED BY <4>3, <4>4 DEF recorded
    <3> QED BY <3>1, <3>2
  <2> QED BY <2>2, <2>3
<1> QED BY <1>1, <1>2, <1>3, PTL DEF Spec
=============================================================================
