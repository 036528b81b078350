---------------------------- MODULE Calculations ----------------------------
(***************************************************************************)
(* The calculations process (calculations.go): in every cycle the active   *)
(* node reads the documents of all parcels and calculated points, works    *)
(* out the formula of every calculated point, and writes an update for the *)
(* points whose document differs.  The data processor, external here,      *)
(* applies the updates to the documents later.                             *)
(*                                                                         *)
(* Values are hundredths, so that the factors of the formulas are exact,   *)
(* or NaN, a value different from every value and from itself.  The timer  *)
(* (formula 8) is left out: its value is the time of the cycle.            *)
(***************************************************************************)
EXTENDS Integers, Sequences, FiniteSets

CONSTANTS
    Nodes,        \* redundant instances of the process
    Points,       \* keys (_id) of the documents read in a cycle
    Configs,      \* loaded at start: calculated point -> [formula, parcels]
    Readings,     \* what a measured point may show: [value, invalid]
    NaN,
    MaxFloat,     \* math.MaxFloat64
    MaxPending,   \* bound: updates of a point the data processor is behind
    MaxChanges,   \* bound: changes of measured points
    MaxMoves      \* bound: changes of the active node

ASSUME PendingAssumption == MaxPending \in Nat \ {0}
ASSUME PointsAssumption ==
    Points \subseteq Nat /\ IsFiniteSet(Points) /\ Points # {}

Number == Int \cup {NaN}

Document == [value : Number, invalid : BOOLEAN]

ASSUME FloatAssumption == MaxFloat \in Int /\ NaN \notin Int
ASSUME ReadingAssumption == Readings \subseteq Document
ASSUME ConfigAssumption ==
    \A cf \in Configs : /\ DOMAIN cf \subseteq Points
                        /\ \A c \in DOMAIN cf : cf[c].parcels \in Seq(Points)

VARIABLES
    conf,         \* calcs
    db,           \* documents: point -> [value, invalid]
    vals,         \* per node: documents read in this cycle
    pending,      \* per point: updates written, not yet applied
    active,       \* isActive, set by processRedundancy
    late,         \* history: cycles a node wrote since it became standby (capped)
    changes, moves

vars == <<conf, db, vals, pending, active, late, changes, moves>>

Calculated == DOMAIN conf

-----------------------------------------------------------------------------
(* The formulas.  v and q are the values and invalid flags of the parcels. *)

\* The sum of the first p parcels less the m others.
Signs(p, m) == [i \in 1 .. p + m |-> IF i <= p THEN 100 ELSE -100]

\* Formulas of the form P1 + ... + Pp - Pp+1 - ... - Pp+m: <<formula, p, m>>.
PlusMinus ==
    {<<15, 1, 1>>, <<16, 1, 2>>, <<17, 1, 3>>, <<18, 1, 5>>, <<19, 2, 1>>,
     <<20, 3, 3>>, <<21, 4, 5>>, <<22, 6, 3>>, <<23, 10, 1>>, <<24, 3, 6>>}

PlusMinus200 ==
    {<<200, 1, 7>>, <<201, 8, 3>>, <<205, 2, 3>>, <<206, 1, 8>>,
     <<207, 2, 4>>, <<208, 1, 4>>, <<209, 2, 7>>, <<210, 1, 6>>,
     <<211, 5, 4>>, <<213, 3, 1>>, <<214, 4, 1>>, <<215, 2, 2>>,
     <<217, 5, 1>>}

PlusMinus220 ==
    {<<222, 3, 4>>, <<223, 3, 5>>, <<224, 6, 1>>, <<226, 2, 6>>,
     <<227, 3, 2>>, <<228, 3, 9>>, <<229, 9, 3>>, <<230, 9, 1>>,
     <<232, 5, 3>>, <<233, 7, 4>>}

PlusMinus500 ==
    {<<680, 3, 2>>, <<5022, 2, 0>>, <<5711, 0, 4>>, <<7374, 1, 11>>,
     <<8055, 2, 6>>, <<25673, 1, 1>>}

\* Formulas 11 and 13 with their weights; 13 subtracts P23 and P24 and adds them
\* again.
LongSums ==
    {<<11, Signs(23, 0) \o <<72>> >>,
     <<13, Signs(8, 1) \o Signs(3, 0) \o <<52>> \o Signs(2, 2) \o Signs(5, 0)
             \o <<0, 0>> \o Signs(9, 0) \o <<20>> >>}

\* The other weighted sums.
Weighted ==
    {<<202, <<6000, 100>> >>, <<204, <<50>> >>,
     <<5000, Signs(3, 1) \o <<-60, 100>> >>, <<5041, Signs(2, 1) \o Signs(1, 1)>>,
     <<5043, Signs(4, 2) \o Signs(1, 2)>>, <<5172, <<-72>> >>,
     <<5173, <<38>> >>, <<5174, <<14>> >>,
     <<5406, Signs(0, 1) \o Signs(5, 2) \o Signs(3, 0)>>}

SignedSums ==
    {<<t[1], Signs(t[2], t[3])>> :
        t \in PlusMinus \cup PlusMinus200 \cup PlusMinus220 \cup PlusMinus500}

Rows == LongSums \cup Weighted \cup SignedSums

\* The weights of each formula, in hundredths.
Sums == [f \in {w[1] : w \in Rows} |-> (CHOOSE w \in Rows : w[1] = f)[2]]

Sum(v) ==
    LET sum[n \in 0 .. Len(v)] == IF n = 0 THEN 0 ELSE sum[n - 1] + v[n]
    IN  sum[Len(v)]

\* Floating-point comparisons: with NaN every one is false but "differs".
Less(a, b) == NaN \notin {a, b} /\ a < b

Differ(a, b) == NaN \in {a, b} \/ a # b

AtMost(a, b) == Less(a, b) \/ ~Differ(a, b)

\* The result x of arithmetic on v.
Arithmetic(v, x) == IF \E i \in DOMAIN v : v[i] = NaN THEN NaN ELSE x

AnyBad(q) == \E i \in DOMAIN q : q[i]

Bit(b) == IF b THEN 100 ELSE 0

Result(v, invalid) == [value |-> v, invalid |-> invalid]

WeightedSum(f, v) ==
    Sum([i \in DOMAIN v |-> (Sums[f][i] * v[i]) \div 100])
        - (IF f = 13 THEN 100 ELSE 0)

\* math.Sqrt: the greatest number whose square is at most n.
Root(n) == CHOOSE r \in 0 .. n : r * r <= n /\ n < (r + 1) * (r + 1)

\* Formulas 1, 2, 3, 5 and 9: powers, with roots.
Norm(v) == Root(v[1] * v[1] + v[2] * v[2])

Power(f, v) ==
    CASE f = 1 -> IF Less(0, v[3]) THEN Arithmetic(v, (57735 * Norm(v)) \div v[3])
                                   ELSE 0
      [] f = 2 -> IF v[1] = 0 /\ v[2] = 0 THEN NaN
                  ELSE Arithmetic(v, (100 * v[1]) \div Norm(v))
      [] f = 3 -> Arithmetic(v, Norm(v))
      [] f = 5 -> IF Less(v[1], 0) THEN NaN ELSE Arithmetic(v, Root(100 * v[1]))
      [] f = 9 -> Arithmetic(v, (v[1] * v[2] * Root(30000)) \div 10000000)

\* Formula 26: P2 unless P1 is large or small.
Threshold(v) ==
    IF Less(v[1], -140) \/ Less(140, v[1]) THEN 0
    ELSE IF AtMost(-50, v[1]) /\ AtMost(v[1], 50) THEN 100 ELSE v[2]

\* Formula 55.
Quotient(a, b) == IF b > 0 THEN a \div b ELSE (-a) \div (-b)

Division(v) ==
    IF v[2] # 0 THEN Arithmetic(v, Quotient(100 * v[1], v[2]))
    ELSE IF v[1] = 0 THEN 0 ELSE IF Less(0, v[1]) THEN MaxFloat ELSE -MaxFloat

\* Formulas 220 and 221: the smaller, the greater of two.
Extreme(f, v) ==
    IF f = 220 THEN IF Less(v[2], v[1]) THEN v[2] ELSE v[1]
               ELSE IF Less(v[1], v[2]) THEN v[2] ELSE v[1]

\* Formula 53: the greatest parcel less the smallest; one that is NaN is neither.
Span(v) ==
    LET numbers == {v[i] : i \in DOMAIN v} \ {NaN}
        max == CHOOSE x \in numbers : \A y \in numbers : y <= x
        min == CHOOSE x \in numbers : \A y \in numbers : x <= y
    IN  IF numbers = {} THEN -2 * MaxFloat ELSE max - min

\* Formulas 4, 6, 7, 10, 53 and 500 take any number of parcels.
Aggregate(f, v) ==
    CASE f = 4 -> Arithmetic(v, Sum(v))
      [] f = 10 -> Arithmetic(v, -Sum(v))
      [] f = 6 -> Bit(\A i \in DOMAIN v : v[i] # 0)
      [] f \in {7, 500} -> Bit(\E i \in DOMAIN v : v[i] # 0)
      [] f = 53 -> Span(v)

\* Formulas 50 and 51: the last valid parcel, the first one if there is none.
Choice(v, q) ==
    LET good == {i \in DOMAIN q : ~q[i]}
        last == CHOOSE i \in good : \A j \in good : j <= i
    IN  IF good = {} THEN Result(v[1], q[1]) ELSE Result(v[last], FALSE)

\* Formula 54: a double point from two single ones, bad when they are equal.
DoublePoint(v, q) ==
    Result(IF v[1] = 0 /\ v[2] # 0 THEN 0
           ELSE IF v[1] # 0 /\ v[2] = 0 THEN 100 ELSE v[1],
           ~Differ(v[1], v[2]) \/ AnyBad(q))

\* Formulas 216, 218 and 219: P1 between P2 and P3; only P1 must be valid.
Between(f, v, q) ==
    Result(Bit(/\ AtMost(v[2], v[1]) /\ (f = 218 => Less(v[2], v[1]))
               /\ AtMost(v[1], v[3]) /\ (f = 219 => Less(v[1], v[3]))), q[1])

OneParcel == {5, 14, 231}

TwoParcels == {2, 3, 9, 26, 54, 55, 220, 221}

ThreeParcels == {1, 203, 216, 218, 219}

AnyNumber == {4, 6, 7, 10, 50, 51, 52, 53, 500}

\* ok: the formula exists and has the parcels it needs.  (Without any parcel
\* formulas 50, 51 and 54 end the process; no instance has such a point.)
Computable(f, v) ==
    \/ f \in DOMAIN Sums /\ Len(v) = Len(Sums[f])
    \/ f \in OneParcel /\ Len(v) = 1
    \/ f \in TwoParcels /\ Len(v) = 2
    \/ f \in ThreeParcels /\ Len(v) = 3
    \/ f \in AnyNumber /\ (f \in {50, 51} => v # <<>>)
    \/ f = 225 /\ Len(v) <= 1

Formula(f, v, q) ==
    CASE f \in DOMAIN Sums -> Result(Arithmetic(v, WeightedSum(f, v)), AnyBad(q))
      [] f \in {1, 2, 3, 5, 9} -> Result(Power(f, v), AnyBad(q))
      [] f \in {4, 6, 7, 10, 53, 500} -> Result(Aggregate(f, v), AnyBad(q))
      [] f = 14 -> Result(Arithmetic(v, (10 * v[1]) \div 6), AnyBad(q))
      [] f = 26 -> Result(Threshold(v), AnyBad(q))
      [] f = 55 -> Result(Division(v), AnyBad(q))
      [] f \in {220, 221} -> Result(Extreme(f, v), AnyBad(q))
      [] f = 231 -> Result(IF Less(0, v[1]) THEN 0 ELSE v[1], AnyBad(q))
      [] f \in {50, 51} -> Choice(v, q)
      [] f = 52 -> Result(Bit(\E i \in DOMAIN q : ~q[i]), FALSE)
      [] f = 54 -> DoublePoint(v, q)
      [] f = 203 -> LET k == IF v[1] # 0 THEN 3 ELSE 2 IN Result(v[k], q[k])
      [] f \in {216, 218, 219} -> Between(f, v, q)
      [] f = 225 -> Result(100, FALSE)

\* The parcels of calculated point c in the readings r, and its result.
ParcelValues(r, c) == [i \in DOMAIN conf[c].parcels |-> r[conf[c].parcels[i]].value]

ParcelFlags(r, c) == [i \in DOMAIN conf[c].parcels |-> r[conf[c].parcels[i]].invalid]

HasResult(r, c) == Computable(conf[c].formula, ParcelValues(r, c))

ResultOf(r, c) == Formula(conf[c].formula, ParcelValues(r, c), ParcelFlags(r, c))

-----------------------------------------------------------------------------
(* The cycle.                                                              *)

Init ==
    /\ conf \in Configs
    /\ db = [p \in Points |-> [value |-> 0, invalid |-> TRUE]]
    /\ vals = [n \in Nodes |-> <<>>]
    /\ pending = [p \in Points |-> <<>>]
    /\ active = [n \in Nodes |-> FALSE]
    /\ late = [n \in Nodes |-> 0]
    /\ changes = 0 /\ moves = 0

Extended(r, p, d) == [o \in DOMAIN r \cup {p} |-> IF o = p THEN d ELSE r[o]]

\* The documents come in the order of their keys.
IsNext(n, p) ==
    /\ p \in Points \ DOMAIN vals[n]
    /\ \A o \in Points \ DOMAIN vals[n] : p <= o

\* Mutant: the cycle runs on the standby node as well.
ReadAlways(n, p) ==
    /\ IsNext(n, p)
    /\ vals' = [vals EXCEPT ![n] = Extended(vals[n], p, db[p])]
    /\ UNCHANGED <<conf, db, pending, active, late, changes, moves>>

\* An active node begins a cycle; the cursor brings the documents one by one.
Read(n, p) ==
    /\ vals[n] = <<>> => active[n]
    /\ IsNext(n, p)
    /\ vals' = [vals EXCEPT ![n] = Extended(vals[n], p, db[p])]
    /\ UNCHANGED <<conf, db, pending, active, late, changes, moves>>

\* Mutant: a change of quality alone is not written.
ChangedValue(r, c) ==
    HasResult(r, c) /\ Differ(ResultOf(r, c).value, r[c].value)

\* The update is written if the document read in the cycle differs from it.
Changed(r, c) ==
    /\ HasResult(r, c)
    /\ \/ Differ(ResultOf(r, c).value, r[c].value)
       \/ ResultOf(r, c).invalid # r[c].invalid

\* Mutant: the update is filed under the first parcel of the point.
WriteToParcel(n) ==
    LET r == vals[n]
        opers == {conf[c].parcels[1] :
                    c \in {k \in Calculated : Changed(r, k) /\ conf[k].parcels # <<>>}}
    IN  /\ DOMAIN r = Points
        /\ pending' = [p \in Points |->
               IF p \in opers THEN Append(pending[p], r[p]) ELSE pending[p]]
        /\ vals' = [vals EXCEPT ![n] = <<>>]
        /\ UNCHANGED <<conf, db, active, late, changes, moves>>

\* All documents read: the updates are written in one bulk, and the node
\* waits for the next period.
WriteBack(n) ==
    LET r == vals[n]
        opers == {c \in Calculated : Changed(r, c)}
    IN  /\ DOMAIN r = Points
        /\ \A c \in opers : Len(pending[c]) < MaxPending
        /\ pending' = [p \in Points |->
               IF p \in opers THEN Append(pending[p], ResultOf(r, p)) ELSE pending[p]]
        /\ vals' = [vals EXCEPT ![n] = <<>>]
        /\ late' = [late EXCEPT ![n] = IF active[n] THEN 0
                                       ELSE IF @ < 2 THEN @ + 1 ELSE @]
        /\ UNCHANGED <<conf, db, active, changes, moves>>

\* An error of the read or of the bulk write ends the process; it is started
\* again, and is not active until its redundancy check says so.
Dies(n) ==
    /\ vals[n] # <<>> /\ moves < MaxMoves
    /\ vals' = [vals EXCEPT ![n] = <<>>]
    /\ active' = [active EXCEPT ![n] = FALSE]
    /\ late' = [late EXCEPT ![n] = 0]
    /\ moves' = moves + 1
    /\ UNCHANGED <<conf, db, pending, changes>>

\* processRedundancy (module ProcessRedundancy) changes the role of the node.
Deactivate(n) ==
    /\ active[n] /\ moves < MaxMoves
    /\ active' = [active EXCEPT ![n] = FALSE]
    /\ moves' = moves + 1
    /\ UNCHANGED <<conf, db, vals, pending, late, changes>>

NobodyActive == \A m \in Nodes : ~active[m]

Activate(n) ==
    /\ ~active[n] /\ (NobodyActive \/ moves < MaxMoves)
    /\ active' = [active EXCEPT ![n] = TRUE]
    /\ late' = [late EXCEPT ![n] = 0]
    /\ moves' = IF NobodyActive THEN moves ELSE moves + 1
    /\ UNCHANGED <<conf, db, vals, pending, changes>>

\* The data processor (external) applies the oldest update of a point.
Apply(p) ==
    /\ pending[p] # <<>>
    /\ db' = [db EXCEPT ![p] = Head(pending[p])]
    /\ pending' = [pending EXCEPT ![p] = Tail(@)]
    /\ UNCHANGED <<conf, vals, active, late, changes, moves>>

\* A measured point changes.
Measure(p, m) ==
    /\ p \notin Calculated /\ changes < MaxChanges /\ db[p] # m
    /\ db' = [db EXCEPT ![p] = m]
    /\ changes' = changes + 1
    /\ UNCHANGED <<conf, vals, pending, active, late, moves>>

Next ==
    \/ \E n \in Nodes : \/ \E p \in Points : Read(n, p)
                        \/ WriteBack(n) \/ Dies(n)
                        \/ Deactivate(n) \/ Activate(n)
    \/ \E p \in Points : Apply(p) \/ \E m \in Readings : Measure(p, m)

\* Every node goes on with its cycle, the data processor keeps up, and some
\* node becomes active when none is (module ProcessRedundancy).
Fairness ==
    /\ \A n \in Nodes : WF_vars(WriteBack(n)) /\ WF_vars(\E p \in Points : Read(n, p))
    /\ \A p \in Points : WF_vars(Apply(p))
    /\ WF_vars(NobodyActive /\ \E n \in Nodes : Activate(n))

Spec == Init /\ [][Next]_vars /\ Fairness

-----------------------------------------------------------------------------
(* Properties.                                                             *)

\* Types of the documents and of the updates written for them; measured points
\* get none.
TypeOK ==
    /\ \A p \in Points : /\ db[p] \in Document
                         /\ pending[p] \in Seq(Document)
                         /\ Len(pending[p]) <= MaxPending
                         /\ p \notin Calculated => pending[p] = <<>>
    /\ \A n \in Nodes : DOMAIN vals[n] \subseteq Points /\ late[n] \in 0 .. 2
    /\ active \in [Nodes -> BOOLEAN]

\* After it became standby a node completes at most the cycle it was in.
AtMostOneLateCycle == \A n \in Nodes : ~active[n] => late[n] <= 1

\* The document of c shows what its formula gives for the documents of its
\* parcels, quality included.
Settled(c) == pending[c] = <<>> /\ db[c] = ResultOf(db, c)

\* Once the measured points stay, the documents of the calculated points, and
\* of those calculated from them, come to agree with their formulas and no
\* more updates are written, through switchovers, a node that writes what it
\* worked out from old documents, and a data processor that lags.  (A result
\* that is not a number is written in every cycle.)
Settles ==
    <>[]( \A c \in Calculated :
            HasResult(db, c) /\ ResultOf(db, c).value # NaN => Settled(c) )

-----------------------------------------------------------------------------
(* A statement of the documentation that the code breaks.                  *)

\* "pick the first ok value from n parcels" (calculations/README.md:61): the
\* point of a choice comes to show the value of its first valid parcel.
ShowsFirstOk ==
    <>[]( \A c \in Calculated : \A i \in DOMAIN conf[c].parcels :
            /\ conf[c].formula \in {50, 51}
            /\ ~ParcelFlags(db, c)[i]
            /\ \A j \in 1 .. i - 1 : ParcelFlags(db, c)[j]
            => db[c].value = ParcelValues(db, c)[i] )
=============================================================================
