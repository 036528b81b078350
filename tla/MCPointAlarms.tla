--------------------------- MODULE MCPointAlarms ---------------------------
(***************************************************************************)
(* Instances of PointAlarms: one analog point with limits -2 .. 2 and      *)
(* hysteresis 1, and digital points, with and without isEvent.             *)
(***************************************************************************)
EXTENDS PointAlarms

AnalogPoint ==
    [type |-> "analog", kconv1 |-> 1, kconv2 |-> 0, zeroDeadband |-> 0,
     hiLimit |-> 2, loLimit |-> -2, hysteresis |-> 1, isEvent |-> FALSE,
     priority |-> 2, historianDeadBand |-> 3, historianPeriod |-> 0]

DigitalPoint(event, k, prio) ==
    [AnalogPoint EXCEPT !.type = "digital", !.kconv1 = k, !.isEvent = event,
                        !.priority = prio]

MCAnalog == {AnalogPoint}
MCDigital == {DigitalPoint(FALSE, -1, 1), DigitalPoint(TRUE, 1, 0)}

Plain(v) == [Blank EXCEPT !.valueAtSource = v]
Timed(v, t) == [Plain(v) EXCEPT !.timeTagAtSource = t]

\* On both sides of each border of the high band, with the 3 below; the low
\* band mirrors it.
MCValues == {-4, 0, 1, 4}

MCAnalogUpdates ==
    {Plain(v) : v \in MCValues \cup {NaN}}
    \cup {[Plain(4) EXCEPT !.isHistorical = TRUE],
          [Plain(3) EXCEPT !.isNotForHistorical = TRUE]}

\* Single point, double point (0 and 3 are intermediate), with and without a
\* source time.
MCDigitalUpdates ==
    {Plain(0), Plain(1), Timed(0, 1), Timed(1, 1), Timed(1, 2)}
    \cup {[Timed(v, 1) EXCEPT !.doublePoint = TRUE] : v \in {1, 3}}

Edit(disabled, hi, v) ==
    [alarmDisabled |-> disabled, hiLimit |-> hi, loLimit |-> -2,
     hysteresis |-> 1, newValue |-> v]

MCEdits == {Edit(TRUE, 2, Missing), Edit(FALSE, 1, Missing), Edit(FALSE, 2, 4)}
MCDigitalEdits == {Edit(TRUE, 2, Missing), Edit(FALSE, 2, Missing)}

MCPoints == MCAnalog \cup MCDigital
MCUpdates == [analog |-> MCAnalogUpdates, digital |-> MCDigitalUpdates]
MCAllEdits == [analog |-> MCEdits, digital |-> MCDigitalEdits]
=============================================================================
