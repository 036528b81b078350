-------------------------- MODULE MCDataProcessor --------------------------
(***************************************************************************)
(* Instances of DataProcessor: an analog point without limits in practice, *)
(* a digital point, and values 0 and 1.                                    *)
(***************************************************************************)
EXTENDS DataProcessor

CONSTANTS w1, w2

Analog == "analog"
Digital == "digital"

AnalogConfig ==
    [type |-> "analog", kconv1 |-> 1, kconv2 |-> 0, zeroDeadband |-> 0,
     hiLimit |-> 9, loLimit |-> -9, hysteresis |-> 0, isEvent |-> FALSE,
     priority |-> 2, historianDeadBand |-> 0, historianPeriod |-> 0]

MCConfig == [p \in Points |-> IF p = Digital
                              THEN [AnalogConfig EXCEPT !.type = "digital",
                                                        !.priority = 1]
                              ELSE AnalogConfig]

Both == {Analog, Digital}
MCShard == [p \in Points |-> IF p = Digital THEN w1 ELSE w2]

MCUpdates ==
    {[valueAtSource |-> v, bad |-> FALSE, doublePoint |-> FALSE,
      timeTagAtSource |-> 0, isHistorical |-> FALSE,
      isNotForHistorical |-> FALSE, rangeCheck |-> FALSE] : v \in {0, 1}}

OneDigital == {Digital}
=============================================================================
