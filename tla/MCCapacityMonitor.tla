---------------------------- MODULE MCCapacityMonitor ----------------------------
(***************************************************************************)
(* Instances of CapacityMonitor for TLC.  Each pair of models brings one   *)
(* part of the switch in startCalcModel into play.                         *)
(***************************************************************************)
EXTENDS CapacityMonitor, TLC

CONSTANTS w1, w2, w3

ThreeWorkers == {w1, w2, w3}
Symmetry == Permutations(Workers)

ValidConfig(type, condtions, indexes) ==
  [type |-> type, valid |-> TRUE, condtions |-> condtions, indexes |-> indexes]

Curve == ValidConfig(1, 1, 2)
Surface == ValidConfig(2, 1, 3)
Histogram == ValidConfig(3, 1, 0)
HistogramOfTwoPoints == ValidConfig(3, 2, 0)
Trained == ValidConfig(4, 1, 1)
Results == ValidConfig(6, 0, 0)

OneTrained == << <<Trained>> >>
OneHistogram == << <<HistogramOfTwoPoints>> >>

\* A curve and a load histogram from the same unit: they contend for the connection
\* with several statements each.
CurveAndHistogram == << <<Curve>>, <<Histogram>> >>

\* A curve that becomes a surface, and curves fitted to stored results.
CurveAndResults == << <<Curve, Surface>>, <<Results, Results>> >>

\* A load histogram, and a trained model: both wait for the Python server.
HistogramAndTrained == << <<Histogram>>, <<Trained>> >>
=================================================================================
