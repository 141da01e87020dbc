------------------------- MODULE MCMeasurementBuffer -------------------------
(* An instance of MeasurementBuffer for TLC: three anchors, of which the     *)
(* first two or all three have a position, or a stored configuration misses  *)
(* the first; in a mode with all the gates.                                  *)
EXTENDS MeasurementBuffer

MCAnchors == 0 .. 2
MCConfigs == {{}, {0, 1}, {1, 2}, {0, 1, 2}}
==============================================================================
