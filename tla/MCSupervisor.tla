---------------------------- MODULE MCSupervisor ----------------------------
(* A small instance of Supervisor: the code's own bounds, two engagements,   *)
(* and the confidences around the threshold.                                 *)
EXTENDS Supervisor

MCConfidences == {0, 69, 70, 90}
=============================================================================
