--------------------------- MODULE MCInvestigation ---------------------------
(* The code's own bounds, two engagements, so that a mismatch exists, and    *)
(* the confidences around the threshold.                                     *)
EXTENDS Investigation

MCConfidences == {0, 69, 70, 90}
=============================================================================
