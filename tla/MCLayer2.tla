------------------------------ MODULE MCLayer2 ------------------------------
(* Two combinations of one triple, so that a cache hit, a skipped combination *)
(* and a row of another combination occur; one run of each script and one     *)
(* re-extraction, which is all it takes for each to overtake the others.      *)
EXTENDS Layer2

MCOrder == <<"A", "C">>
MCTripleOf == [c \in {"A", "C"} |-> "dc2_q1"]
=============================================================================
