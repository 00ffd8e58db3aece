----------------------------- MODULE MCTagDb -----------------------------
(* One gate tag whose action field is 0, looked up by the executor while a *)
(* web agent inserts, for the run gate_race.                               *)
EXTENDS TagDb
CONSTANTS t1, t2
MCKeys == {<<t1, 1>>, <<t2, 1>>}
MCUserTable == << [key |-> <<t1, 1>>, action |-> 0, seen |-> 1] >>
==========================================================================
