--------------------------- MODULE RospecService ---------------------------
(***************************************************************************)
(* What an LLRP client may rely on when it runs one ROSpec at a time: the  *)
(* life of each ROSpec it adds, as the messages ADD, ENABLE, START and     *)
(* STOP and the events of the reader show it.  Only one ROSpec is ever     *)
(* active or on its way to a stop, a stop is completed in the end, and a   *)
(* ROSpec disappears only while it is not in use.  A service that breaks   *)
(* this once promises nothing from then on.                                *)
(***************************************************************************)
CONSTANT Objs           \* the ADD_ROSPEC messages

VARIABLES
    phase,              \* where each of them is in its life
    broken              \* ROSpecs were removed too early

Phases == {"none", "disabled", "inactive", "active", "stopping", "failed", "gone"}

Busy(o)   == phase[o] \in {"active", "stopping"}
Listed(o) == phase[o] \notin {"none", "gone"}

Init == phase = [o \in Objs |-> "none"] /\ broken = FALSE

Moves(o, from, to) ==
    /\ phase[o] \in from
    /\ phase' = [phase EXCEPT ![o] = to]

Add(o)    == Moves(o, {"none"}, "disabled")
Enable(o) == Moves(o, {"disabled"}, "inactive")
Start(o)  == /\ \A p \in Objs : ~ Busy(p)
             /\ Moves(o, {"inactive"}, "active")
Stop(o)   == Moves(o, {"active"}, "stopping")
Finish(o) == Moves(o, {"stopping", "failed"}, "inactive")
Fail(o)   == Moves(o, {"active"}, "failed")

\* The session ends: whatever is listed is stopped, ...
StopAll ==
    phase' = [o \in Objs |->
                CASE phase[o] = "active"                 -> "stopping"
                  [] phase[o] \in {"disabled", "failed"} -> "inactive"
                  [] OTHER                               -> phase[o]]

\* ... and is removed once nothing runs.
Clear ==
    /\ \A o \in Objs : ~ Busy(o)
    /\ phase' = [o \in Objs |-> IF Listed(o) THEN "gone" ELSE phase[o]]

Next ==
    \/ /\ ~ broken /\ UNCHANGED broken
       /\ \/ \E o \in Objs : Add(o) \/ Enable(o) \/ Start(o) \/ Stop(o) \/ Finish(o) \/ Fail(o)
          \/ StopAll
          \/ Clear
    \/ broken'

vars == <<phase, broken>>

\* A stop is completed in the end.
Completes(o) == ~ broken /\ phase[o] = "stopping" /\ Finish(o) /\ UNCHANGED broken

Spec == Init /\ [][Next]_vars /\ \A o \in Objs : WF_vars(Completes(o))
=============================================================================
