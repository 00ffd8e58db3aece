------------------------------ MODULE MCDaemon ------------------------------
(* Instances for TLC of two parts of the daemon that share no state: the   *)
(* connection server with its pools of agents, and the gate with its       *)
(* timer.  A behaviour exercises one of them, chosen at the start; the     *)
(* variables of the other keep their initial values.                       *)
EXTENDS AgentPool, PwmGate

VARIABLE part

DaemonInit ==
    /\ part \in {"pool", "gate"} /\ Init /\ GateInit
    /\ part # "gate" => ~ suspended /\ ~ running

DaemonNext ==
    /\ UNCHANGED part
    /\ \/ part = "pool" /\ Next /\ UNCHANGED gateVars
       \/ part = "gate" /\ GateNext /\ UNCHANGED vars

DaemonSpec == DaemonInit /\ [][DaemonNext]_<<part, vars, gateVars>>

(* The fairness of each part is that of its module. *)
DaemonFairSpec ==
    /\ DaemonSpec
    /\ WF_vars(part = "pool" /\ Server)
    /\ WF_gateVars(part = "gate" /\ OpenTask)
    /\ WF_gateVars(part = "gate" /\ TimerTask)
=============================================================================
