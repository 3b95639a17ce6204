----------------------------- MODULE MCDelivery -----------------------------
(***************************************************************************)
(* The plan that builds a cell and the processes that run in it.  They     *)
(* share no state: a behaviour is about the one or about the other, as     *)
(* part says, and the variables of the other rest.                         *)
(***************************************************************************)
EXTENDS MCFoundation, MCPolicy

VARIABLE part

NoProcess ==
    /\ doc = <<>> /\ world = [f \in Facts |-> TRUE] /\ binary = "preflight"
    /\ pc = "off" /\ todo = {} /\ pool = FALSE /\ object = FALSE /\ excused = FALSE
    /\ cancelled = FALSE /\ ready = "none" /\ vouched = "no"
    /\ starts = 0 /\ mishaps = 0

NoPlan == plan = <<>> /\ stage = "none" /\ final = <<>>

DeliveryInit ==
    \/ part = "process" /\ Init /\ NoPlan
    \/ part = "plan" /\ PolicyInit /\ NoProcess

DeliveryNext ==
    /\ UNCHANGED part
    /\ \/ part = "process" /\ Next /\ UNCHANGED policyVars
       \/ part = "plan" /\ PolicyNext /\ UNCHANGED vars

DeliverySpec ==
    /\ DeliveryInit /\ [][DeliveryNext]_<<part, vars, policyVars>>
    /\ WF_vars(part = "process" /\ Step /\ UNCHANGED <<part, policyVars>>)
    /\ WF_vars(part = "process" /\ Ping /\ UNCHANGED <<part, policyVars>>)
=============================================================================
