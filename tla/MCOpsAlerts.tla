----------------------------- MODULE MCOpsAlerts -----------------------------
(***************************************************************************)
(* OpsAlerts with a rule that must hold for two minutes.  Rules share only *)
(* the moment at which their state is saved; the theorems are about any    *)
(* number of them.                                                         *)
(***************************************************************************)
EXTENDS OpsAlerts

CONSTANT a

TwoMinutes == [r \in Rules |-> 2]
=============================================================================
