----------------------------- MODULE MCOperator ------------------------------
(***************************************************************************)
(* The operator's Runner, and admission to the objects of the apps it      *)
(* runs, for TLC: a behaviour is one of the Runner or one of admission.    *)
(***************************************************************************)
EXTENDS OperatorRunner, Admission

VARIABLE part

vars == <<runnerVars, admissionVars, part>>

Init ==
    /\ part \in {"runner", "admission"}
    /\ RunnerInit /\ (part = "admission" => options = {})
    /\ AdmissionInit /\ (part = "runner" => config = CHOOSE c \in Configs : TRUE)

Next ==
    \/ part = "runner" /\ RunnerNext /\ UNCHANGED <<admissionVars, part>>
    \/ part = "admission" /\ AdmissionNext /\ UNCHANGED <<runnerVars, part>>

Spec == Init /\ [][Next]_vars /\ RunnerFairness
=============================================================================
