------------------------------- MODULE MCAccess -------------------------------
(***************************************************************************)
(* One instance for the three parts of access to the hub, which share no   *)
(* state: each behaviour runs one of them.                                  *)
(***************************************************************************)
EXTENDS LoginLimiter, Operator, Fleet, TLC

VARIABLE part
vars == <<part, limiterVars, operatorVars, fleetVars>>

Init == part \in {"limiter", "operator", "fleet"} /\ LimiterInit /\ OperatorInit /\ FleetInit
Next ==
    /\ UNCHANGED part
    /\ \/ part = "limiter" /\ LimiterNext /\ UNCHANGED <<operatorVars, fleetVars>>
       \/ part = "operator" /\ OperatorNext /\ UNCHANGED <<limiterVars, fleetVars>>
       \/ part = "fleet" /\ FleetNext /\ UNCHANGED <<limiterVars, operatorVars>>
Spec == Init /\ [][Next]_vars

\* The parts share the model values of their sets, so one permutation serves
\* several of them.
Symmetry == Permutations(Requests) \cup Permutations(Sids)
    \cup Permutations(Machines) \cup Permutations(Tokens)
===============================================================================
