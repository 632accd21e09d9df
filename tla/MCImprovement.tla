---------------------------- MODULE MCImprovement ----------------------------
(***************************************************************************)
(* Instances of two components in which a stored row is replaced after     *)
(* work outside the database: skill recommendations, and encrypted         *)
(* definitions under key maintenance.  The initial state picks one.        *)
(***************************************************************************)
EXTENDS SkillImprovement, CryptoMaintenance, TLC

CONSTANTS v1, v2, w1, w2, r1, r2, j1, j2, cA, cB

VARIABLE part

PartsInit == part \in {"improvement", "maintenance"} /\ ImprovementInit /\ MaintenanceInit

PartsNext ==
    \/ part = "improvement" /\ ImprovementNext /\ UNCHANGED <<part, maintenanceVars>>
    \/ part = "maintenance" /\ MaintenanceNext /\ UNCHANGED <<part, improvementVars>>

PartsSpec == PartsInit /\ [][PartsNext]_<<part, improvementVars, maintenanceVars>>

\* Every row, copy, call and operation has its shape.
PartsTypeOK == ImprovementTypeOK /\ MaintenanceTypeOK

\* No step depends on the name of a person, worker, row or content.
Interchangeable ==
    Permutations({v1, v2}) \cup Permutations({w1, w2}) \cup Permutations({r1, r2})
      \cup Permutations({j1, j2}) \cup Permutations({cA, cB})
=============================================================================
