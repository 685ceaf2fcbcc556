---------------------------- MODULE MCWorkflowWatch -------------------------
(* The instance of the polling watch: two workflows, of different names or of  *)
(* the same name in two namespaces, listed in the order of their keys.         *)
EXTENDS WorkflowWatch

MCKeys == {"k1", "k2"}
MCRank == [k \in MCKeys |-> IF k = "k1" THEN 1 ELSE 2]
MCNames == {"a", "b"}
Distinct == [k \in MCKeys |-> IF k = "k1" THEN "a" ELSE "b"]
SameName == [k \in MCKeys |-> "a"]
MCNamings == {Distinct, SameName}
=============================================================================
