------------------------ MODULE MCWorkflowController ------------------------
(* Instances of the controller: the shapes of workflow that the runs use.    *)
EXTENDS WorkflowController

\* Two job steps, the second after the first.
ChainSteps == {"first", "second"}
ChainDeps == [s \in ChainSteps |-> IF s = "second" THEN {"first"} ELSE {}]

\* One job step.
OneStep == {"only"}
OneDeps == [s \in OneStep |-> {}]
=============================================================================
