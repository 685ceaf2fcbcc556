---------------------------- MODULE MCValidation ----------------------------
(* The inputs of the validation: all small graphs, small DAX files, and the   *)
(* edits of workflows with two steps.                                         *)
EXTENDS Validation, SequencesExt

MCNames == 0..2
MCEditNames == {0, 1}

\* Up to two dependencies, repetitions included, or all three.
Lists == SeqOf(MCNames, 2) \cup {<<0, 1, 2>>, <<2, 1, 0>>}

Status(f) == [n \in MCNames |-> IF n \in DOMAIN f THEN f[n] ELSE "none"]

Workflow(steps, selector, deadline, hasStatuses, status) ==
  [steps |-> steps, selector |-> selector, deadline |-> deadline,
   hasStatuses |-> hasStatuses, status |-> Status(status)]

JobSteps(g) == [s \in DOMAIN g |-> [deps |-> g[s], kind |-> "job"]]

\* Every graph of up to three steps; a dependency may be missing.
Graphs3 == UNION {[S -> Lists] : S \in SUBSET MCNames}

\* The step kinds and dependencies of an edit.
EditSteps ==
  UNION {[S -> [deps : {<<>>, <<0>>, <<1>>}, kind : {"job"}]
               \cup [deps : {<<>>}, kind : {"ref", "both"}]] : S \in SUBSET MCEditNames}

Statuses == [MCEditNames -> {"none", "running", "complete"}]

MCEdits ==
  {Workflow(t, "s", "ok", TRUE, u) : t \in EditSteps, u \in Statuses}
  \cup {Workflow(t, sel, dl, has, [n \in {} |-> "none"]) :
          t \in EditSteps, sel \in {"nil", "t"}, dl \in {"nil", "negative"}, has \in BOOLEAN}

MCCreated ==
  {Workflow(JobSteps(g), "s", "nil", FALSE, [n \in {} |-> "none"]) : g \in Graphs3}
  \cup {w \in MCEdits : ~w.hasStatuses}

\* Up to two jobs and two child elements, over two names in either case.
Ids == Id({1, 2})
MCDocuments == [jobs : SeqOf(Ids, 2),
                childs : SeqOf([ref : Ids, parents : SeqOf(Ids, 1)], 2)]
=============================================================================
