----------------------------- MODULE Validation -----------------------------
(***************************************************************************)
(* pkg/validation: ValidateWorkflow for a new workflow and                 *)
(* ValidateWorkflowUpdate for a change of one, with topologicalSort as the *)
(* walk of TopologicalSort.  New workflows are written by hand or made by  *)
(* dax-to-json.                                                            *)
(*                                                                         *)
(* The controller calls ValidateWorkflow only; ValidateWorkflowUpdate has  *)
(* no caller but its tests.  Here both guard the stored workflow, so that  *)
(* what they promise can be said of sequences of accepted requests.        *)
(* The metadata, which a vendored function validates, is left out.         *)
(***************************************************************************)
EXTENDS TopologicalSort, DaxToJson

CONSTANTS
  Created,    \* workflows that somebody may submit
  Documents,  \* DAX files that somebody may convert and submit
  Edits,      \* what somebody may try to replace a workflow by
  EditNames,  \* bound: only workflows with these steps are edited
  None

\* api.WorkflowStep; "ref" also stands for a step with neither template nor
\* reference, which validation does not tell apart.
Step == [deps : Seq(Names), kind : {"job", "ref", "both"}]

\* api.Workflow as far as validation reads it.  hasStatuses: Statuses is not nil.
IsObject(o) ==
  /\ DOMAIN o = {"steps", "selector", "deadline", "hasStatuses", "status"}
  /\ DOMAIN o.steps \subseteq Names /\ \A s \in DOMAIN o.steps : o.steps[s] \in Step
  /\ o.selector \in {"nil", "s", "t"}
  /\ o.deadline \in {"nil", "ok", "negative"}
  /\ o.hasStatuses \in BOOLEAN
  /\ o.status \in [Names -> {"none", "running", "complete"}]

\* A workflow that dax-to-json prints, after SetDefaults gave it a selector.
FromDax(adag) ==
  [steps |-> Steps(adag), selector |-> "s", deadline |-> "ok",
   hasStatuses |-> TRUE, status |-> [n \in Names |-> "none"]]

ASSUME ValidationAssumption ==
  /\ \A o \in Created \cup Edits : IsObject(o)
  /\ \A d \in Documents : IsAdag(d, Names)
  /\ None \notin Created \cup Edits \cup {FromDax(d) : d \in Documents}

VARIABLES
  stored,   \* the workflow as it was last accepted, or None
  request,  \* the workflow to validate, or None
  source,   \* the DAX file that the request was made from, or None
  errs      \* the errors that are found before the walk

vars == <<sortVars, stored, request, source, errs>>

NoSteps == [n \in {} |-> <<>>]

Init ==
  /\ Off /\ deps = NoSteps
  /\ stored = None /\ request = None /\ source = None /\ errs = {}

-----------------------------------------------------------------------------
(* The parts of the validation.                                            *)

Graph(o) == [s \in DOMAIN o.steps |-> o.steps[s].deps]

\* ValidateWorkflowSpec without the walk: deadline, selector, and the exclusive
\* kinds of a step.
SpecErrors(o) ==
  (IF o.deadline = "negative" THEN {"deadline"} ELSE {})
  \cup (IF o.selector = "nil" THEN {"selector"} ELSE {})
  \cup (IF \E s \in DOMAIN o.steps : o.steps[s].kind = "both" THEN {"exclusive"} ELSE {})

\* getWorkflowRunningAndCompletedSteps.
Completed(o) == {s \in DOMAIN o.steps : o.hasStatuses /\ o.status[s] = "complete"}
Running(o) == {s \in DOMAIN o.steps : o.hasStatuses /\ o.status[s] = "running"}

AllCompleted(o) == DOMAIN o.steps \subseteq Completed(o)

\* ValidateWorkflowSpecUpdate that protects the steps that run only.
SpecUpdateErrorsRunningOnly(o, old) ==
  LET kept == DOMAIN o.steps \cap DOMAIN old.steps
  IN  (IF o.selector # old.selector THEN {"immutable"} ELSE {})
      \cup (IF Running(old) \subseteq DOMAIN o.steps THEN {} ELSE {"removed"})
      \cup (IF \E s \in kept \cap Running(old) : o.steps[s] # old.steps[s]
            THEN {"modified"} ELSE {})

\* ValidateWorkflowSpecUpdate after ValidateWorkflowSpec: an immutable selector,
\* and no removal or change of a step that runs or is complete.
SpecUpdateErrors(o, old) ==
  LET active == Running(old) \cup Completed(old)
      kept == DOMAIN o.steps \cap DOMAIN old.steps
  IN  (IF o.selector # old.selector THEN {"immutable"} ELSE {})
      \cup (IF active \subseteq DOMAIN o.steps THEN {} ELSE {"removed"})
      \cup (IF \E s \in kept \cap active : o.steps[s] # old.steps[s]
            THEN {"modified"} ELSE {})

\* ValidateWorkflowStatusUpdate.
StatusErrors(o) == IF o.hasStatuses THEN {} ELSE {"statuses"}

-----------------------------------------------------------------------------
\* An update whose steps are taken from the old workflow.
BeginOldSteps(o, e) ==
  /\ request' = o /\ errs' = e
  /\ deps' = IF stored = None THEN Graph(o) ELSE Graph(stored)
  /\ UNCHANGED <<walkVars, stored>>

\* A request comes in and the validation begins: the graph of o will be walked.
Begin(o, e) ==
  /\ request' = o /\ errs' = e
  /\ deps' = Graph(o)
  /\ UNCHANGED <<walkVars, stored>>

\* ValidateWorkflow.
Create ==
  /\ request = None /\ stored = None
  /\ \E o \in Created : Begin(o, SpecErrors(o))
  /\ UNCHANGED source

\* dax-to-json, and ValidateWorkflow of what it prints.
CreateFromDax ==
  /\ request = None /\ stored = None
  /\ \E adag \in Documents :
       source' = adag /\ Begin(FromDax(adag), SpecErrors(FromDax(adag)))

\* ValidateWorkflowUpdate that trusts the spec of an update.
UpdateTrustsSpec ==
  /\ request = None /\ stored # None
  /\ DOMAIN stored.steps \subseteq EditNames
  /\ ~AllCompleted(stored)
  /\ \E o \in Edits : Begin(o, SpecUpdateErrors(o, stored) \cup StatusErrors(o))
  /\ UNCHANGED source

\* ValidateWorkflowUpdate.  A completed workflow, and so one without steps, is
\* refused before anything else is looked at.
Update ==
  /\ request = None /\ stored # None
  /\ DOMAIN stored.steps \subseteq EditNames
  /\ ~AllCompleted(stored)
  /\ \E o \in Edits :
       Begin(o, SpecErrors(o) \cup SpecUpdateErrors(o, stored) \cup StatusErrors(o))
  /\ UNCHANGED source

\* The validation is over.
Decide ==
  /\ request # None /\ pc = "done"
  /\ stored' = IF result = "ok" /\ errs = {} THEN request ELSE stored
  /\ request' = None /\ source' = None /\ errs' = {}
  /\ deps' = NoSteps
  /\ pc' = "off" /\ todo' = {} /\ stack' = <<>> /\ next' = [n \in Names |-> 0]
  /\ temporary' = {} /\ permanent' = {} /\ sorted' = <<>> /\ cycle' = <<>>
  /\ isCyclic' = FALSE /\ cycleStart' = EmptyName /\ result' = "none"

\* The workflow is deleted.
Delete ==
  /\ request = None /\ stored # None
  /\ stored' = None
  /\ UNCHANGED <<sortVars, request, source, errs>>

Sort ==
  /\ request # None /\ SortNext
  /\ UNCHANGED <<stored, request, source, errs>>

Next ==
  Create \/ CreateFromDax \/ Update \/ Sort \/ Decide \/ Delete

Spec == Init /\ [][Next]_vars

\* The validation is one sequential computation that nothing stops.
FairSpec == Spec /\ WF_vars(Sort \/ Decide)

-----------------------------------------------------------------------------
(* Properties.                                                             *)

\* Types of the state; the graph that is walked is the one of the request.
TypeOK ==
  /\ stored # None => IsObject(stored)
  /\ request # None => IsObject(request) /\ deps = Graph(request)
  /\ errs \subseteq {"deadline", "selector", "exclusive", "immutable", "removed",
                     "modified", "statuses"}
  /\ pc \in {"off", "main", "loop", "return", "done"}
  /\ result \in {"none", "ok", "notFound", "forbidden"}

\* Whatever sequence of requests was accepted, the stored workflow can be carried
\* out: its dependencies exist and have an order, and it has a selector.
StoredValid ==
  stored # None =>
    /\ WellFormed(Graph(stored))
    /\ stored.selector # "nil" /\ stored.deadline # "negative"
    /\ \A s \in DOMAIN stored.steps : stored.steps[s].kind # "both"

\* An accepted update never takes away or changes a step that runs or is
\* complete, never changes the selector that ties jobs to the workflow, and
\* never touches a workflow that is complete.
ActiveStepsKept ==
  [][(stored # None /\ stored' \notin {None, stored}) =>
       /\ stored'.selector = stored.selector
       /\ ~AllCompleted(stored)
       /\ \A s \in Running(stored) \cup Completed(stored) :
            s \in DOMAIN stored'.steps /\ stored'.steps[s] = stored.steps[s]]_vars

\* A DAX file without ambiguities becomes a workflow with its jobs and its
\* dependencies, whatever the case of its ids.
DaxFaithful == source # None => ConvertsFaithfully(source)

\* Every validation ends: the walk does not go round in a cycle.
Decided == request # None ~> request = None
=============================================================================
